--------------------------- MODULE TcpPlaneProofs ---------------------------
(***************************************************************************)
(* Proofs about TcpPlane, for every buffer size, message and interval of   *)
(* the clock.                                                              *)
(*                                                                         *)
(*   1. Induction over the natural numbers, and what Ingress computes.     *)
(*   2. The inductive invariant.  Its part about the smoltcp socket,       *)
(*      Sound, is stated of a socket that has seen the first i of the      *)
(*      arrived segments, so that it is also what a poll preserves from    *)
(*      one segment to the next.                                           *)
(*   3. Counting.                                                          *)
(*   4. One segment.                                                       *)
(*   5. A poll.                                                            *)
(*   6. The caller's calls.                                                *)
(*   7. The peer.                                                          *)
(*   8. The theorems about types and streams.                              *)
(*   9. Who ends up in TIME-WAIT, and the theorem about the end.           *)
(***************************************************************************)
EXTENDS TcpPlane, FiniteSetTheorems, WellFoundedInduction, TLAPS

-----------------------------------------------------------------------------
(* 1. Induction, and the arrived segments one by one *)

\* Induction on a set of numbers: a least number outside it would be 0 or
\* have its predecessor inside.
LEMMA SetInduction ==
  ASSUME NEW S, 0 \in S, \A n \in Nat : n \in S => n + 1 \in S
  PROVE  \A n \in Nat : n \in S
<1> DEFINE T == Nat \ S
           R == OpToRel(<, Nat)
<1> SUFFICES ASSUME T # {} PROVE FALSE
  OBVIOUS
<1>1. PICK x \in T : \A y \in T : ~(<<y, x>> \in R)
  BY NatLessThanWellFounded, WFMin, Zenon
<1>2. \A y \in Nat : y < x => <<y, x>> \in R
  BY Zenon DEF OpToRel
<1>3. x # 0 /\ x - 1 \in Nat /\ x - 1 < x
  OBVIOUS
<1>4. x - 1 \in S
  BY <1>1, <1>2, <1>3
<1>5. (x - 1) + 1 \in S
  BY <1>3, <1>4
<1> QED BY <1>3, <1>5

\* f[i] is socket s after the first i segments, up to m.
Runs(f, s, m) ==
  f = [i \in 0 .. m |-> IF i = 0 THEN s ELSE Process(f[i - 1], arrived[i])]

LEMMA RunExists ==
  ASSUME NEW s, NEW n \in Nat
  PROVE  \E f : Runs(f, s, n)
<1> DEFINE S == {m \in Nat : \E f : Runs(f, s, m)}
<1>1. 0 \in S
  <2> DEFINE f == [i \in 0 .. 0 |-> s]
  <2>1. f = [i \in 0 .. 0 |-> IF i = 0 THEN s ELSE Process(f[i - 1], arrived[i])]
    OBVIOUS
  <2>2. Runs(f, s, 0)
    BY <2>1 DEF Runs
  <2> QED BY <2>2
<1>2. ASSUME NEW m \in Nat, m \in S PROVE m + 1 \in S
  <2>1. PICK f : Runs(f, s, m)
    BY <1>2
  <2> DEFINE g == [i \in 0 .. m + 1 |->
                     IF i <= m THEN f[i] ELSE Process(f[m], arrived[i])]
  <2>2. \A i \in 0 .. m : g[i] = f[i]
    OBVIOUS
  <2>3. \A i \in 0 .. m : f[i] = IF i = 0 THEN s ELSE Process(f[i - 1], arrived[i])
    BY <2>1 DEF Runs
  <2>4. ASSUME NEW i \in 0 .. m + 1
        PROVE  g[i] = IF i = 0 THEN s ELSE Process(g[i - 1], arrived[i])
    <3>1. CASE i = 0
      BY <2>2, <2>3, <3>1
    <3>2. CASE i # 0 /\ i <= m
      <4>1. i - 1 \in 0 .. m /\ i \in 0 .. m
        BY <3>2
      <4> QED BY <2>2, <2>3, <3>2, <4>1
    <3>3. CASE i = m + 1
      <4>1. i # 0 /\ ~(i <= m) /\ i - 1 = m /\ m \in 0 .. m
        BY <3>3
      <4>2. g[i] = Process(f[m], arrived[i])
        BY <4>1
      <4> QED BY <2>2, <4>1, <4>2
    <3> QED BY <3>1, <3>2, <3>3
  <2> HIDE DEF g
  <2>5. g = [i \in 0 .. m + 1 |-> g[i]]
    BY DEF g
  <2>6. Runs(g, s, m + 1)
    BY <2>4, <2>5 DEF Runs
  <2> QED BY <2>6
<1> HIDE DEF S
<1>3. n \in S
  BY <1>1, <1>2, SetInduction
<1> QED BY <1>3 DEF S

\* Ingress is the end of such a run.
LEMMA IngressRun ==
  ASSUME NEW s, Len(arrived) \in Nat
  PROVE  \E f : Runs(f, s, Len(arrived)) /\ Ingress(s) = f[Len(arrived)]
<1> DEFINE after == CHOOSE f : Runs(f, s, Len(arrived))
<1>1. \E f : Runs(f, s, Len(arrived))
  BY RunExists
<1>2. Runs(after, s, Len(arrived))
  BY <1>1, Zenon
<1>3. Ingress(s) = after[Len(arrived)]
  BY DEF Ingress, Runs
<1> QED BY <1>2, <1>3

-----------------------------------------------------------------------------
(* 2. The invariant *)

\* Segments of a kind in q after the first i.
After(q, i, kind) == Cardinality({j \in i + 1 .. Len(q) : q[j][1] = kind})

Segments == {<<"ack">>, <<"rst">>, Fin} \cup {Byte(b) : b \in 1 .. PEER_MSG}
TxBuffers == Seq(Items)
RxBuffers == Seq(1 .. PEER_MSG)
Sockets == [st : States, tx : TxBuffers, nxt : Nat, rx : RxBuffers, cut : Nat]

\* The bytes of the send buffer: all of tx but a FIN at its end.
HasFin(s) == s.st \in {"FinWait1", "Closing", "LastAck"}
Data(s) == IF HasFin(s) THEN Len(s.tx) - 1 ELSE Len(s.tx)

Synchronized(s) == s.st \notin {"Closed", "SynSent"}
PeerDone == peer \in {"closed", "gone"}

\* What is on its way to us: bytes are numbered up to the last one sent, none
\* follows a FIN and nothing follows an RST.
Line ==
  /\ arrived \in Seq(Segments)
  /\ \A j \in 1 .. Len(arrived) :
       /\ arrived[j][1] = "byte" => arrived[j][2] = peer_sent - After(arrived, j, "byte")
       /\ arrived[j][1] = "fin" => PeerDone /\ After(arrived, j, "byte") = 0
       /\ arrived[j][1] = "rst" => peer = "gone" /\ j = Len(arrived)
  /\ peer = "listen" => arrived = <<>>

\* The send buffer ends with the last byte that send took, of n, and a FIN.
Sending(s, n) ==
  /\ s.nxt <= Len(s.tx)
  /\ s.st = "Closed" => s.tx = <<>>
  /\ s.st = "SynSent" => s.tx = <<Syn>> /\ n = 0 /\ peer_got = <<>>
  /\ s.st \in {"FinWait2", "TimeWait"} => s.tx = <<>>
  /\ HasFin(s) => s.tx # <<>> /\ s.tx[Len(s.tx)] = Fin
  /\ Synchronized(s) =>
       /\ Data(s) <= n /\ Data(s) <= TX_CAP
       /\ \A k \in 1 .. Data(s) : s.tx[k] = Byte(n - Data(s) + k)

\* The peer has what we know to be acknowledged and what the acknowledgements
\* on their way stand for.
Acked(s, i, n) ==
  LET A == After(arrived, i, "ack")
      b == n - Data(s)
  IN  /\ s.st # "Closed" => A <= s.nxt
      /\ Synchronized(s) => Len(peer_got) = IF b + A <= n THEN b + A ELSE n

\* The receive buffer goes on where recv stopped; the rest is on its way.
Receiving(s, i) ==
  LET B == After(arrived, i, "byte")
  IN  /\ \A k \in 1 .. Len(s.rx) : s.rx[k] = Len(got) + k
      /\ Len(got) + Len(s.rx) <= peer_sent
      /\ Len(s.rx) + B <= RX_CAP
      /\ s.st # "Closed" => Len(got) + Len(s.rx) + B = peer_sent

\* How far the connection is, and what then cannot happen any more.
Progress(s, i) ==
  /\ s.st = "SynSent" =>
       /\ i < Len(arrived) => arrived[i + 1][1] \in {"ack", "rst"}
       /\ peer \in {"open", "closed"} => i < Len(arrived)
       /\ handshake # "true"
  /\ s.st \in {"CloseWait", "Closing", "LastAck", "TimeWait"} =>
       PeerDone /\ After(arrived, i, "byte") = 0
  /\ s.st = "Closed" /\ handshake = "true" =>
       PeerDone /\ Len(got) + Len(s.rx) + s.cut = peer_sent
  /\ s.st # "Closed" => s.cut = 0
  /\ ended => s.st \in {"Closed", "TimeWait"} /\ s.rx = <<>>
  /\ peer = "listen" => s.st \in {"Closed", "SynSent"}

Sound(s, i, n) ==
  s \in Sockets /\ Sending(s, n) /\ Acked(s, i, n) /\ Receiving(s, i) /\ Progress(s, i)

Streams ==
  /\ got \in Seq(Nat) /\ peer_got \in Seq(Nat)
  /\ \A k \in 1 .. Len(got) : got[k] = k
  /\ Len(peer_got) <= told /\ \A k \in 1 .. Len(peer_got) : peer_got[k] = k

\* Nothing has happened before connect.
Fresh ==
  ~connected =>
    /\ tcp.st = "Closed" /\ tcp.rx = <<>> /\ tcp.cut = 0 /\ peer = "listen"
    /\ told = 0 /\ got = <<>> /\ peer_got = <<>> /\ peer_sent = 0
    /\ handshake = "none" /\ ~ended

Scalars ==
  /\ timer \in {"idle", "running", "passed"} /\ ticks_left \in 0 .. CLOCK_TICKS - 1
  /\ told \in 0 .. MSG /\ peer_sent \in 0 .. PEER_MSG
  /\ handshake \in {"none", "true", "false", "refused"}
  /\ peer \in {"listen", "open", "closed", "gone"}

Flags == {connected, ended, shut, lost} \subseteq BOOLEAN

TcpInv ==
  /\ Scalars /\ Flags /\ Line /\ Streams /\ Fresh
  /\ tcp.nxt = Len(tcp.tx)
  /\ Sound(tcp, 0, told)

-----------------------------------------------------------------------------
(* 3. Counting *)

LEMMA AfterFinite ==
  ASSUME NEW q, Len(q) \in Nat, NEW i \in Nat, NEW kind
  PROVE  /\ IsFiniteSet({j \in i + 1 .. Len(q) : q[j][1] = kind})
         /\ After(q, i, kind) \in Nat
<1>1. IsFiniteSet(i + 1 .. Len(q))
  BY FS_Interval
<1>2. IsFiniteSet({j \in i + 1 .. Len(q) : q[j][1] = kind})
  BY <1>1, FS_Subset
<1> QED BY <1>2, FS_CardinalityType DEF After

LEMMA AfterAll ==
  ASSUME NEW q, Len(q) \in Nat, NEW kind
  PROVE  After(q, Len(q), kind) = 0
<1>1. {j \in Len(q) + 1 .. Len(q) : q[j][1] = kind} = {}
  OBVIOUS
<1> QED BY <1>1, FS_EmptySet DEF After

LEMMA CountAfter ==
  ASSUME NEW q, NEW kind
  PROVE  Count(q, kind) = After(q, 0, kind)
BY DEF Count, After

LEMMA AfterStep ==
  ASSUME NEW q, Len(q) \in Nat, NEW i \in 0 .. Len(q) - 1, NEW kind
  PROVE  After(q, i, kind) = IF q[i + 1][1] = kind THEN After(q, i + 1, kind) + 1
                             ELSE After(q, i + 1, kind)
<1> DEFINE A == {j \in i + 1 .. Len(q) : q[j][1] = kind}
           B == {j \in (i + 1) + 1 .. Len(q) : q[j][1] = kind}
<1>0. i + 1 \in Nat
  OBVIOUS
<1>1. IsFiniteSet(B)
  <2>1. IsFiniteSet((i + 1) + 1 .. Len(q))
    BY <1>0, FS_Interval
  <2> QED BY <2>1, FS_Subset
<1>2. CASE q[i + 1][1] = kind
  <2>1. A = B \cup {i + 1} /\ i + 1 \notin B
    BY <1>2
  <2>2. Cardinality(A) = Cardinality(B) + 1
    BY <1>1, <2>1, FS_AddElement
  <2> QED BY <1>2, <2>2 DEF After
<1>3. CASE q[i + 1][1] # kind
  <2>1. A = B
    BY <1>3
  <2> QED BY <1>3, <2>1 DEF After
<1> QED BY <1>2, <1>3

LEMMA AfterAppend ==
  ASSUME NEW T, NEW q \in Seq(T), NEW e \in T, NEW i \in 0 .. Len(q), NEW kind
  PROVE  After(Append(q, e), i, kind) = IF e[1] = kind THEN After(q, i, kind) + 1
                                        ELSE After(q, i, kind)
<1> DEFINE r == Append(q, e)
           A == {j \in i + 1 .. Len(r) : r[j][1] = kind}
           B == {j \in i + 1 .. Len(q) : q[j][1] = kind}
<1>1. Len(q) \in Nat /\ Len(r) = Len(q) + 1 /\ r[Len(q) + 1] = e
  OBVIOUS
<1>2. \A j \in 1 .. Len(q) : r[j] = q[j]
  OBVIOUS
<1>0. i \in Nat
  OBVIOUS
<1>3. IsFiniteSet(B)
  <2>1. IsFiniteSet(i + 1 .. Len(q))
    BY <1>0, <1>1, FS_Interval
  <2> QED BY <2>1, FS_Subset
<1> HIDE DEF r
<1>4. CASE e[1] = kind
  <2>1. A = B \cup {Len(q) + 1} /\ Len(q) + 1 \notin B
    BY <1>1, <1>2, <1>4
  <2>2. Cardinality(A) = Cardinality(B) + 1
    BY <1>3, <2>1, FS_AddElement
  <2> QED BY <1>4, <2>2 DEF After, r
<1>5. CASE e[1] # kind
  <2>1. A = B
    BY <1>1, <1>2, <1>5
  <2> QED BY <1>5, <2>1 DEF After, r
<1> QED BY <1>4, <1>5

-----------------------------------------------------------------------------
(* 4. One segment *)

LEMMA Kinds ==
  /\ Syn[1] = "syn" /\ Fin[1] = "fin" /\ <<"ack">>[1] = "ack" /\ <<"rst">>[1] = "rst"
  /\ \A b : Byte(b)[1] = "byte" /\ Byte(b)[2] = b /\ Byte(b) # Fin /\ Byte(b) # Syn
BY DEF Syn, Fin, Byte

LEMMA SegmentKinds ==
  ASSUME NEW x \in Segments
  PROVE  /\ x[1] \in {"ack", "rst", "fin", "byte"}
         /\ x[1] = "byte" => x[2] \in 1 .. PEER_MSG
BY Kinds DEF Segments

\* Before and after one more segment.
LEMMA Counts ==
  ASSUME Line, NEW i \in 0 .. Len(arrived) - 1
  PROVE  /\ i + 1 \in 1 .. Len(arrived) /\ Len(arrived) \in Nat
         /\ arrived[i + 1] \in Segments
         /\ After(arrived, i + 1, "ack") \in Nat /\ After(arrived, i + 1, "byte") \in Nat
         /\ After(arrived, i, "ack") =
              IF arrived[i + 1][1] = "ack" THEN After(arrived, i + 1, "ack") + 1
              ELSE After(arrived, i + 1, "ack")
         /\ After(arrived, i, "byte") =
              IF arrived[i + 1][1] = "byte" THEN After(arrived, i + 1, "byte") + 1
              ELSE After(arrived, i + 1, "byte")
<1>1. Len(arrived) \in Nat /\ i + 1 \in 1 .. Len(arrived) /\ i + 1 \in Nat
  BY DEF Line
<1>2. arrived[i + 1] \in Segments
  BY <1>1 DEF Line
<1> QED BY <1>1, <1>2, AfterStep, AfterFinite

\* A socket and its fields.
LEMMA SocketFields ==
  ASSUME NEW s \in Sockets
  PROVE  /\ s.st \in States /\ s.tx \in TxBuffers /\ s.nxt \in Nat
         /\ s.rx \in RxBuffers /\ s.cut \in Nat
         /\ s.tx \in Seq(Items) /\ s.rx \in Seq(1 .. PEER_MSG)
         /\ Len(s.tx) \in Nat /\ Len(s.rx) \in Nat
         /\ Len(s.tx) = 0 => s.tx = <<>>
         /\ Len(s.rx) = 0 => s.rx = <<>>
<1>1. /\ s.st \in States /\ s.tx \in TxBuffers /\ s.nxt \in Nat /\ s.rx \in RxBuffers
      /\ s.cut \in Nat
  BY DEF Sockets
<1>2. s.tx \in Seq(Items) /\ s.rx \in Seq(1 .. PEER_MSG)
  BY <1>1 DEF TxBuffers, RxBuffers
<1>3. Len(s.tx) \in Nat /\ Len(s.rx) \in Nat
  BY <1>2
<1>4. Len(s.tx) = 0 => s.tx = <<>>
  BY <1>2
<1>5. Len(s.rx) = 0 => s.rx = <<>>
  BY <1>2
<1> QED BY <1>1, <1>2, <1>3, <1>4, <1>5

LEMMA SetNxt ==
  ASSUME NEW s \in Sockets, NEW c \in Nat, NEW r, r = [s EXCEPT !.nxt = c]
  PROVE  r \in Sockets /\ r.st = s.st /\ r.tx = s.tx /\ r.nxt = c /\ r.rx = s.rx
         /\ r.cut = s.cut
BY DEF Sockets

LEMMA SetRx ==
  ASSUME NEW s \in Sockets, NEW d \in RxBuffers, NEW r, r = [s EXCEPT !.rx = d]
  PROVE  r \in Sockets /\ r.st = s.st /\ r.tx = s.tx /\ r.nxt = s.nxt /\ r.rx = d
         /\ r.cut = s.cut
BY DEF Sockets

\* A closed socket takes nothing.
LEMMA ClosedSound ==
  ASSUME Line, NEW n \in Nat, NEW s, NEW i \in 0 .. Len(arrived) - 1,
         Sound(s, i, n), s.st = "Closed"
  PROVE  Sound(s, i + 1, n)
<1>1. s \in Sockets /\ Sending(s, n)
  BY DEF Sound
<1>2. Acked(s, i + 1, n)
  BY DEF Sound, Acked, Synchronized
<1>3. Receiving(s, i + 1)
  <2>1. Len(s.rx) \in Nat /\ RX_CAP \in Nat
    BY <1>1, SocketFields, TcpAssumption
  <2>2. /\ After(arrived, i + 1, "byte") \in Nat /\ After(arrived, i, "byte") \in Nat
        /\ After(arrived, i + 1, "byte") <= After(arrived, i, "byte")
    BY Counts
  <2>3. Len(s.rx) + After(arrived, i, "byte") <= RX_CAP
    BY DEF Sound, Receiving
  <2>4. Len(s.rx) + After(arrived, i + 1, "byte") <= RX_CAP
    BY <2>1, <2>2, <2>3
  <2> QED BY <2>4 DEF Sound, Receiving
<1>4. Progress(s, i + 1)
  BY DEF Sound, Progress
<1> QED BY <1>1, <1>2, <1>3, <1>4 DEF Sound

LEMMA ClosedFields ==
  ASSUME NEW s \in Sockets
  PROVE  /\ Closed(s) \in Sockets
         /\ Closed(s).st = "Closed" /\ Closed(s).tx = <<>> /\ Closed(s).nxt = 0
         /\ Closed(s).rx = s.rx /\ Closed(s).cut = s.cut
<1>1. "Closed" \in States /\ <<>> \in TxBuffers /\ 0 \in Nat
  BY DEF States, TxBuffers
<1> QED BY <1>1 DEF Closed, Sockets

\* Closing a socket that has seen everything, or whose handshake is not over.
LEMMA CloseSound ==
  ASSUME NEW n \in Nat, NEW s, NEW i \in Nat, NEW k \in Nat, Sound(s, i, n),
         handshake = "true" => PeerDone /\ Len(got) + Len(s.rx) + s.cut = peer_sent,
         ended => s.rx = <<>>,
         Len(s.rx) + After(arrived, k, "byte") <= RX_CAP
  PROVE  Sound(Closed(s), k, n)
<1> DEFINE c == Closed(s)
<1>1. /\ c \in Sockets /\ c.st = "Closed" /\ c.tx = <<>> /\ c.nxt = 0
      /\ c.rx = s.rx /\ c.cut = s.cut
  BY ClosedFields DEF Sound
<1> HIDE DEF c
<1>2. Sending(c, n)
  BY <1>1 DEF Sending, Synchronized, HasFin
<1>3. Acked(c, k, n)
  BY <1>1 DEF Acked, Synchronized
<1>4. Receiving(c, k)
  BY <1>1 DEF Sound, Receiving
<1>5. Progress(c, k)
  BY <1>1 DEF Progress
<1> QED BY <1>1, <1>2, <1>3, <1>4, <1>5 DEF Sound, c

\* TIME-WAIT is over: what was not read is counted and gone.
LEMMA ResetSound ==
  ASSUME NEW n \in Nat, NEW s, NEW k \in Nat, Sound(s, k, n), PeerDone,
         Len(got) \in Nat, Len(got) + Len(s.rx) = peer_sent,
         After(arrived, k, "byte") = 0
  PROVE  Sound(Reset(s), k, n)
<1>1. PICK c : c = Reset(s)
  OBVIOUS
<1>2. /\ Closed(s) \in Sockets /\ Closed(s).st = "Closed" /\ Closed(s).tx = <<>>
      /\ Closed(s).nxt = 0 /\ Len(s.rx) \in Nat /\ <<>> \in RxBuffers
  BY ClosedFields, SocketFields DEF Sound, RxBuffers
<1>3. /\ c \in Sockets /\ c.st = "Closed" /\ c.tx = <<>> /\ c.nxt = 0
      /\ c.rx = <<>> /\ c.cut = Len(s.rx)
  BY <1>1, <1>2 DEF Reset, Sockets
<1>4. Sending(c, n)
  BY <1>3 DEF Sending, Synchronized, HasFin
<1>5. Acked(c, k, n)
  BY <1>3 DEF Acked, Synchronized
<1>6. /\ Len(c.rx) = 0 /\ 1 .. 0 = {} /\ Len(got) + 0 <= peer_sent /\ 0 + 0 <= RX_CAP
      /\ Len(got) + 0 + Len(s.rx) = peer_sent
  BY <1>2, <1>3, TcpAssumption
<1>7. Receiving(c, k)
  BY <1>3, <1>6, Zenon DEF Receiving
<1>8. Progress(c, k)
  BY <1>3, <1>6 DEF Progress, PeerDone
<1> QED BY <1>1, <1>3, <1>4, <1>5, <1>7, <1>8 DEF Sound

LEMMA RstSound ==
  ASSUME Line, Scalars, Streams, NEW n \in Nat, NEW s, NEW i \in 0 .. Len(arrived) - 1,
         Sound(s, i, n), s.st # "Closed", arrived[i + 1][1] = "rst"
  PROVE  Sound(Closed(s), i + 1, n)
<1>1. i + 1 \in 1 .. Len(arrived) /\ i \in Nat /\ i + 1 \in Nat /\ Len(arrived) \in Nat
  BY Counts
<1>2. i + 1 = Len(arrived) /\ peer = "gone"
  BY <1>1 DEF Line
<1>3. After(arrived, i + 1, "byte") = 0 /\ After(arrived, i, "byte") = 0
  BY <1>1, <1>2, AfterAll, Counts
<1>4. /\ Len(got) + Len(s.rx) + 0 = peer_sent /\ Len(s.rx) + 0 <= RX_CAP
      /\ s.cut = 0 /\ (ended => s.rx = <<>>)
  BY <1>3 DEF Sound, Receiving, Progress
<1>5. Len(s.rx) \in Nat /\ Len(got) \in Nat
  BY SocketFields DEF Sound, Streams
<1>6. Len(got) + Len(s.rx) + s.cut = peer_sent
  BY <1>4
<1> QED BY <1>1, <1>2, <1>3, <1>4, <1>5, <1>6, CloseSound DEF PeerDone

LEMMA ByteSound ==
  ASSUME Line, Scalars, Streams, NEW n \in Nat, NEW s, NEW i \in 0 .. Len(arrived) - 1,
         Sound(s, i, n), s.st # "Closed", arrived[i + 1][1] = "byte",
         NEW r \in Sockets, r.st = s.st, r.tx = s.tx, r.nxt = s.nxt,
         r.cut = s.cut, r.rx = Append(s.rx, arrived[i + 1][2])
  PROVE  Sound(r, i + 1, n)
<1> DEFINE x == arrived[i + 1][2]
           B == After(arrived, i + 1, "byte")
<1>1. x \in 1 .. PEER_MSG
  BY Counts, SegmentKinds
<1>0. s \in Sockets
  BY DEF Sound
<1>2. /\ Len(s.rx) \in Nat /\ Len(got) \in Nat /\ peer_sent \in Nat
      /\ PEER_MSG \in Nat /\ RX_CAP \in Nat
  <2>1. Len(s.rx) \in Nat
    BY <1>0, SocketFields
  <2>2. PEER_MSG \in Nat /\ RX_CAP \in Nat
    BY TcpAssumption
  <2>3. Len(got) \in Nat
    BY DEF Streams
  <2>4. peer_sent \in Nat
    BY <2>2 DEF Scalars
  <2> QED BY <2>1, <2>2, <2>3, <2>4
<1>3. /\ B \in Nat /\ After(arrived, i, "byte") = B + 1
      /\ After(arrived, i, "ack") = After(arrived, i + 1, "ack")
  BY Counts
<1>4. x = peer_sent - B
  BY Counts DEF Line
<1>5. r.rx = Append(s.rx, x)
  OBVIOUS
<1>6. /\ s.st \in {"Established", "FinWait1", "FinWait2"} /\ ~ended
  <2>1. s.st \notin {"SynSent", "CloseWait", "Closing", "LastAck", "TimeWait"}
    BY <1>3, Counts DEF Sound, Progress
  <2>2. s.st \in States
    BY <1>0, SocketFields
  <2> QED BY <2>1, <2>2 DEF States, Sound, Progress
<1> HIDE DEF x, B
<1>7. Sending(r, n)
  BY <1>5 DEF Sound, Sending, HasFin, Synchronized, Data
<1>8. Acked(r, i + 1, n)
  BY <1>3, <1>5 DEF Sound, Acked, HasFin, Synchronized, Data
<1>9. Receiving(r, i + 1)
  <2>1. Len(got) + Len(s.rx) + (B + 1) = peer_sent /\ Len(s.rx) + (B + 1) <= RX_CAP
    BY <1>3 DEF Sound, Receiving
  <2>2. Len(r.rx) = Len(s.rx) + 1 /\ s.rx \in Seq(1 .. PEER_MSG)
    BY <1>0, <1>1, <1>5, SocketFields
  <2>3. PICK g \in Nat, l \in Nat, b \in Nat :
          g = Len(got) /\ l = Len(s.rx) /\ b = B
    BY <1>2, <1>3, Zenon
  <2>4. g + l + (b + 1) = peer_sent /\ l + (b + 1) <= RX_CAP
    BY <2>1, <2>3, Zenon
  <2>5. peer_sent - b = g + (l + 1) /\ l + 1 + b <= RX_CAP
        /\ g + (l + 1) + b = peer_sent /\ g + (l + 1) <= peer_sent
    BY <1>2, <2>4
  <2>6. \A k \in 1 .. Len(r.rx) : r.rx[k] = g + k
    <3>1. x = g + (l + 1)
      BY <1>4, <2>3, <2>5, Zenon
    <3>2. \A k \in 1 .. l : s.rx[k] = g + k
      BY <2>3, Zenon DEF Sound, Receiving
    <3>3. Len(r.rx) = l + 1
      BY <2>2, <2>3, Zenon
    <3>4. \A k \in 1 .. l : r.rx[k] = s.rx[k]
      BY <1>1, <1>5, <2>2, <2>3
    <3>5. r.rx[l + 1] = x
      BY <1>1, <1>5, <2>2, <2>3
    <3>6. \A k \in 1 .. l + 1 : k \in 1 .. l \/ k = l + 1
      OBVIOUS
    <3> QED BY <3>1, <3>2, <3>3, <3>4, <3>5, <3>6, Zenon
  <2> QED BY <2>2, <2>3, <2>5, <2>6, Zenon DEF Receiving, B
<1>10. Progress(r, i + 1)
  BY <1>5, <1>6 DEF Sound, Progress
<1> QED BY <1>5, <1>7, <1>8, <1>9, <1>10 DEF Sound

\* What recv has still to give is the same before and after a segment that is
\* no byte.
LEMMA SameReceiving ==
  ASSUME Line, NEW s, NEW r, NEW i \in 0 .. Len(arrived) - 1, r.rx = s.rx,
         Receiving(s, i), s.st # "Closed", arrived[i + 1][1] # "byte"
  PROVE  Receiving(r, i + 1)
<1>1. After(arrived, i, "byte") = After(arrived, i + 1, "byte")
  BY Counts
<1> QED BY <1>1, Zenon DEF Receiving

\* An acknowledgement is of something sent.
LEMMA AckFacts ==
  ASSUME Line, NEW n \in Nat, NEW s, NEW i \in 0 .. Len(arrived) - 1,
         Sound(s, i, n), s.st # "Closed", arrived[i + 1][1] = "ack"
  PROVE  /\ s \in Sockets /\ s.tx # <<>> /\ s.nxt - 1 \in Nat
         /\ Len(s.tx) \in Nat /\ 1 <= Len(s.tx)
         /\ Tail(s.tx) \in TxBuffers /\ Head(s.tx) = s.tx[1]
         /\ Len(Tail(s.tx)) = Len(s.tx) - 1
         /\ \A k \in 1 .. Len(s.tx) - 1 : Tail(s.tx)[k] = s.tx[k + 1]
         /\ s.nxt \in Nat /\ s.nxt <= Len(s.tx)
         /\ After(arrived, i + 1, "ack") \in Nat
         /\ After(arrived, i, "ack") = After(arrived, i + 1, "ack") + 1
         /\ After(arrived, i + 1, "ack") + 1 <= s.nxt
         /\ ~ended
<1>1. s \in Sockets /\ s.nxt <= Len(s.tx) /\ After(arrived, i, "ack") <= s.nxt
  BY Zenon DEF Sound, Sending, Acked
<1>2. /\ After(arrived, i + 1, "ack") \in Nat
      /\ After(arrived, i, "ack") = After(arrived, i + 1, "ack") + 1
  BY Counts
<1>3. s.nxt \in Nat /\ Len(s.tx) \in Nat /\ s.tx \in Seq(Items)
  BY <1>1, SocketFields
<1>4. 1 <= Len(s.tx) /\ s.nxt - 1 \in Nat /\ After(arrived, i + 1, "ack") + 1 <= s.nxt
  BY <1>1, <1>2, <1>3
<1>5. s.tx # <<>>
  BY <1>4
<1>6. /\ Tail(s.tx) \in Seq(Items) /\ Head(s.tx) = s.tx[1]
      /\ Len(Tail(s.tx)) = Len(s.tx) - 1
      /\ \A k \in 1 .. Len(s.tx) - 1 : Tail(s.tx)[k] = s.tx[k + 1]
  BY <1>3, <1>5
<1>7. ~ended
  <2>1. s.st = "TimeWait" => s.tx = <<>>
    BY DEF Sound, Sending
  <2> QED BY <1>5, <2>1 DEF Sound, Progress
<1> QED BY <1>1, <1>2, <1>3, <1>4, <1>5, <1>6, <1>7 DEF TxBuffers

\* The SYN is acknowledged.
LEMMA AckSyn ==
  ASSUME Line, NEW n \in Nat, NEW s, NEW i \in 0 .. Len(arrived) - 1,
         Sound(s, i, n), s.st = "SynSent", arrived[i + 1][1] = "ack",
         NEW r \in Sockets, r.st = "Established", r.tx = Tail(s.tx),
         r.nxt = s.nxt - 1, r.rx = s.rx, r.cut = s.cut
  PROVE  Sound(r, i + 1, n)
<1> DEFINE A == After(arrived, i + 1, "ack")
<1>1. /\ s.nxt \in Nat /\ s.nxt <= Len(s.tx) /\ A \in Nat /\ A + 1 <= s.nxt
      /\ ~ended /\ Len(Tail(s.tx)) = Len(s.tx) - 1 /\ Len(s.tx) \in Nat
  BY AckFacts
<1>2. s.tx = <<Syn>> /\ n = 0 /\ peer_got = <<>>
  BY DEF Sound, Sending
<1>3. Len(s.tx) = 1 /\ Len(peer_got) = 0
  BY <1>2
<1>4. A = 0 /\ r.nxt = 0 /\ Len(r.tx) = 0 /\ Data(r) = 0
  <2>1. A = 0 /\ s.nxt - 1 = 0 /\ Len(s.tx) - 1 = 0
    BY <1>1, <1>3
  <2>2. Len(r.tx) = 0 /\ r.nxt = 0
    BY <1>1, <2>1
  <2> QED BY <2>1, <2>2 DEF Data, HasFin
<1> HIDE DEF A
<1>5. Sending(r, n)
  BY <1>2, <1>4, TcpAssumption DEF Sending, HasFin, Synchronized
<1>6. Acked(r, i + 1, n)
  BY <1>2, <1>3, <1>4 DEF Acked, Synchronized, A
<1>7. Receiving(r, i + 1)
  BY SameReceiving DEF Sound
<1>8. Progress(r, i + 1)
  <2>1. peer # "listen"
    BY DEF Line
  <2>2. s.cut = 0
    BY DEF Sound, Progress
  <2> QED BY <1>1, <2>1, <2>2 DEF Progress
<1> QED BY <1>5, <1>6, <1>7, <1>8 DEF Sound

\* The FIN is acknowledged, and with it everything.
LEMMA AckFin ==
  ASSUME Line, Streams, Scalars, NEW n \in Nat, NEW s, NEW i \in 0 .. Len(arrived) - 1,
         Sound(s, i, n), HasFin(s), Len(s.tx) = 1, arrived[i + 1][1] = "ack",
         NEW r \in Sockets, r.tx = Tail(s.tx), r.nxt = s.nxt - 1, r.rx = s.rx,
         r.cut = s.cut,
         s.st = "FinWait1" => r.st = "FinWait2",
         s.st = "Closing" => r.st = "TimeWait",
         s.st = "LastAck" => r.st = "Closed"
  PROVE  Sound(r, i + 1, n)
<1> DEFINE A == After(arrived, i + 1, "ack")
<1>0. s.st # "Closed" /\ Synchronized(s)
  BY DEF HasFin, Synchronized
<1>1. /\ s.nxt \in Nat /\ s.nxt <= 1 /\ A \in Nat /\ A + 1 <= s.nxt
      /\ ~ended /\ Len(Tail(s.tx)) = 1 - 1 /\ After(arrived, i, "ack") = A + 1
  BY <1>0, AckFacts
<1>2. A = 0 /\ s.nxt - 1 = 0
  BY <1>1
<1>3. r.nxt = 0 /\ Len(r.tx) = 0
  BY <1>1, <1>2
<1>4. r.tx = <<>>
  BY <1>3, SocketFields
<1>5. r.st \in {"FinWait2", "TimeWait", "Closed"} /\ Data(r) = 0 /\ Data(s) = 0
  <2>1. r.st \in {"FinWait2", "TimeWait", "Closed"}
    BY DEF HasFin
  <2> QED BY <1>3, <2>1 DEF Data, HasFin
<1>6. Len(peer_got) = n
  <2>1. Len(peer_got) = IF n - Data(s) + (A + 1) <= n THEN n - Data(s) + (A + 1) ELSE n
    BY <1>0, <1>1 DEF Sound, Acked
  <2> QED BY <1>2, <1>5, <2>1
<1> HIDE DEF A
<1>7. Sending(r, n)
  <2>1. 0 <= n /\ 0 <= TX_CAP /\ 0 <= 0 /\ 1 .. 0 = {}
    BY TcpAssumption
  <2>2. ~HasFin(r) /\ r.st # "SynSent"
    BY <1>5 DEF HasFin
  <2> QED BY <1>3, <1>4, <1>5, <2>1, <2>2, Zenon DEF Sending
<1>8. Acked(r, i + 1, n)
  BY <1>2, <1>3, <1>5, <1>6 DEF Acked, A
<1>9. Receiving(r, i + 1)
  BY <1>0, SameReceiving DEF Sound
<1>10. Progress(r, i + 1)
  <2>1. After(arrived, i + 1, "byte") = After(arrived, i, "byte")
    BY Counts
  <2>2. s.st \in {"Closing", "LastAck"} => PeerDone /\ After(arrived, i, "byte") = 0
    BY DEF Sound, Progress
  <2>3. r.st = "TimeWait" => PeerDone /\ After(arrived, i + 1, "byte") = 0
    BY <2>1, <2>2 DEF HasFin
  <2>0. r.cut = 0
    BY <1>0 DEF Sound, Progress
  <2>4. r.st = "Closed" => PeerDone /\ Len(got) + Len(r.rx) + r.cut = peer_sent
    <3> SUFFICES ASSUME r.st = "Closed"
                 PROVE  PeerDone /\ Len(got) + Len(r.rx) + r.cut = peer_sent
      OBVIOUS
    <3>1. s.st = "LastAck"
      BY DEF HasFin
    <3>2. PeerDone /\ Len(got) + Len(s.rx) + 0 = peer_sent
      BY <1>0, <2>2, <3>1 DEF Sound, Receiving
    <3>3. Len(got) \in Nat /\ Len(s.rx) \in Nat
      BY SocketFields DEF Sound, Streams
    <3> QED BY <2>0, <3>2, <3>3
  <2>5. peer # "listen"
    BY DEF Line
  <2> QED BY <1>1, <1>5, <2>0, <2>3, <2>4, <2>5 DEF Progress
<1> QED BY <1>7, <1>8, <1>9, <1>10 DEF Sound

\* A byte is acknowledged.
LEMMA AckByte ==
  ASSUME Line, Streams, NEW n \in Nat, NEW s, NEW i \in 0 .. Len(arrived) - 1,
         Sound(s, i, n), Synchronized(s), ~(HasFin(s) /\ Len(s.tx) = 1),
         arrived[i + 1][1] = "ack",
         NEW r \in Sockets, r.tx = Tail(s.tx), r.nxt = s.nxt - 1, r.rx = s.rx,
         r.cut = s.cut, r.st = s.st
  PROVE  Sound(r, i + 1, n) /\ s.tx[1] # Fin
<1> DEFINE A == After(arrived, i + 1, "ack")
<1>0. s.st # "Closed" /\ s \in Sockets
  BY DEF Synchronized, Sound
<1>1. PICK L \in Nat, N \in Nat, D \in Nat, a \in Nat :
        L = Len(s.tx) /\ N = s.nxt /\ D = Data(s) /\ a = A
  <2>1. Len(s.tx) \in Nat /\ s.nxt \in Nat /\ A \in Nat /\ 1 <= Len(s.tx)
    BY <1>0, AckFacts
  <2>2. Data(s) \in Nat
    BY <2>1 DEF Data
  <2> QED BY <2>1, <2>2, Zenon
<1>2. /\ 1 <= L /\ N <= L /\ a + 1 <= N /\ After(arrived, i, "ack") = a + 1
      /\ Len(r.tx) = L - 1 /\ r.nxt = N - 1 /\ ~ended /\ s.tx # <<>>
      /\ \A k \in 1 .. L - 1 : r.tx[k] = s.tx[k + 1]
  <2>1. /\ 1 <= Len(s.tx) /\ s.nxt <= Len(s.tx) /\ A + 1 <= s.nxt
        /\ After(arrived, i, "ack") = A + 1 /\ ~ended /\ s.tx # <<>>
        /\ Len(Tail(s.tx)) = Len(s.tx) - 1
        /\ \A k \in 1 .. Len(s.tx) - 1 : Tail(s.tx)[k] = s.tx[k + 1]
    BY <1>0, AckFacts
  <2> QED BY <1>1, <2>1, Zenon
<1>3. /\ D = IF HasFin(s) THEN L - 1 ELSE L
      /\ Data(r) = IF HasFin(s) THEN L - 1 - 1 ELSE L - 1
      /\ HasFin(r) = HasFin(s)
  BY <1>1, <1>2, Zenon DEF Data, HasFin
<1>4. ~(HasFin(s) /\ L = 1)
  BY <1>1
<1>5. 1 <= D /\ Data(r) = D - 1 /\ D <= L
  <2>1. CASE HasFin(s)
    BY <1>2, <1>3, <1>4, <2>1
  <2>2. CASE ~HasFin(s)
    BY <1>2, <1>3, <2>2
  <2> QED BY <2>1, <2>2
<1>6. /\ D <= n /\ D <= TX_CAP
      /\ \A k \in 1 .. D : s.tx[k] = Byte(n - D + k)
      /\ HasFin(s) => s.tx[L] = Fin
      /\ s.st \notin {"SynSent", "FinWait2", "TimeWait"}
  <2>1. /\ D <= n /\ D <= TX_CAP
        /\ \A k \in 1 .. D : s.tx[k] = Byte(n - D + k)
        /\ HasFin(s) => s.tx[L] = Fin
    BY <1>1, Zenon DEF Sound, Sending
  <2>2. s.st \notin {"SynSent", "FinWait2", "TimeWait"}
    BY <1>2 DEF Sound, Sending, Synchronized
  <2> QED BY <2>1, <2>2
<1>7. s.tx[1] # Fin
  <2>1. 1 \in 1 .. D
    BY <1>5
  <2>2. s.tx[1] = Byte(n - D + 1)
    BY <1>6, <2>1
  <2> QED BY <2>2, Kinds
<1>8. Sending(r, n)
  <2>1. r.nxt <= Len(r.tx)
    BY <1>2
  <2>2. /\ r.st = "Closed" => r.tx = <<>>
        /\ r.st = "SynSent" => r.tx = <<Syn>> /\ n = 0 /\ peer_got = <<>>
        /\ r.st \in {"FinWait2", "TimeWait"} => r.tx = <<>>
    BY <1>0, <1>6
  <2>3. HasFin(r) => r.tx # <<>> /\ r.tx[Len(r.tx)] = Fin
    <3> SUFFICES ASSUME HasFin(s) PROVE r.tx # <<>> /\ r.tx[Len(r.tx)] = Fin
      BY <1>3
    <3>1. L - 1 \in 1 .. L - 1 /\ (L - 1) + 1 = L /\ L - 1 # 0
      BY <1>2, <1>4
    <3>2. r.tx[L - 1] = s.tx[L]
      BY <1>2, <3>1
    <3>3. Len(r.tx) # 0
      BY <1>2, <3>1
    <3>4. Len(<<>>) = 0
      OBVIOUS
    <3> QED BY <1>2, <1>6, <3>2, <3>3, <3>4, Zenon
  <2>4. Data(r) <= n /\ Data(r) <= TX_CAP
    BY <1>5, <1>6, TcpAssumption
  <2>5. ASSUME NEW k \in 1 .. D - 1 PROVE r.tx[k] = Byte(n - (D - 1) + k)
    <3>1. k \in 1 .. L - 1 /\ k + 1 \in 1 .. D /\ n - D + (k + 1) = n - (D - 1) + k
      BY <1>5
    <3> QED BY <1>2, <1>6, <3>1
  <2> QED BY <1>5, <2>1, <2>2, <2>3, <2>4, <2>5, Zenon DEF Sending
<1>9. Acked(r, i + 1, n)
  <2>1. A <= r.nxt
    BY <1>1, <1>2
  <2>2. Len(peer_got) = IF (n - D) + (a + 1) <= n THEN (n - D) + (a + 1) ELSE n
    BY <1>1, <1>2, Zenon DEF Sound, Acked
  <2>3. (n - D) + (a + 1) = (n - (D - 1)) + a
    BY <1>5
  <2>4. Len(peer_got) = IF (n - Data(r)) + A <= n THEN (n - Data(r)) + A ELSE n
    BY <1>1, <1>5, <2>2, <2>3, Zenon
  <2> QED BY <2>1, <2>4, Zenon DEF Acked
<1>10. Receiving(r, i + 1)
  BY <1>0, SameReceiving DEF Sound
<1>11. Progress(r, i + 1)
  <2>1. After(arrived, i + 1, "byte") = After(arrived, i, "byte")
    BY Counts
  <2>2. peer # "listen"
    BY DEF Line
  <2> QED BY <1>0, <1>2, <1>6, <2>1, <2>2 DEF Sound, Progress
<1> QED BY <1>7, <1>8, <1>9, <1>10, <1>11 DEF Sound

LEMMA AckSound ==
  ASSUME Line, Streams, Scalars, NEW n \in Nat, NEW s, NEW i \in 0 .. Len(arrived) - 1,
         Sound(s, i, n), s.st # "Closed", arrived[i + 1][1] = "ack"
  PROVE  Sound(OnAck(s), i + 1, n)
<1> DEFINE f == Head(s.tx) = Fin
           w == CASE s.st = "SynSent" -> "Established"
                  [] s.st = "FinWait1" /\ f -> "FinWait2"
                  [] s.st = "Closing" /\ f -> "TimeWait"
                  [] s.st = "LastAck" /\ f -> "Closed"
                  [] OTHER -> s.st
           r == OnAck(s)
<1>1. /\ s \in Sockets /\ Tail(s.tx) \in TxBuffers /\ s.nxt - 1 \in Nat
      /\ Head(s.tx) = s.tx[1] /\ s.tx # <<>>
  BY AckFacts
<1>2. s.st \in States
  BY <1>1, SocketFields
<1>3. /\ s.st = "SynSent" => w = "Established"
      /\ s.st = "FinWait1" /\ f => w = "FinWait2"
      /\ s.st = "Closing" /\ f => w = "TimeWait"
      /\ s.st = "LastAck" /\ f => w = "Closed"
      /\ s.st # "SynSent" /\ (f => ~HasFin(s)) => w = s.st
  BY DEF HasFin
<1>4. w \in States
  BY <1>2 DEF States
<1>5. r = [s EXCEPT !.st = w, !.tx = Tail(s.tx), !.nxt = s.nxt - 1]
  BY DEF OnAck
<1> HIDE DEF w, r
<1>6. /\ r \in Sockets /\ r.st = w /\ r.tx = Tail(s.tx) /\ r.nxt = s.nxt - 1
      /\ r.rx = s.rx /\ r.cut = s.cut
  BY <1>1, <1>4, <1>5 DEF Sockets
<1>7. CASE s.st = "SynSent"
  BY <1>3, <1>6, <1>7, AckSyn DEF r
<1>8. CASE HasFin(s) /\ Len(s.tx) = 1
  <2>1. s.tx[1] = Fin
    BY <1>8 DEF Sound, Sending
  <2>2. /\ s.st = "FinWait1" => r.st = "FinWait2"
        /\ s.st = "Closing" => r.st = "TimeWait"
        /\ s.st = "LastAck" => r.st = "Closed"
    BY <1>1, <1>3, <1>6, <2>1
  <2> QED BY <1>6, <1>8, <2>2, AckFin DEF r
<1>9. CASE Synchronized(s) /\ ~(HasFin(s) /\ Len(s.tx) = 1)
  <2> DEFINE q == [s EXCEPT !.tx = Tail(s.tx), !.nxt = s.nxt - 1]
  <2>1. q \in Sockets /\ q.tx = Tail(s.tx) /\ q.nxt = s.nxt - 1 /\ q.rx = s.rx
        /\ q.st = s.st /\ q.cut = s.cut
    BY <1>1 DEF Sockets
  <2> HIDE DEF q
  <2>2. s.tx[1] # Fin
    BY <1>9, <2>1, AckByte
  <2>3. r.st = s.st
    BY <1>1, <1>3, <1>6, <1>9, <2>2 DEF Synchronized
  <2> QED BY <1>6, <1>9, <2>3, AckByte DEF r
<1> QED BY <1>7, <1>8, <1>9 DEF Synchronized

\* The peer's FIN: everything it sent has been seen.
LEMMA FinSound ==
  ASSUME Line, NEW n \in Nat, NEW s, NEW i \in 0 .. Len(arrived) - 1,
         Sound(s, i, n), s.st # "Closed", arrived[i + 1][1] = "fin"
  PROVE  Sound(OnFin(s), i + 1, n)
<1> DEFINE w == CASE s.st = "Established" -> "CloseWait"
                  [] s.st = "FinWait1" -> "Closing"
                  [] s.st = "FinWait2" -> "TimeWait"
                  [] OTHER -> s.st
           r == OnFin(s)
<1>1. s \in Sockets /\ s.st \in States
  BY SocketFields DEF Sound
<1>2. s.st # "SynSent"
  <2>1. i < Len(arrived)
    BY Counts
  <2> QED BY <2>1 DEF Sound, Progress
<1>3. /\ s.st = "Established" => w = "CloseWait"
      /\ s.st = "FinWait1" => w = "Closing"
      /\ s.st = "FinWait2" => w = "TimeWait"
      /\ s.st \notin {"Established", "FinWait1", "FinWait2"} => w = s.st
      /\ w \in States
  BY <1>1 DEF States
<1>4. r = [s EXCEPT !.st = w]
  BY DEF OnFin
<1> HIDE DEF w, r
<1>5. /\ r \in Sockets /\ r.st = w /\ r.tx = s.tx /\ r.nxt = s.nxt /\ r.rx = s.rx
      /\ r.cut = s.cut
  BY <1>1, <1>3, <1>4 DEF Sockets
<1>6. /\ r.st \in {"CloseWait", "Closing", "LastAck", "TimeWait"}
      /\ (HasFin(r) <=> HasFin(s)) /\ Synchronized(r) /\ Synchronized(s)
      /\ r.st = "TimeWait" <=> s.st \in {"FinWait2", "TimeWait"}
  BY <1>1, <1>2, <1>3, <1>5 DEF States, HasFin, Synchronized
<1>7. Data(r) = Data(s)
  BY <1>5, <1>6 DEF Data
<1>8. Sending(r, n)
  BY <1>5, <1>6, <1>7 DEF Sound, Sending
<1>9. Acked(r, i + 1, n)
  <2>1. After(arrived, i, "ack") = After(arrived, i + 1, "ack")
    BY Counts
  <2> QED BY <1>5, <1>6, <1>7, <2>1, Zenon DEF Sound, Acked
<1>10. Receiving(r, i + 1)
  BY <1>5, SameReceiving DEF Sound
<1>11. Progress(r, i + 1)
  <2>1. PeerDone /\ After(arrived, i + 1, "byte") = 0
    BY Counts DEF Line
  <2>2. ended => r.st \in {"Closed", "TimeWait"} /\ r.rx = <<>>
    BY <1>5, <1>6 DEF Sound, Progress
  <2>3. r.cut = 0
    BY <1>5 DEF Sound, Progress
  <2> QED BY <1>6, <2>1, <2>2, <2>3 DEF Progress, PeerDone
<1> QED BY <1>5, <1>8, <1>9, <1>10, <1>11 DEF Sound, r

\* One segment of what has arrived.
LEMMA ProcessSound ==
  ASSUME Line, Streams, Scalars, NEW n \in Nat, NEW s, NEW i \in 0 .. Len(arrived) - 1,
         Sound(s, i, n)
  PROVE  Sound(Process(s, arrived[i + 1]), i + 1, n)
<1> DEFINE g == arrived[i + 1]
<1>1. g[1] \in {"ack", "rst", "fin", "byte"} /\ (g[1] = "byte" => g[2] \in 1 .. PEER_MSG)
  BY Counts, SegmentKinds
<1>2. CASE s.st = "Closed"
  <2>1. Process(s, g) = s
    BY <1>2 DEF Process
  <2> QED BY <1>2, <2>1, ClosedSound
<1>3. CASE s.st # "Closed" /\ g[1] = "rst"
  <2>1. Process(s, g) = Closed(s)
    BY <1>3 DEF Process
  <2> QED BY <1>3, <2>1, RstSound
<1>4. CASE s.st # "Closed" /\ g[1] = "ack"
  <2>1. Process(s, g) = OnAck(s)
    BY <1>4 DEF Process
  <2> QED BY <1>4, <2>1, AckSound
<1>5. CASE s.st # "Closed" /\ g[1] = "fin"
  <2>1. Process(s, g) = OnFin(s)
    BY <1>5 DEF Process
  <2> QED BY <1>5, <2>1, FinSound
<1>6. CASE s.st # "Closed" /\ g[1] = "byte"
  <2> DEFINE r == Process(s, g)
  <2>1. r = [s EXCEPT !.rx = Append(s.rx, g[2])]
    BY <1>6 DEF Process
  <2>2. s \in Sockets /\ s.rx \in Seq(1 .. PEER_MSG)
    BY SocketFields DEF Sound
  <2>3. Append(s.rx, g[2]) \in RxBuffers
    BY <1>1, <1>6, <2>2 DEF RxBuffers
  <2> HIDE DEF r, g
  <2>4. /\ r \in Sockets /\ r.st = s.st /\ r.tx = s.tx /\ r.nxt = s.nxt
        /\ r.rx = Append(s.rx, g[2]) /\ r.cut = s.cut
    BY <2>1, <2>2, <2>3 DEF Sockets
  <2> QED BY <1>6, <2>4, ByteSound DEF r, g
<1> QED BY <1>1, <1>2, <1>3, <1>4, <1>5, <1>6

\* Everything that has arrived, by induction on its number.
LEMMA IngressSound ==
  ASSUME Line, Streams, Scalars, NEW n \in Nat, NEW s, Sound(s, 0, n)
  PROVE  Sound(Ingress(s), Len(arrived), n)
<1>1. Len(arrived) \in Nat
  BY DEF Line
<1>2. PICK f : Runs(f, s, Len(arrived)) /\ Ingress(s) = f[Len(arrived)]
  BY <1>1, IngressRun
<1>3. f[0] = s /\ \A i \in 1 .. Len(arrived) : f[i] = Process(f[i - 1], arrived[i])
  BY <1>1, <1>2 DEF Runs
<1> DEFINE S == {k \in Nat : k <= Len(arrived) => Sound(f[k], k, n)}
<1>4. 0 \in S
  BY <1>3
<1>5. ASSUME NEW k \in Nat, k \in S PROVE k + 1 \in S
  <2> SUFFICES ASSUME k + 1 <= Len(arrived) PROVE Sound(f[k + 1], k + 1, n)
    OBVIOUS
  <2>1. k \in 0 .. Len(arrived) - 1 /\ k + 1 \in 1 .. Len(arrived) /\ (k + 1) - 1 = k
    BY <1>1
  <2>2. Sound(f[k], k, n)
    BY <1>1, <1>5, <2>1
  <2>3. f[k + 1] = Process(f[k], arrived[k + 1])
    BY <1>3, <2>1
  <2> QED BY <2>1, <2>2, <2>3, ProcessSound
<1> HIDE DEF S
<1>6. Len(arrived) \in S
  BY <1>1, <1>4, <1>5, SetInduction
<1> QED BY <1>1, <1>2, <1>6 DEF S

-----------------------------------------------------------------------------
(* 5. A poll *)

\* Before what has arrived, all of it is still to come; after it, nothing.
LEMMA Nothing ==
  ASSUME NEW kind
  PROVE  After(<<>>, 0, kind) = 0
<1>1. Len(<<>>) = 0 /\ Len(<<>>) \in Nat
  OBVIOUS
<1> QED BY <1>1, AfterAll

\* Everything of the send buffer is sent.
LEMMA SentSound ==
  ASSUME NEW n \in Nat, NEW s, NEW r, Sound(s, Len(arrived), n), Len(arrived) \in Nat,
         r \in Sockets, r.st = s.st, r.tx = s.tx, r.rx = s.rx, r.nxt = Len(s.tx),
         r.cut = s.cut
  PROVE  Sound(r, Len(arrived), n)
<1>1. Len(s.tx) \in Nat /\ After(arrived, Len(arrived), "ack") = 0
  BY AfterAll, SocketFields DEF Sound
<1>2. (HasFin(r) <=> HasFin(s)) /\ (Synchronized(r) <=> Synchronized(s))
  BY DEF HasFin, Synchronized
<1>3. Data(r) = Data(s)
  BY <1>2 DEF Data
<1>4. r.nxt <= Len(r.tx) /\ 0 <= r.nxt
  BY <1>1
<1>5. Sending(r, n)
  BY <1>2, <1>3, <1>4, Zenon DEF Sound, Sending
<1>6. Acked(r, Len(arrived), n)
  BY <1>1, <1>2, <1>3, <1>4, Zenon DEF Sound, Acked
<1>7. Receiving(r, Len(arrived))
  BY Zenon DEF Sound, Receiving
<1>8. Progress(r, Len(arrived))
  BY Zenon DEF Sound, Progress
<1> QED BY <1>5, <1>6, <1>7, <1>8 DEF Sound

LEMMA PolledSound ==
  ASSUME Line, Streams, Scalars, NEW n \in Nat, NEW s, Sound(s, 0, n)
  PROVE  /\ Sound(Polled(s), Len(arrived), n)
         /\ Polled(s).nxt = Len(Polled(s).tx)
<1>0. Len(arrived) \in Nat
  BY DEF Line
<1>1. PICK in : in = Ingress(s) /\ Sound(in, Len(arrived), n)
  BY IngressSound
<1> DEFINE over == tcp.st = "TimeWait" /\ in.st = "TimeWait" /\ Expired
<1>2. PICK out : out = IF over THEN Reset(in) ELSE in
  OBVIOUS
<1>3. Sound(out, Len(arrived), n)
  <2>1. CASE over
    <3>1. After(arrived, Len(arrived), "byte") = 0
      BY <1>0, AfterAll
    <3>2. PeerDone /\ Len(got) + Len(in.rx) + 0 = peer_sent
      BY <1>1, <2>1, <3>1 DEF Sound, Receiving, Progress
    <3>3. Len(got) \in Nat /\ Len(in.rx) \in Nat
      BY <1>1, SocketFields DEF Sound, Streams
    <3>4. Len(got) + Len(in.rx) = peer_sent
      BY <3>2, <3>3
    <3>5. Sound(Reset(in), Len(arrived), n)
      BY <1>0, <1>1, <3>1, <3>2, <3>3, <3>4, ResetSound
    <3> QED BY <1>2, <2>1, <3>5
  <2>2. CASE ~over
    BY <1>1, <1>2, <2>2
  <2> QED BY <2>1, <2>2
<1>4. Polled(s) = [out EXCEPT !.nxt = Len(out.tx)]
  BY <1>1, <1>2 DEF Polled
<1>5. PICK r : r = Polled(s)
  OBVIOUS
<1>6. out \in Sockets /\ Len(out.tx) \in Nat
  BY <1>3, SocketFields DEF Sound
<1>7. /\ r \in Sockets /\ r.st = out.st /\ r.tx = out.tx /\ r.nxt = Len(out.tx)
      /\ r.rx = out.rx /\ r.cut = out.cut
  BY <1>4, <1>5, <1>6, SetNxt
<1>8. Sound(r, Len(arrived), n)
  BY <1>0, <1>3, <1>7, SentSound
<1> QED BY <1>5, <1>7, <1>8

\* A polled socket, of which recv may have taken bytes, in the state after.
LEMMA Settled ==
  ASSUME Line, Streams, Scalars, NEW n \in Nat, NEW p, NEW q \in Sockets,
         Sound(p, Len(arrived), n), q.st = p.st, q.tx = p.tx, q.nxt = p.nxt, q.cut = p.cut,
         arrived' = <<>>, peer' = peer, peer_sent' = peer_sent, peer_got' = peer_got,
         Len(got') \in Nat, Len(q.rx) <= Len(p.rx),
         Len(got') + Len(q.rx) = Len(got) + Len(p.rx),
         \A k \in 1 .. Len(q.rx) : q.rx[k] = Len(got') + k,
         handshake' = handshake \/ (handshake' = "true" => Synchronized(p)),
         ended' => q.st \in {"Closed", "TimeWait"} /\ q.rx = <<>>
  PROVE  Sound(q, 0, n)'
<1>1. /\ Len(arrived) \in Nat /\ Len(got) \in Nat /\ Len(p.rx) \in Nat /\ Len(q.rx) \in Nat
      /\ RX_CAP \in Nat
  BY SocketFields, TcpAssumption DEF Line, Streams, Sound
<1>2. \A kind : After(arrived, Len(arrived), kind) = 0 /\ After(arrived', 0, kind) = 0
  BY <1>1, AfterAll, Nothing
<1>3. (HasFin(q) <=> HasFin(p)) /\ (Synchronized(q) <=> Synchronized(p))
  BY DEF HasFin, Synchronized
<1>4. Data(q) = Data(p)
  BY <1>3 DEF Data
<1>5. Sending(q, n)'
  BY <1>3, <1>4, Zenon DEF Sound, Sending
<1>6. Acked(q, 0, n)'
  BY <1>2, <1>3, <1>4, Zenon DEF Sound, Acked
<1>7. Receiving(q, 0)'
  <2>1. /\ Len(got) + Len(p.rx) <= peer_sent /\ Len(p.rx) + 0 <= RX_CAP
        /\ p.st # "Closed" => Len(got) + Len(p.rx) + 0 = peer_sent
    BY <1>2 DEF Sound, Receiving
  <2>2. /\ Len(got') + Len(q.rx) <= peer_sent' /\ Len(q.rx) + 0 <= RX_CAP
        /\ q.st # "Closed" => Len(got') + Len(q.rx) + 0 = peer_sent'
    BY <1>1, <2>1
  <2> QED BY <1>2, <2>2, Zenon DEF Receiving
<1>8. Progress(q, 0)'
  <2>1. Len(arrived') = 0 /\ ~(0 < 0) /\ ~(Len(arrived) < Len(arrived))
    BY <1>1
  <2>2. q.st = "SynSent" =>
          /\ 0 < Len(arrived') => arrived'[0 + 1][1] \in {"ack", "rst"}
          /\ peer' \in {"open", "closed"} => 0 < Len(arrived')
          /\ handshake' # "true"
    BY <2>1 DEF Sound, Progress, Synchronized
  <2>3. q.st \in {"CloseWait", "Closing", "LastAck", "TimeWait"} =>
          PeerDone' /\ After(arrived', 0, "byte") = 0
    BY <1>2 DEF Sound, Progress, PeerDone
  <2>4. q.st = "Closed" /\ handshake' = "true" =>
          PeerDone' /\ Len(got') + Len(q.rx) + q.cut = peer_sent'
    BY DEF Sound, Progress, PeerDone, Synchronized
  <2>6. q.st # "Closed" => q.cut = 0
    BY DEF Sound, Progress
  <2>5. peer' = "listen" => q.st \in {"Closed", "SynSent"}
    BY DEF Sound, Progress
  <2> QED BY <2>2, <2>3, <2>4, <2>5, <2>6, Zenon DEF Progress
<1> QED BY <1>5, <1>6, <1>7, <1>8 DEF Sound, Sockets, TxBuffers, RxBuffers

-----------------------------------------------------------------------------
(* 6. The caller's calls *)

LEMMA PollTypes ==
  ASSUME Scalars, NEW s, poll(s)
  PROVE  /\ timer' \in {"idle", "running", "passed"}
         /\ ticks_left' \in 0 .. CLOCK_TICKS - 1
         /\ lost' \in BOOLEAN
<1>1. timer' \in {"idle", "running", "passed"}
  <2>1. PICK p : p = Polled(s)
    OBVIOUS
  <2>2. timer' = NextTimer(p)
    BY <2>1 DEF poll
  <2>3. NextTimer(p) \in {timer, "running", "idle"}
    <3>1. CASE p.st = "TimeWait"
      BY <3>1 DEF NextTimer
    <3>2. CASE p.st # "TimeWait" /\ p.tx = <<>>
      BY <3>2 DEF NextTimer
    <3>3. CASE p.st # "TimeWait" /\ p.tx # <<>>
      BY <3>3 DEF NextTimer
    <3> QED BY <3>1, <3>2, <3>3
  <2> QED BY <2>2, <2>3 DEF Scalars
<1>2. ticks_left' \in 0 .. CLOCK_TICKS - 1
  BY TcpAssumption DEF Scalars, poll, now
<1>3. lost' \in BOOLEAN
  BY Zenon DEF poll
<1> QED BY <1>1, <1>2, <1>3

LEMMA LineEmpty ==
  ASSUME arrived' = <<>>
  PROVE  Line'
<1>1. arrived' \in Seq(Segments) /\ Len(arrived') = 0 /\ 1 .. 0 = {}
  OBVIOUS
<1> QED BY <1>1, Zenon DEF Line, Segments, Fin, Byte

\* What every call does beside what it is for.
LEMMA CallTypes ==
  ASSUME TcpInv, NEW s, poll(s), UNCHANGED <<peer, peer_sent>>,
         told' \in 0 .. MSG, handshake' \in {"none", "true", "false", "refused"},
         {connected', ended', shut'} \subseteq BOOLEAN, connected'
  PROVE  Scalars' /\ Flags' /\ Line' /\ Fresh'
<1>1. Scalars /\ arrived' = <<>>
  BY DEF TcpInv, poll
<1>2. /\ timer' \in {"idle", "running", "passed"} /\ ticks_left' \in 0 .. CLOCK_TICKS - 1
      /\ lost' \in BOOLEAN
  BY <1>1, PollTypes
<1>3. Scalars'
  BY <1>1, <1>2 DEF Scalars
<1>4. Flags'
  BY <1>2, Zenon DEF Flags
<1>5. Line'
  BY <1>1, LineEmpty
<1>6. Fresh'
  BY DEF Fresh
<1> QED BY <1>3, <1>4, <1>5, <1>6

\* Sound of a socket is sound of the variable that holds it.
LEMMA SoundOf ==
  ASSUME NEW p, NEW n, tcp' = p, Sound(p, 0, n)'
  PROVE  Sound(tcp, 0, n)'
<1>1. Sending(tcp, n)'
  BY DEF Sound, Sending, HasFin, Synchronized, Data
<1>2. Acked(tcp, 0, n)'
  BY DEF Sound, Acked, HasFin, Synchronized, Data
<1>3. Receiving(tcp, 0)'
  BY DEF Sound, Receiving
<1>4. Progress(tcp, 0)'
  BY DEF Sound, Progress
<1>5. (tcp \in Sockets)'
  BY DEF Sound
<1> QED BY <1>1, <1>2, <1>3, <1>4, <1>5 DEF Sound

\* A call that leaves the receive buffer alone.
LEMMA CallSound ==
  ASSUME TcpInv, NEW s, NEW n \in Nat, Sound(s, 0, n), poll(s), tcp' = Polled(s),
         UNCHANGED <<peer, peer_sent, peer_got, got, ended>>,
         handshake' = handshake \/ (handshake' = "true" => Synchronized(Polled(s)))
  PROVE  /\ Sound(tcp, 0, n)'
         /\ tcp'.nxt = Len(tcp'.tx)
<1>1. PICK p : p = Polled(s)
  OBVIOUS
<1>2. Sound(p, Len(arrived), n) /\ p.nxt = Len(p.tx)
  BY <1>1, PolledSound DEF TcpInv
<1>3. p \in Sockets /\ Len(p.rx) \in Nat /\ Len(got) \in Nat
  BY <1>2, SocketFields DEF Sound, TcpInv, Streams
<1>4. /\ \A k \in 1 .. Len(p.rx) : p.rx[k] = Len(got) + k
      /\ ended => p.st \in {"Closed", "TimeWait"} /\ p.rx = <<>>
  BY <1>2, Zenon DEF Sound, Receiving, Progress
<1>5. /\ Line /\ Streams /\ Scalars /\ arrived' = <<>> /\ got' = got /\ ended' = ended
      /\ peer' = peer /\ peer_sent' = peer_sent /\ peer_got' = peer_got
      /\ handshake' = handshake \/ (handshake' = "true" => Synchronized(p))
      /\ Len(p.rx) <= Len(p.rx)
  BY <1>1, <1>3 DEF TcpInv, poll
<1>6. Sound(p, 0, n)'
  <2>0. got' = got /\ ended' = ended
    BY <1>5
  <2>1. /\ \A k \in 1 .. Len(p.rx) : p.rx[k] = Len(got') + k
        /\ ended' => p.st \in {"Closed", "TimeWait"} /\ p.rx = <<>>
        /\ Len(got') \in Nat /\ Len(got') + Len(p.rx) = Len(got) + Len(p.rx)
    BY <1>3, <1>4, <2>0
  <2> QED BY <1>2, <1>3, <1>5, <2>1, Settled
<1>7. tcp' = p
  BY <1>1
<1> QED BY <1>2, <1>6, <1>7, SoundOf

\* connect starts from a socket nothing has happened to.
LEMMA ConnectSound ==
  ASSUME TcpInv, ~connected, NEW s, s = [tcp EXCEPT !.st = "SynSent", !.tx = <<Syn>>]
  PROVE  Sound(s, 0, told)
<1>1. /\ tcp.st = "Closed" /\ tcp.rx = <<>> /\ tcp.cut = 0
      /\ peer = "listen" /\ told = 0 /\ got = <<>>
      /\ peer_got = <<>> /\ peer_sent = 0 /\ handshake = "none" /\ ~ended
      /\ arrived = <<>> /\ tcp \in Sockets /\ tcp.tx = <<>> /\ tcp.nxt = Len(tcp.tx)
  BY DEF TcpInv, Fresh, Line, Sound, Sending
<1>2. "SynSent" \in States /\ <<Syn>> \in TxBuffers /\ tcp.nxt = 0
  BY <1>1 DEF States, TxBuffers, Items
<1>3. /\ s \in Sockets /\ s.st = "SynSent" /\ s.tx = <<Syn>> /\ s.nxt = 0 /\ s.rx = <<>>
      /\ s.cut = 0
  BY <1>1, <1>2 DEF Sockets
<1>4. \A kind : After(arrived, 0, kind) = 0
  BY <1>1, Nothing
<1>5. Len(<<Syn>>) = 1 /\ Len(<<>>) = 0 /\ 1 .. 0 = {} /\ 0 <= 1 /\ 0 <= 0 /\ 0 + 0 = 0
      /\ ~(0 < 0) /\ 0 <= RX_CAP
  BY TcpAssumption
<1>6. ~HasFin(s) /\ ~Synchronized(s) /\ s.st # "Closed"
  BY <1>3 DEF HasFin, Synchronized
<1>7. Sending(s, told)
  BY <1>1, <1>3, <1>5, <1>6 DEF Sending
<1>8. Acked(s, 0, told)
  BY <1>3, <1>4, <1>5, <1>6, Zenon DEF Acked
<1>9. Receiving(s, 0)
  BY <1>1, <1>3, <1>4, <1>5 DEF Receiving
<1>10. Progress(s, 0)
  BY <1>1, <1>3, <1>5 DEF Progress
<1> QED BY <1>3, <1>7, <1>8, <1>9, <1>10 DEF Sound

\* The bytes counted in the send buffer are its data.
LEMMA CountData ==
  ASSUME NEW s, NEW i, NEW n \in Nat, Sound(s, i, n)
  PROVE  /\ Synchronized(s) => Data(s) \in Nat /\ Count(s.tx, "byte") = Data(s)
         /\ Count(s.tx, "byte") <= TX_CAP
<1>1. s \in Sockets /\ Len(s.tx) \in Nat /\ s.st \in States /\ TX_CAP \in Nat
  BY SocketFields, TcpAssumption DEF Sound
<1>2. ASSUME Synchronized(s)
      PROVE  Data(s) \in Nat /\ Count(s.tx, "byte") = Data(s) /\ Data(s) <= TX_CAP
  <2>1. /\ HasFin(s) => s.tx # <<>> /\ s.tx[Len(s.tx)] = Fin
        /\ Data(s) <= TX_CAP /\ \A k \in 1 .. Data(s) : s.tx[k] = Byte(n - Data(s) + k)
    BY <1>2, Zenon DEF Sound, Sending
  <2>2. HasFin(s) => Len(s.tx) # 0
    BY <1>1, <2>1, SocketFields
  <2>3. PICK L \in Nat, D \in Nat : L = Len(s.tx) /\ D = Data(s)
                                    /\ D = IF HasFin(s) THEN L - 1 ELSE L
    BY <1>1, <2>2 DEF Data
  <2>4. \A k \in 1 .. L : s.tx[k][1] = "byte" <=> k \in 1 .. D
    <3> TAKE k \in 1 .. L
    <3>0. \A j \in 1 .. D : s.tx[j] = Byte(n - D + j)
      BY <2>1, <2>3, Zenon
    <3>1. k \in 1 .. D => s.tx[k][1] = "byte"
      BY <3>0, Kinds, Zenon
    <3>2. k \notin 1 .. D => HasFin(s) /\ k = L
      BY <2>3
    <3>3. k \notin 1 .. D => s.tx[k][1] = "fin"
      BY <2>1, <2>3, <3>2, Kinds
    <3> QED BY <3>1, <3>3
  <2>5. D <= L
    BY <2>3
  <2>6. {k \in 1 .. L : s.tx[k][1] = "byte"} = 1 .. D
    BY <2>4, <2>5
  <2>7. Cardinality(1 .. D) = D
    BY FS_Interval
  <2> QED BY <2>1, <2>3, <2>6, <2>7 DEF Count
<1>3. ASSUME ~Synchronized(s) PROVE Count(s.tx, "byte") = 0
  <2>1. s.tx = <<>> \/ s.tx = <<Syn>>
    BY <1>3 DEF Synchronized, Sound, Sending
  <2>2. CASE s.tx = <<>>
    <3>1. {k \in 1 .. Len(s.tx) : s.tx[k][1] = "byte"} = {}
      BY <2>2
    <3> QED BY <3>1, FS_EmptySet DEF Count
  <2>3. CASE s.tx = <<Syn>>
    <3>1. \A k \in 1 .. Len(<<Syn>>) : <<Syn>>[k] = Syn
      OBVIOUS
    <3>2. {k \in 1 .. Len(s.tx) : s.tx[k][1] = "byte"} = {}
      BY <2>3, <3>1, Kinds
    <3> QED BY <3>2, FS_EmptySet DEF Count
  <2> QED BY <2>1, <2>2, <2>3
<1>4. Count(s.tx, "byte") <= TX_CAP
  BY <1>1, <1>2, <1>3
<1> QED BY <1>2, <1>4

LEMMA TakenFits ==
  ASSUME TcpInv, NEW k \in Nat
  PROVE  /\ Taken(k) \in Nat /\ Taken(k) <= k
         /\ ~may_send(tcp) => Taken(k) = 0
         /\ may_send(tcp) => Data(tcp) = Len(tcp.tx) /\ Len(tcp.tx) + Taken(k) <= TX_CAP
<1>1. /\ Sound(tcp, 0, told) /\ told \in Nat /\ TX_CAP \in Nat
      /\ Len(tcp.tx) \in Nat
  BY SocketFields, TcpAssumption DEF TcpInv, Sound, Scalars
<1>2. CASE ~may_send(tcp)
  BY <1>2 DEF Taken
<1>3. CASE may_send(tcp)
  <2>1. Data(tcp) = Len(tcp.tx) /\ Synchronized(tcp)
    BY <1>3 DEF may_send, Data, HasFin, Synchronized
  <2>2. Count(tcp.tx, "byte") = Len(tcp.tx) /\ Len(tcp.tx) <= TX_CAP
    BY <1>1, <2>1, CountData
  <2>3. Room(tcp) = TX_CAP - Len(tcp.tx) /\ Room(tcp) \in Nat
    BY <1>1, <2>2 DEF Room
  <2>4. Taken(k) = IF k <= Room(tcp) THEN k ELSE Room(tcp)
    BY <1>3, <2>3 DEF Taken
  <2>5. PICK R \in Nat, L \in Nat, T \in Nat : R = Room(tcp) /\ L = Len(tcp.tx)
                                                /\ R = T - L /\ T = TX_CAP
    BY <1>1, <2>3
  <2>6. Taken(k) = IF k <= R THEN k ELSE R
    BY <2>4, <2>5, Zenon
  <2>7. Taken(k) \in Nat /\ Taken(k) <= k /\ L + Taken(k) <= T
    <3>1. \A a : a = (IF k <= R THEN k ELSE R) => a \in Nat /\ a <= k /\ a <= R
      OBVIOUS
    <3>2. Taken(k) \in Nat /\ Taken(k) <= k /\ Taken(k) <= R
      BY <2>6, <3>1, Zenon
    <3>3. \A a \in Nat : a <= R => L + a <= T
      BY <2>5
    <3> QED BY <3>2, <3>3, Zenon
  <2> QED BY <1>3, <2>1, <2>5, <2>7
<1> QED BY <1>2, <1>3

\* Where the k-th of L + t bytes is, if t are queued behind L.
LEMMA Shift ==
  ASSUME NEW L \in Nat, NEW t \in Nat, NEW m \in Nat, NEW k \in 1 .. L + t
  PROVE  /\ (m + t) - (L + t) + k = m - L + k
         /\ k \notin 1 .. L => k - L \in 1 .. t /\ L + (k - L) = k /\ m + (k - L) = m - L + k
OBVIOUS

LEMMA Joined ==
  ASSUME NEW S, NEW a \in Seq(S), NEW b \in Seq(S)
  PROVE  /\ a \o b \in Seq(S) /\ Len(a \o b) = Len(a) + Len(b)
         /\ \A k \in 1 .. Len(a) : (a \o b)[k] = a[k]
         /\ \A k \in 1 .. Len(b) : (a \o b)[Len(a) + k] = b[k]
OBVIOUS

LEMMA Queued ==
  ASSUME NEW t \in Nat, NEW m \in Nat, m + t <= MSG, NEW q \in Seq(Items)
  PROVE  \E x :
         /\ x = q \o [i \in 1 .. t |-> Byte(m + i)]
         /\ x \in Seq(Items) /\ Len(x) = Len(q) + t
         /\ \A k \in 1 .. Len(q) : x[k] = q[k]
         /\ \A k \in 1 .. t : x[Len(q) + k] = Byte(m + k)
         /\ t = 0 => x = q
<1> DEFINE w == [i \in 1 .. t |-> Byte(m + i)]
<1>1. w \in Seq(Items) /\ Len(w) = t
  <2>1. \A i \in 1 .. t : m + i \in 1 .. MSG
    BY TcpAssumption
  <2>2. \A i \in 1 .. t : Byte(m + i) \in Items
    BY <2>1 DEF Items
  <2> QED BY <2>2
<1>2. \A k \in 1 .. t : w[k] = Byte(m + k)
  OBVIOUS
<1> HIDE DEF w
<1> DEFINE x == q \o w
<1>3. x \in Seq(Items) /\ Len(x) = Len(q) + t
  BY <1>1
<1>4. \A k \in 1 .. Len(q) : x[k] = q[k]
  BY <1>1
<1>5. \A k \in 1 .. t : x[Len(q) + k] = w[k]
  BY <1>1
<1>6. t = 0 => x = q
  BY <1>1
<1> USE DEF w
<1> HIDE DEF x
<1>7. x = q \o [i \in 1 .. t |-> Byte(m + i)]
  BY DEF x
<1> QED BY <1>2, <1>3, <1>4, <1>5, <1>6, <1>7, Zenon

\* send queues the bytes it will report.
LEMMA SendSound ==
  ASSUME TcpInv, NEW t \in Nat, told + t <= MSG,
         ~may_send(tcp) => t = 0,
         may_send(tcp) => Data(tcp) = Len(tcp.tx) /\ Len(tcp.tx) + t <= TX_CAP,
         NEW s, s = [tcp EXCEPT !.tx = @ \o [i \in 1 .. t |-> Byte(told + i)]]
  PROVE  Sound(s, 0, told + t)
<1>1. /\ tcp \in Sockets /\ told \in Nat /\ MSG \in Nat /\ tcp.tx \in Seq(Items)
      /\ Sound(tcp, 0, told) /\ tcp.nxt = Len(tcp.tx) /\ tcp.nxt \in Nat
  BY SocketFields, TcpAssumption DEF TcpInv, Sound, Scalars
<1>2. PICK q \in Seq(Items) : q = tcp.tx
  BY <1>1
<1>3. PICK x :
      /\ x = tcp.tx \o [i \in 1 .. t |-> Byte(told + i)]
      /\ x \in Seq(Items) /\ Len(x) = Len(tcp.tx) + t
      /\ \A k \in 1 .. Len(tcp.tx) : x[k] = tcp.tx[k]
      /\ \A k \in 1 .. t : x[Len(tcp.tx) + k] = Byte(told + k)
      /\ t = 0 => x = tcp.tx
  <2>1. \E x :
          /\ x = q \o [i \in 1 .. t |-> Byte(told + i)]
          /\ x \in Seq(Items) /\ Len(x) = Len(q) + t
          /\ \A k \in 1 .. Len(q) : x[k] = q[k]
          /\ \A k \in 1 .. t : x[Len(q) + k] = Byte(told + k)
          /\ t = 0 => x = q
    BY <1>1, Queued
  <2> QED BY <1>2, <2>1, Zenon
<1>5. s = [tcp EXCEPT !.tx = x]
  BY <1>3, Zenon
<1>6. /\ s \in Sockets /\ s.st = tcp.st /\ s.tx = x /\ s.nxt = tcp.nxt /\ s.rx = tcp.rx
      /\ s.cut = tcp.cut
  BY <1>1, <1>3, <1>5 DEF Sockets, TxBuffers
<1>7. CASE ~may_send(tcp)
  <2>1. t = 0 /\ told + t = told /\ s.tx = tcp.tx
    BY <1>1, <1>3, <1>6, <1>7
  <2>2. s = tcp
    BY <1>1, <1>6, <2>1 DEF Sockets
  <2> QED BY <1>1, <2>1, <2>2
<1>8. CASE may_send(tcp)
  <2>1. /\ Data(tcp) = Len(tcp.tx) /\ Len(tcp.tx) + t <= TX_CAP /\ Data(s) = Len(s.tx)
        /\ ~HasFin(s) /\ s.st \notin {"Closed", "SynSent", "FinWait2", "TimeWait"}
        /\ Synchronized(tcp)
    BY <1>6, <1>8 DEF may_send, HasFin, Synchronized, Data
  <2>2. PICK L \in Nat : L = Len(tcp.tx)
    BY <1>1
  <2>3. /\ L <= told /\ \A k \in 1 .. L : tcp.tx[k] = Byte(told - L + k)
        /\ After(arrived, 0, "ack") <= L
        /\ Len(peer_got) = IF told - L + After(arrived, 0, "ack") <= told
                           THEN told - L + After(arrived, 0, "ack") ELSE told
    <3>1. Sending(tcp, told) /\ Acked(tcp, 0, told)
      BY <1>1 DEF Sound
    <3>2. L <= told /\ \A k \in 1 .. L : tcp.tx[k] = Byte(told - L + k)
      BY <2>1, <2>2, <3>1, Zenon DEF Sending
    <3>3. /\ tcp.st # "Closed" => After(arrived, 0, "ack") <= tcp.nxt
          /\ Synchronized(tcp) =>
               Len(peer_got) = IF told - Data(tcp) + After(arrived, 0, "ack") <= told
                               THEN told - Data(tcp) + After(arrived, 0, "ack") ELSE told
      BY <3>1, Zenon DEF Acked
    <3>4. tcp.st # "Closed" /\ tcp.nxt = L /\ Data(tcp) = L
      BY <1>1, <1>6, <2>1, <2>2
    <3> QED BY <2>1, <3>2, <3>3, <3>4, Zenon
  <2>4. Len(s.tx) = L + t /\ s.nxt = L /\ Data(s) = L + t
    BY <1>1, <1>3, <1>6, <2>1, <2>2, Zenon
  <2>5. Sending(s, told + t)
    <3>1. s.nxt <= Len(s.tx) /\ Data(s) <= told + t /\ Data(s) <= TX_CAP
      BY <1>1, <2>1, <2>2, <2>3, <2>4
    <3>2. ASSUME NEW k \in 1 .. L + t PROVE s.tx[k] = Byte((told + t) - (L + t) + k)
      <4>1. (told + t) - (L + t) + k = told - L + k
        BY <1>1, Shift
      <4>2. CASE k \in 1 .. L
        BY <1>3, <1>6, <2>2, <2>3, <4>1, <4>2, Zenon
      <4>3. CASE k \notin 1 .. L
        <5>1. k - L \in 1 .. t /\ L + (k - L) = k /\ told + (k - L) = told - L + k
          BY <1>1, <4>3, Shift
        <5> QED BY <1>3, <1>6, <2>2, <4>1, <5>1, Zenon
      <4> QED BY <4>2, <4>3
    <3> QED BY <2>1, <2>4, <3>1, <3>2, Zenon DEF Sending
  <2>6. Acked(s, 0, told + t)
    <3>1. PICK A \in Nat : A = After(arrived, 0, "ack")
      <4>1. Len(arrived) \in Nat
        BY DEF TcpInv, Line
      <4> QED BY <4>1, AfterFinite
    <3>2. A <= L /\ Len(peer_got) = IF told - L + A <= told THEN told - L + A ELSE told
      BY <2>3, <3>1, Zenon
    <3>3. Len(peer_got) = IF (told + t) - (L + t) + A <= told + t
                          THEN (told + t) - (L + t) + A ELSE told + t
      BY <1>1, <3>2
    <3> QED BY <2>4, <3>1, <3>2, <3>3, Zenon DEF Acked
  <2>7. Receiving(s, 0)
    BY <1>1, <1>6, Zenon DEF Sound, Receiving
  <2>8. Progress(s, 0)
    BY <1>1, <1>6, Zenon DEF Sound, Progress
  <2> QED BY <1>6, <2>5, <2>6, <2>7, <2>8 DEF Sound
<1> QED BY <1>7, <1>8

\* close queues a FIN behind the bytes.
LEMMA FinQueued ==
  ASSUME TcpInv, may_send(tcp), NEW s \in Sockets, s.tx = Append(tcp.tx, Fin),
         s.nxt = tcp.nxt, s.rx = tcp.rx, s.cut = tcp.cut,
         tcp.st = "Established" => s.st = "FinWait1",
         tcp.st = "CloseWait" => s.st = "LastAck"
  PROVE  Sound(s, 0, told)
<1>1. /\ tcp \in Sockets /\ Sound(tcp, 0, told) /\ tcp.nxt = Len(tcp.tx)
      /\ tcp.tx \in Seq(Items) /\ told \in Nat
  BY SocketFields, TcpAssumption DEF TcpInv, Sound, Scalars
<1>2. Fin \in Items
  BY DEF Items
<1>3. PICK L \in Nat : L = Len(tcp.tx)
  BY <1>1
<1>4. /\ Len(s.tx) = L + 1 /\ s.tx[L + 1] = Fin
      /\ \A k \in 1 .. L : s.tx[k] = tcp.tx[k]
  BY <1>1, <1>2, <1>3
<1>5. /\ HasFin(s) /\ ~HasFin(tcp) /\ Synchronized(tcp) /\ Synchronized(s)
      /\ s.st \in {"FinWait1", "LastAck"} /\ tcp.st # "Closed"
      /\ (s.st = "LastAck" <=> tcp.st = "CloseWait")
  BY DEF may_send, HasFin, Synchronized
<1>6. Data(s) = L /\ Data(tcp) = L /\ s.nxt = L
  <2>1. Data(s) = Len(s.tx) - 1 /\ Data(tcp) = Len(tcp.tx)
    BY <1>5 DEF Data
  <2>2. (L + 1) - 1 = L
    OBVIOUS
  <2> QED BY <1>1, <1>3, <1>4, <2>1, <2>2, Zenon
<1>7. Sending(tcp, told) /\ Acked(tcp, 0, told)
  BY <1>1 DEF Sound
<1>8. Sending(s, told)
  <2>1. L <= L + 1 /\ L + 1 # 0 /\ Len(<<>>) = 0
    OBVIOUS
  <2>2. s.nxt <= Len(s.tx) /\ s.tx # <<>> /\ s.tx[Len(s.tx)] = Fin
    BY <1>4, <1>6, <2>1, Zenon
  <2>3. /\ L <= told /\ L <= TX_CAP
        /\ \A k \in 1 .. L : tcp.tx[k] = Byte(told - L + k)
    BY <1>5, <1>6, <1>7, Zenon DEF Sending
  <2>4. \A k \in 1 .. L : s.tx[k] = Byte(told - L + k)
    BY <1>4, <2>3, Zenon
  <2>5. s.st \notin {"Closed", "SynSent", "FinWait2", "TimeWait"}
    BY <1>5
  <2> QED BY <1>6, <2>2, <2>3, <2>4, <2>5, Zenon DEF Sending
<1>9. Acked(s, 0, told)
  BY <1>1, <1>3, <1>5, <1>6, <1>7, Zenon DEF Acked
<1>10. Receiving(s, 0)
  BY <1>1, <1>5, Zenon DEF Sound, Receiving
<1>11. Progress(s, 0)
  <2>1. s.st = "LastAck" => PeerDone /\ After(arrived, 0, "byte") = 0
    BY <1>1, <1>5 DEF Sound, Progress
  <2>2. ~ended /\ peer # "listen" /\ s.cut = 0
    BY <1>1 DEF Sound, Progress, may_send
  <2> QED BY <1>5, <2>1, <2>2 DEF Progress
<1> QED BY <1>8, <1>9, <1>10, <1>11 DEF Sound

LEMMA CloseStart ==
  ASSUME TcpInv, NEW s,
         LET fin == [tcp EXCEPT !.tx = Append(@, Fin)]
         IN  s = CASE tcp.st = "SynSent" -> Closed(tcp)
                   [] tcp.st = "Established" -> [fin EXCEPT !.st = "FinWait1"]
                   [] tcp.st = "CloseWait" -> [fin EXCEPT !.st = "LastAck"]
                   [] OTHER -> tcp
  PROVE  Sound(s, 0, told)
<1>1. tcp \in Sockets /\ Sound(tcp, 0, told) /\ tcp.tx \in Seq(Items) /\ told \in Nat
  BY SocketFields, TcpAssumption DEF TcpInv, Sound, Scalars
<1>2. CASE tcp.st = "SynSent"
  <2>1. s = Closed(tcp)
    BY <1>2
  <2>2. /\ handshake # "true" /\ (ended => tcp.rx = <<>>)
        /\ Len(tcp.rx) + After(arrived, 0, "byte") <= RX_CAP
    BY <1>1, <1>2, Zenon DEF Sound, Progress, Receiving
  <2>3. 0 \in Nat
    OBVIOUS
  <2>4. Sound(Closed(tcp), 0, told)
    BY <1>1, <2>2, <2>3, CloseSound
  <2> QED BY <2>1, <2>4
<1>3. CASE may_send(tcp)
  <2> DEFINE w == IF tcp.st = "Established" THEN "FinWait1" ELSE "LastAck"
             x == Append(tcp.tx, Fin)
  <2>1. s = [[tcp EXCEPT !.tx = x] EXCEPT !.st = w]
    BY <1>3 DEF may_send
  <2>2. w \in States /\ x \in TxBuffers
    BY <1>1 DEF States, TxBuffers, Items
  <2>3. /\ tcp.st = "Established" => w = "FinWait1"
        /\ tcp.st = "CloseWait" => w = "LastAck"
    OBVIOUS
  <2> HIDE DEF w, x
  <2>4. /\ s \in Sockets /\ s.st = w /\ s.tx = x /\ s.nxt = tcp.nxt /\ s.rx = tcp.rx
        /\ s.cut = tcp.cut
    BY <1>1, <2>1, <2>2 DEF Sockets
  <2>5. s.tx = Append(tcp.tx, Fin)
    BY <2>4 DEF x
  <2> QED BY <1>3, <2>3, <2>4, <2>5, FinQueued
<1>4. CASE tcp.st # "SynSent" /\ ~may_send(tcp)
  <2>1. s = tcp
    BY <1>4 DEF may_send
  <2> QED BY <1>1, <2>1
<1> QED BY <1>2, <1>3, <1>4

\* A receive buffer is what recv takes followed by what it leaves.
LEMMA Cut ==
  ASSUME NEW S, NEW x \in Seq(S), NEW m \in 0 .. Len(x)
  PROVE  /\ SubSeq(x, 1, m) \in Seq(S) /\ Len(SubSeq(x, 1, m)) = m
         /\ \A k \in 1 .. m : SubSeq(x, 1, m)[k] = x[k]
         /\ SubSeq(x, m + 1, Len(x)) \in Seq(S)
         /\ Len(SubSeq(x, m + 1, Len(x))) = Len(x) - m
         /\ \A k \in 1 .. Len(x) - m : SubSeq(x, m + 1, Len(x))[k] = x[m + k]
<1>1. Len(x) \in Nat /\ \A k \in 1 .. Len(x) : x[k] \in S
  OBVIOUS
<1>2. SubSeq(x, 1, m) \in Seq(S) /\ Len(SubSeq(x, 1, m)) = m
  OBVIOUS
<1>3. \A k \in 1 .. m : SubSeq(x, 1, m)[k] = x[k]
  OBVIOUS
<1>4. SubSeq(x, m + 1, Len(x)) \in Seq(S) /\ Len(SubSeq(x, m + 1, Len(x))) = Len(x) - m
  OBVIOUS
<1>5. \A k \in 1 .. Len(x) - m : SubSeq(x, m + 1, Len(x))[k] = x[m + k]
  OBVIOUS
<1> QED BY <1>2, <1>3, <1>4, <1>5

\* What recv gives and what it leaves.
LEMMA RecvCut ==
  ASSUME NEW p \in Sockets
  PROVE  \E m \in 0 .. Len(p.rx) :
           /\ Slice(p) \in Seq(1 .. PEER_MSG) /\ Len(Slice(p)) = m
           /\ \A k \in 1 .. m : Slice(p)[k] = p.rx[k]
           /\ Rest(p) \in RxBuffers /\ Len(Rest(p)) = Len(p.rx) - m
           /\ \A k \in 1 .. Len(p.rx) - m : Rest(p)[k] = p.rx[m + k]
<1>1. PICK x \in Seq(1 .. PEER_MSG) : x = p.rx
  BY SocketFields
<1>2. PICK m : m = IF BUF < Len(x) THEN BUF ELSE Len(x)
  OBVIOUS
<1>3. m \in 0 .. Len(x)
  BY <1>2, TcpAssumption
<1>4. /\ SubSeq(x, 1, m) \in Seq(1 .. PEER_MSG) /\ Len(SubSeq(x, 1, m)) = m
      /\ \A k \in 1 .. m : SubSeq(x, 1, m)[k] = x[k]
      /\ SubSeq(x, m + 1, Len(x)) \in Seq(1 .. PEER_MSG)
      /\ Len(SubSeq(x, m + 1, Len(x))) = Len(x) - m
      /\ \A k \in 1 .. Len(x) - m : SubSeq(x, m + 1, Len(x))[k] = x[m + k]
  BY <1>3, Cut
<1>5. Slice(p) = SubSeq(x, 1, m)
  BY <1>1, <1>2, Zenon DEF Slice
<1>6. Rest(p) = SubSeq(x, m + 1, Len(x))
  BY <1>1, <1>4, <1>5, Zenon DEF Rest
<1> QED BY <1>1, <1>3, <1>4, <1>5, <1>6, Zenon DEF RxBuffers

LEMMA RecvSound ==
  ASSUME TcpInv, recv
  PROVE  /\ Sound(tcp, 0, told)'
         /\ tcp'.nxt = Len(tcp'.tx)
         /\ Streams'
<1>1. PICK p : p = Polled(tcp)
  OBVIOUS
<1>2. /\ Sound(p, Len(arrived), told) /\ p.nxt = Len(p.tx) /\ told \in Nat
      /\ p \in Sockets /\ Line /\ Streams /\ Scalars
  <2>1. told \in Nat
    BY TcpAssumption DEF TcpInv, Scalars
  <2> QED BY <1>1, <2>1, PolledSound DEF TcpInv, Sound
<1>3. PICK m \in 0 .. Len(p.rx) :
        /\ Slice(p) \in Seq(1 .. PEER_MSG) /\ Len(Slice(p)) = m
        /\ \A k \in 1 .. m : Slice(p)[k] = p.rx[k]
        /\ Rest(p) \in RxBuffers /\ Len(Rest(p)) = Len(p.rx) - m
        /\ \A k \in 1 .. Len(p.rx) - m : Rest(p)[k] = p.rx[m + k]
  BY <1>2, RecvCut
<1>4. PICK q : q = [p EXCEPT !.rx = Rest(p)]
  OBVIOUS
<1>5. /\ q \in Sockets /\ q.st = p.st /\ q.tx = p.tx /\ q.nxt = p.nxt /\ q.rx = Rest(p)
      /\ q.cut = p.cut
  BY <1>2, <1>3, <1>4, SetRx
<1>6. /\ tcp' = q /\ got' = got \o Slice(p)
      /\ ended' = (ended \/ (~can_recv(p) /\ ~is_active(p)))
      /\ arrived' = <<>> /\ peer' = peer /\ peer_sent' = peer_sent /\ peer_got' = peer_got
      /\ handshake' = handshake /\ told' = told
  BY <1>1, <1>4 DEF recv, poll, theirs
<1>7. PICK g \in Nat, l \in Nat : g = Len(got) /\ l = Len(p.rx)
  BY <1>2, SocketFields DEF Streams
<1>8. /\ got \in Seq(Nat) /\ \A k \in 1 .. g : got[k] = k
      /\ Len(peer_got) <= told /\ peer_got \in Seq(Nat)
      /\ \A k \in 1 .. Len(peer_got) : peer_got[k] = k
      /\ \A k \in 1 .. l : p.rx[k] = g + k
      /\ ended => p.st \in {"Closed", "TimeWait"} /\ p.rx = <<>>
  BY <1>2, <1>7, Zenon DEF Streams, Sound, Receiving, Progress
<1>9. /\ Len(got') = g + m /\ got' \in Seq(Nat)
      /\ \A k \in 1 .. g : got'[k] = got[k]
      /\ \A k \in 1 .. m : got'[g + k] = p.rx[k]
  <2>1. PICK a \in Seq(Nat), b \in Seq(Nat) : a = got /\ b = Slice(p)
    <3>1. Slice(p) \in Seq(Nat)
      <4>1. \A k \in 1 .. m : Slice(p)[k] \in Nat
        BY <1>3, TcpAssumption
      <4> QED BY <1>3, <4>1
    <3> QED BY <1>8, <3>1, Zenon
  <2>2. /\ a \o b \in Seq(Nat) /\ Len(a \o b) = Len(a) + Len(b)
        /\ \A k \in 1 .. Len(a) : (a \o b)[k] = a[k]
        /\ \A k \in 1 .. Len(b) : (a \o b)[Len(a) + k] = b[k]
    BY Joined
  <2>3. got' = a \o b /\ Len(a) = g /\ Len(b) = m
    BY <1>3, <1>6, <1>7, <2>1, Zenon
  <2> QED BY <1>3, <2>1, <2>2, <2>3, Zenon
<1>10. Streams'
  <2>1. ASSUME NEW k \in 1 .. g + m PROVE got'[k] = k
    <3>1. CASE k \in 1 .. g
      BY <1>8, <1>9, <3>1, Zenon
    <3>2. CASE k \notin 1 .. g
      <4>1. k - g \in 1 .. m /\ g + (k - g) = k /\ k - g \in 1 .. l
        BY <1>7, <3>2
      <4> QED BY <1>8, <1>9, <4>1, Zenon
    <3> QED BY <3>1, <3>2
  <2> QED BY <1>6, <1>8, <1>9, <2>1, Zenon DEF Streams
<1>11. /\ Len(got') \in Nat /\ Len(q.rx) <= Len(p.rx)
       /\ Len(got') + Len(q.rx) = Len(got) + Len(p.rx)
  <2>1. Len(q.rx) = l - m /\ Len(got') = g + m
    BY <1>3, <1>5, <1>7, <1>9, Zenon
  <2>2. m \in 0 .. l
    BY <1>3, <1>7
  <2>3. g + m \in Nat /\ l - m <= l /\ (g + m) + (l - m) = g + l
    BY <2>2
  <2> QED BY <1>7, <2>1, <2>3, Zenon
<1>12. \A k \in 1 .. Len(q.rx) : q.rx[k] = Len(got') + k
  <2>1. ASSUME NEW k \in 1 .. l - m PROVE Rest(p)[k] = g + m + k
    <3>1. m + k \in 1 .. l /\ g + (m + k) = g + m + k
      BY <1>3, <1>7
    <3> QED BY <1>3, <1>7, <1>8, <3>1, Zenon
  <2> QED BY <1>3, <1>5, <1>7, <1>9, <2>1, Zenon
<1>13. ended' => q.st \in {"Closed", "TimeWait"} /\ q.rx = <<>>
  <2> SUFFICES ASSUME ended' PROVE q.st \in {"Closed", "TimeWait"} /\ q.rx = <<>>
    OBVIOUS
  <2>1. p.st \in {"Closed", "TimeWait"} /\ p.rx = <<>>
    BY <1>6, <1>8 DEF can_recv, is_active
  <2>2. Len(p.rx) = 0
    BY <2>1
  <2>3. Len(q.rx) = 0
    BY <1>3, <1>5, <2>2
  <2> QED BY <1>5, <2>1, <2>3, SocketFields
<1>14. Sound(tcp, 0, told)'
  <2>1. PICK n \in Nat : n = told
    BY <1>2
  <2>2. Sound(p, Len(arrived), n)
    BY <1>2, <2>1
  <2>3. Sound(q, 0, n)'
    BY <1>2, <1>5, <1>6, <1>11, <1>12, <1>13, <2>2, Settled
  <2>4. Sound(tcp, 0, n)'
    BY <1>6, <2>3, SoundOf
  <2> QED BY <1>6, <2>1, <2>4 DEF Sound, Sending, Acked
<1> QED BY <1>2, <1>5, <1>6, <1>10, <1>14

\* What the calls keep beside the socket.
LEMMA StreamsKept ==
  ASSUME TcpInv, got' = got, peer_got' = peer_got, told' \in Nat, told <= told'
  PROVE  Streams'
<1>1. Streams /\ told \in Nat /\ Len(peer_got) \in Nat
  BY TcpAssumption DEF TcpInv, Scalars, Streams
<1>2. Len(peer_got) <= told'
  BY <1>1 DEF Streams
<1> QED BY <1>1, <1>2, Zenon DEF Streams

LEMMA ConnectInv ==
  ASSUME TcpInv, connect
  PROVE  TcpInv'
<1>1. PICK s : s = [tcp EXCEPT !.st = "SynSent", !.tx = <<Syn>>]
  OBVIOUS
<1>2. PICK n \in Nat : n = told
  BY TcpAssumption DEF TcpInv, Scalars
<1>3. /\ ~connected /\ poll(s) /\ tcp' = Polled(s) /\ connected' = TRUE
      /\ told' = told /\ got' = got /\ handshake' = handshake /\ ended' = ended
      /\ shut' = shut /\ peer' = peer /\ peer_sent' = peer_sent /\ peer_got' = peer_got
  BY <1>1 DEF connect, theirs
<1>4. Sound(s, 0, n)
  BY <1>1, <1>2, <1>3, ConnectSound
<1>5. Sound(tcp, 0, n)' /\ tcp'.nxt = Len(tcp'.tx)
  BY <1>3, <1>4, CallSound
<1>6. {connected', ended', shut'} \subseteq BOOLEAN
  BY <1>3, Zenon DEF TcpInv, Flags
<1>7. told' \in 0 .. MSG /\ handshake' \in {"none", "true", "false", "refused"}
  BY <1>3 DEF TcpInv, Scalars
<1>8. Scalars' /\ Flags' /\ Line' /\ Fresh'
  BY <1>3, <1>6, <1>7, CallTypes
<1>9. Streams'
  BY <1>2, <1>3, StreamsKept
<1>10. Sound(tcp, 0, told)'
  BY <1>2, <1>3, <1>5 DEF Sound, Sending, Acked
<1> QED BY <1>5, <1>8, <1>9, <1>10 DEF TcpInv

LEMMA PollConnectInv ==
  ASSUME TcpInv, poll_connect
  PROVE  TcpInv'
<1>2. PICK n \in Nat : n = told
  BY TcpAssumption DEF TcpInv, Scalars
<1>3. /\ connected /\ poll(tcp) /\ tcp' = Polled(tcp) /\ connected' = connected
      /\ told' = told /\ got' = got /\ ended' = ended
      /\ shut' = shut /\ peer' = peer /\ peer_sent' = peer_sent /\ peer_got' = peer_got
  BY DEF poll_connect, theirs
<1>4. /\ handshake' \in {"none", "true", "false", "refused"}
      /\ handshake' = "true" => Synchronized(Polled(tcp))
  BY DEF poll_connect, Synchronized
<1>5. Sound(tcp, 0, n)' /\ tcp'.nxt = Len(tcp'.tx)
  BY <1>2, <1>3, <1>4, CallSound DEF TcpInv
<1>6. {connected', ended', shut'} \subseteq BOOLEAN /\ connected'
  BY <1>3, Zenon DEF TcpInv, Flags
<1>7. told' \in 0 .. MSG
  BY <1>3 DEF TcpInv, Scalars
<1>8. Scalars' /\ Flags' /\ Line' /\ Fresh'
  BY <1>3, <1>4, <1>6, <1>7, CallTypes
<1>9. Streams'
  BY <1>2, <1>3, StreamsKept
<1>10. Sound(tcp, 0, told)'
  BY <1>2, <1>3, <1>5 DEF Sound, Sending, Acked
<1> QED BY <1>5, <1>8, <1>9, <1>10 DEF TcpInv

LEMMA SendInv ==
  ASSUME TcpInv, NEW k \in 1 .. BUF, send(k)
  PROVE  TcpInv'
<1>0. k \in Nat /\ told \in Nat /\ MSG \in Nat
  BY TcpAssumption DEF TcpInv, Scalars
<1>1. PICK t \in Nat :
        /\ t = Taken(k) /\ t <= k /\ (~may_send(tcp) => t = 0)
        /\ may_send(tcp) => Data(tcp) = Len(tcp.tx) /\ Len(tcp.tx) + t <= TX_CAP
  BY <1>0, TakenFits
<1>2. PICK s : s = [tcp EXCEPT !.tx = @ \o [i \in 1 .. t |-> Byte(told + i)]]
  OBVIOUS
<1>3. /\ connected /\ told + k <= MSG /\ poll(s) /\ tcp' = Polled(s) /\ told' = told + t
      /\ connected' = connected /\ got' = got /\ handshake' = handshake /\ ended' = ended
      /\ shut' = shut /\ peer' = peer /\ peer_sent' = peer_sent /\ peer_got' = peer_got
  BY <1>1, <1>2 DEF send, Queue, theirs
<1>4. told + t <= MSG /\ told' \in 0 .. MSG /\ told' \in Nat /\ told <= told'
  BY <1>0, <1>1, <1>3
<1>5. PICK n \in Nat : n = told + t
  BY <1>0
<1>6. Sound(s, 0, n)
  BY <1>1, <1>2, <1>4, <1>5, SendSound
<1>7. Sound(tcp, 0, n)' /\ tcp'.nxt = Len(tcp'.tx)
  BY <1>3, <1>6, CallSound
<1>8. {connected', ended', shut'} \subseteq BOOLEAN /\ connected'
  BY <1>3, Zenon DEF TcpInv, Flags
<1>9. handshake' \in {"none", "true", "false", "refused"}
  BY <1>3 DEF TcpInv, Scalars
<1>10. Scalars' /\ Flags' /\ Line' /\ Fresh'
  BY <1>3, <1>4, <1>8, <1>9, CallTypes
<1>11. Streams'
  BY <1>3, <1>4, StreamsKept
<1>12. Sound(tcp, 0, told)'
  BY <1>3, <1>5, <1>7 DEF Sound, Sending, Acked
<1> QED BY <1>7, <1>10, <1>11, <1>12 DEF TcpInv

LEMMA RecvInv ==
  ASSUME TcpInv, recv
  PROVE  TcpInv'
<1>1. /\ connected /\ poll(tcp) /\ connected' = connected /\ told' = told
      /\ handshake' = handshake /\ shut' = shut /\ peer' = peer /\ peer_sent' = peer_sent
      /\ ended' = (ended \/ (~can_recv(Polled(tcp)) /\ ~is_active(Polled(tcp))))
  BY DEF recv, theirs
<1>2. {connected', ended', shut'} \subseteq BOOLEAN /\ connected'
  BY <1>1, Zenon DEF TcpInv, Flags
<1>3. told' \in 0 .. MSG /\ handshake' \in {"none", "true", "false", "refused"}
  BY <1>1 DEF TcpInv, Scalars
<1>4. Scalars' /\ Flags' /\ Line' /\ Fresh'
  BY <1>1, <1>2, <1>3, CallTypes
<1> QED BY <1>4, RecvSound DEF TcpInv

LEMMA CloseInv ==
  ASSUME TcpInv, close
  PROVE  TcpInv'
<1> DEFINE fin == [tcp EXCEPT !.tx = Append(@, Fin)]
<1>1. PICK s : s = CASE tcp.st = "SynSent" -> Closed(tcp)
                     [] tcp.st = "Established" -> [fin EXCEPT !.st = "FinWait1"]
                     [] tcp.st = "CloseWait" -> [fin EXCEPT !.st = "LastAck"]
                     [] OTHER -> tcp
  OBVIOUS
<1>2. PICK n \in Nat : n = told
  BY TcpAssumption DEF TcpInv, Scalars
<1>3. /\ connected /\ poll(s) /\ tcp' = Polled(s) /\ connected' = connected
      /\ told' = told /\ got' = got /\ handshake' = handshake /\ ended' = ended
      /\ shut' = TRUE /\ peer' = peer /\ peer_sent' = peer_sent /\ peer_got' = peer_got
  BY <1>1 DEF close, theirs
<1>4. Sound(s, 0, n)
  BY <1>1, <1>2, CloseStart
<1>5. Sound(tcp, 0, n)' /\ tcp'.nxt = Len(tcp'.tx)
  BY <1>3, <1>4, CallSound
<1>6. {connected', ended', shut'} \subseteq BOOLEAN /\ connected'
  BY <1>3, Zenon DEF TcpInv, Flags
<1>7. told' \in 0 .. MSG /\ handshake' \in {"none", "true", "false", "refused"}
  BY <1>3 DEF TcpInv, Scalars
<1>8. Scalars' /\ Flags' /\ Line' /\ Fresh'
  BY <1>3, <1>6, <1>7, CallTypes
<1>9. Streams'
  BY <1>2, <1>3, StreamsKept
<1>10. Sound(tcp, 0, told)'
  BY <1>2, <1>3, <1>5 DEF Sound, Sending, Acked
<1> QED BY <1>5, <1>8, <1>9, <1>10 DEF TcpInv

-----------------------------------------------------------------------------
(* 7. The peer *)

\* A segment behind the ones on their way: nothing follows an RST, and no byte
\* follows a FIN.
LEMMA LineGrows ==
  ASSUME Line, NEW e \in Segments, arrived' = Append(arrived, e), peer # "gone",
         peer' \in {"open", "closed", "gone"}, PeerDone => PeerDone',
         peer_sent \in Nat,
         peer_sent' = IF e[1] = "byte" THEN peer_sent + 1 ELSE peer_sent,
         e[1] = "byte" => e[2] = peer_sent' /\ ~PeerDone,
         e[1] = "fin" => PeerDone',
         e[1] = "rst" => peer' = "gone"
  PROVE  Line'
<1>1. PICK L \in Nat : L = Len(arrived)
  BY DEF Line
<1>2. arrived \in Seq(Segments)
  BY DEF Line
<1>3. /\ arrived' \in Seq(Segments) /\ Len(arrived') = L + 1
      /\ \A j \in 1 .. L : arrived'[j] = arrived[j]
      /\ arrived'[L + 1] = e
  BY <1>1, <1>2
<1>4. \A j \in 0 .. L : After(arrived', j, "byte") =
                          IF e[1] = "byte" THEN After(arrived, j, "byte") + 1
                          ELSE After(arrived, j, "byte")
  <2> TAKE j \in 0 .. L
  <2>1. j \in 0 .. Len(arrived)
    BY <1>1
  <2> QED BY <1>2, <2>1, AfterAppend
<1>5. After(arrived', L + 1, "byte") = 0
  <2>1. After(arrived', Len(arrived'), "byte") = 0
    <3>1. Len(arrived') \in Nat
      BY <1>3
    <3> QED BY <3>1, AfterAll
  <2> QED BY <1>3, <2>1, Zenon
<1>6. ASSUME NEW j \in 1 .. L + 1
      PROVE  /\ arrived'[j][1] = "byte" =>
                  arrived'[j][2] = peer_sent' - After(arrived', j, "byte")
             /\ arrived'[j][1] = "fin" => PeerDone' /\ After(arrived', j, "byte") = 0
             /\ arrived'[j][1] = "rst" => peer' = "gone" /\ j = L + 1
  <2>1. CASE j = L + 1
    <3>1. arrived'[j] = e /\ After(arrived', j, "byte") = 0
      BY <1>3, <1>5, <2>1, Zenon
    <3>2. e[1] = "byte" => e[2] = peer_sent' - 0
      OBVIOUS
    <3> QED BY <2>1, <3>1, <3>2, Zenon
  <2>2. CASE j # L + 1
    <3>1. j \in 1 .. L /\ j \in 0 .. L /\ j \in Nat
      BY <2>2
    <3>2. PICK b \in Nat : b = After(arrived, j, "byte")
      <4>1. Len(arrived) \in Nat
        BY <1>1
      <4> QED BY <3>1, <4>1, AfterFinite
    <3>3. /\ arrived[j][1] = "byte" => arrived[j][2] = peer_sent - b
          /\ arrived[j][1] = "fin" => PeerDone /\ b = 0
          /\ arrived[j][1] # "rst"
      BY <1>1, <3>1, <3>2 DEF Line
    <3>4. arrived'[j] = arrived[j]
          /\ After(arrived', j, "byte") = IF e[1] = "byte" THEN b + 1 ELSE b
      BY <1>3, <1>4, <3>1, <3>2, Zenon
    <3>5. CASE e[1] = "byte"
      <4>1. After(arrived', j, "byte") = b + 1 /\ peer_sent' = peer_sent + 1
        BY <3>4, <3>5
      <4>2. peer_sent - b = (peer_sent + 1) - (b + 1)
        OBVIOUS
      <4> QED BY <3>3, <3>4, <3>5, <4>1, <4>2, Zenon
    <3>6. CASE e[1] # "byte"
      <4>1. After(arrived', j, "byte") = b /\ peer_sent' = peer_sent
        BY <3>4, <3>6
      <4> QED BY <3>3, <3>4, <3>6, <4>1, Zenon
    <3> QED BY <3>5, <3>6
  <2> QED BY <2>1, <2>2
<1>7. peer' # "listen"
  OBVIOUS
<1> QED BY <1>3, <1>6, <1>7, Zenon DEF Line, Segments, Fin, Byte

\* What a step of the peer keeps, whatever segment it sends.
LEMMA PeerStep ==
  ASSUME TcpInv, NEW e \in Segments, arrived' = Append(arrived, e), connected,
         UNCHANGED <<ours, lost>>, peer # "gone",
         peer' \in {"open", "closed", "gone"}, PeerDone => PeerDone',
         peer_sent' \in 0 .. PEER_MSG,
         peer_sent' = IF e[1] = "byte" THEN peer_sent + 1 ELSE peer_sent,
         e[1] = "byte" => /\ e[2] = peer_sent' /\ ~PeerDone
                          /\ Len(tcp.rx) + After(arrived, 0, "byte") < RX_CAP,
         e[1] = "fin" => PeerDone',
         e[1] = "rst" => peer' = "gone",
         tcp.st = "SynSent" => /\ peer_got' = peer_got
                               /\ arrived = <<>> => e[1] \in {"ack", "rst"},
         Acked(tcp, 0, told)', Streams'
  PROVE  TcpInv'
<1>1. /\ tcp' = tcp /\ timer' = timer /\ ticks_left' = ticks_left /\ connected' = connected
      /\ told' = told /\ got' = got /\ handshake' = handshake /\ ended' = ended
      /\ shut' = shut /\ lost' = lost
  BY DEF ours
<1>2. /\ Line /\ Sound(tcp, 0, told) /\ tcp \in Sockets /\ Scalars
      /\ Len(got) \in Nat /\ Len(tcp.rx) \in Nat
      /\ arrived \in Seq(Segments) /\ Len(arrived) \in Nat
  BY SocketFields DEF TcpInv, Sound, Streams, Line
<1>3. peer_sent \in Nat /\ RX_CAP \in Nat
  BY <1>2, TcpAssumption DEF Scalars
<1>4. Line'
  BY <1>2, <1>3, LineGrows
<1>5. Scalars'
  BY <1>1, <1>2 DEF Scalars
<1>6. Flags'
  BY <1>1, Zenon DEF TcpInv, Flags
<1>7. Fresh'
  BY <1>1, Zenon DEF Fresh
<1>8. /\ 0 < Len(arrived')
      /\ Len(arrived) # 0 => arrived'[0 + 1] = arrived[0 + 1] /\ 0 < Len(arrived)
      /\ Len(arrived) = 0 => arrived = <<>> /\ arrived'[0 + 1] = e
  BY <1>2
<1>9. PICK b \in Nat, g \in Nat, l \in Nat :
        b = After(arrived, 0, "byte") /\ g = Len(got) /\ l = Len(tcp.rx)
  <2>1. After(arrived, 0, "byte") \in Nat
    BY <1>2, AfterFinite
  <2> QED BY <1>2, <2>1, Zenon
<1>10. After(arrived', 0, "byte") = IF e[1] = "byte" THEN b + 1 ELSE b
  <2>1. 0 \in 0 .. Len(arrived)
    BY <1>2
  <2> QED BY <1>2, <1>9, <2>1, AfterAppend
<1>11. Sending(tcp, told)'
  <2>1. Sending(tcp, told)
    BY <1>2 DEF Sound
  <2> QED BY <1>1, <2>1, Zenon DEF Sending, HasFin, Data, Synchronized
<1>12. Receiving(tcp, 0)'
  <2>1. /\ \A k \in 1 .. l : tcp.rx[k] = g + k
        /\ g + l <= peer_sent /\ l + b <= RX_CAP
        /\ tcp.st # "Closed" => g + l + b = peer_sent
    BY <1>2, <1>9, Zenon DEF Sound, Receiving
  <2>2. PICK c \in Nat : c = After(arrived', 0, "byte")
    BY <1>10
  <2>3. /\ g + l <= peer_sent' /\ l + c <= RX_CAP
        /\ tcp.st # "Closed" => g + l + c = peer_sent'
    <3>1. CASE e[1] = "byte"
      <4>1. c = b + 1 /\ peer_sent' = peer_sent + 1 /\ l + b < RX_CAP
        BY <1>9, <1>10, <2>2, <3>1, Zenon
      <4>2. \A p, r \in Nat : /\ g + l <= p => g + l <= p + 1
                              /\ l + b < r => l + (b + 1) <= r
                              /\ g + l + b = p => g + l + (b + 1) = p + 1
        OBVIOUS
      <4> QED BY <1>3, <2>1, <4>1, <4>2, Zenon
    <3>2. CASE e[1] # "byte"
      <4>1. c = b /\ peer_sent' = peer_sent
        BY <1>10, <2>2, <3>2, Zenon
      <4> QED BY <2>1, <4>1, Zenon
    <3> QED BY <3>1, <3>2
  <2> QED BY <1>1, <1>9, <2>1, <2>2, <2>3, Zenon DEF Receiving
<1>13. Progress(tcp, 0)'
  <2>1. tcp.st = "SynSent" =>
          /\ arrived'[0 + 1][1] \in {"ack", "rst"}
          /\ handshake # "true"
    BY <1>2, <1>8, Zenon DEF Sound, Progress
  <2>2. PeerDone => After(arrived', 0, "byte") = After(arrived, 0, "byte")
                    /\ peer_sent' = peer_sent
    BY <1>9, <1>10, Zenon
  <2>3. /\ tcp.st \in {"CloseWait", "Closing", "LastAck", "TimeWait"} =>
             PeerDone' /\ After(arrived', 0, "byte") = 0
        /\ tcp.st = "Closed" /\ handshake = "true" =>
             PeerDone' /\ Len(got) + Len(tcp.rx) + tcp.cut = peer_sent'
        /\ tcp.st # "Closed" => tcp.cut = 0
        /\ ended => tcp.st \in {"Closed", "TimeWait"} /\ tcp.rx = <<>>
    BY <1>2, <2>2, Zenon DEF Sound, Progress
  <2>4. peer' # "listen"
    OBVIOUS
  <2> QED BY <1>1, <1>8, <2>1, <2>3, <2>4, Zenon DEF Progress, PeerDone
<1>14. tcp'.nxt = Len(tcp'.tx) /\ (tcp \in Sockets)'
  BY <1>1, <1>2, Zenon DEF TcpInv
<1> QED BY <1>4, <1>5, <1>6, <1>7, <1>11, <1>12, <1>13, <1>14 DEF TcpInv, Sound

\* Acknowledgements do not change with another segment.
LEMMA AckedKept ==
  ASSUME TcpInv, NEW e \in Segments, arrived' = Append(arrived, e), e[1] # "ack",
         UNCHANGED ours, peer_got' = peer_got
  PROVE  Acked(tcp, 0, told)' /\ Streams'
<1>1. tcp' = tcp /\ told' = told /\ got' = got
  BY DEF ours
<1>2. arrived \in Seq(Segments) /\ 0 \in 0 .. Len(arrived) /\ told \in Nat
  BY TcpAssumption DEF TcpInv, Line, Scalars
<1>3. After(arrived', 0, "ack") = After(arrived, 0, "ack")
  BY <1>2, AfterAppend
<1>4. Acked(tcp, 0, told)
  BY DEF TcpInv, Sound
<1>5. Acked(tcp, 0, told)'
  BY <1>1, <1>3, <1>4, Zenon DEF Acked, Synchronized, Data, HasFin
<1>6. told' \in Nat /\ told <= told'
  BY <1>1, <1>2
<1> QED BY <1>1, <1>5, <1>6, StreamsKept

LEMMA SegmentsAre ==
  /\ <<"ack">> \in Segments /\ <<"rst">> \in Segments /\ Fin \in Segments
  /\ \A b \in 1 .. PEER_MSG : Byte(b) \in Segments
BY DEF Segments

\* Something of ours is on the wire: the socket is open.
LEMMA OnWireOpen ==
  ASSUME TcpInv, OnWire
  PROVE  /\ connected /\ tcp.tx # <<>> /\ tcp.st # "Closed" /\ peer # "gone"
         /\ After(arrived, 0, "ack") \in Nat
         /\ After(arrived, 0, "ack") < Len(tcp.tx) /\ Acks = After(arrived, 0, "ack")
<1>1. Acks = After(arrived, 0, "ack")
  BY CountAfter DEF Acks
<1>2. After(arrived, 0, "ack") \in Nat
  <2>1. Len(arrived) \in Nat /\ 0 \in Nat
    BY DEF TcpInv, Line
  <2> QED BY <2>1, AfterFinite
<1>3. After(arrived, 0, "ack") < Len(tcp.tx) /\ peer # "gone"
  BY <1>1 DEF OnWire, TcpInv
<1>4. tcp.tx # <<>>
  <2>1. Len(<<>>) = 0
    OBVIOUS
  <2>2. Len(tcp.tx) # 0
    BY <1>2, <1>3
  <2> QED BY <2>1, <2>2, Zenon
<1>5. tcp.st # "Closed"
  BY <1>4 DEF TcpInv, Sound, Sending
<1>6. connected
  BY <1>5 DEF TcpInv, Fresh
<1> QED BY <1>1, <1>2, <1>3, <1>4, <1>5, <1>6

LEMMA PeerAnswerInv ==
  ASSUME TcpInv, PeerAnswer
  PROVE  TcpInv'
<1>1. /\ peer = "listen" /\ OnWire /\ UNCHANGED <<ours, lost>> /\ peer_sent' = peer_sent
      /\ peer_got' = peer_got
  BY DEF PeerAnswer
<1>2. /\ connected /\ tcp.st # "Closed" /\ arrived = <<>>
      /\ After(arrived, 0, "ack") < Len(tcp.tx)
  BY <1>1, OnWireOpen DEF TcpInv, Line
<1>3. tcp.st = "SynSent" /\ ~PeerDone /\ peer_sent' \in 0 .. PEER_MSG
  BY <1>1, <1>2 DEF TcpInv, Sound, Progress, PeerDone, Scalars
<1>4. CASE peer' = "open" /\ arrived' = Append(arrived, <<"ack">>)
  <2>1. PICK e \in Segments : e = <<"ack">>
    BY SegmentsAre
  <2>2. e[1] = "ack"
    BY <2>1, Kinds
  <2>3. /\ tcp' = tcp /\ told' = told /\ got' = got
    BY <1>1 DEF ours
  <2>4. After(arrived', 0, "ack") = 1
    <3>1. After(arrived, 0, "ack") = 0
      BY <1>2, Nothing
    <3>2. arrived \in Seq(Segments) /\ 0 \in 0 .. Len(arrived)
      BY <1>2
    <3>3. After(Append(arrived, e), 0, "ack") = After(arrived, 0, "ack") + 1
      BY <2>2, <3>2, AfterAppend
    <3> QED BY <1>4, <2>1, <3>1, <3>3
  <2>5. tcp.tx = <<Syn>> /\ tcp.nxt = Len(tcp.tx)
    BY <1>3 DEF TcpInv, Sound, Sending
  <2>6. 1 <= tcp.nxt
    BY <2>5
  <2>7. Acked(tcp, 0, told)'
    <3>1. ~Synchronized(tcp)
      BY <1>3 DEF Synchronized
    <3> QED BY <2>3, <2>4, <2>6, <3>1, Zenon DEF Acked, Synchronized
  <2>8. Streams'
    <3>1. told' \in Nat /\ told <= told'
      BY <2>3, TcpAssumption DEF TcpInv, Scalars
    <3> QED BY <1>1, <2>3, <3>1, StreamsKept
  <2> QED BY <1>1, <1>2, <1>3, <1>4, <2>1, <2>2, <2>7, <2>8, PeerStep
<1>5. CASE peer' = "gone" /\ arrived' = Append(arrived, <<"rst">>)
  <2>1. PICK e \in Segments : e = <<"rst">>
    BY SegmentsAre
  <2>2. e[1] = "rst"
    BY <2>1, Kinds
  <2>3. Acked(tcp, 0, told)' /\ Streams'
    BY <1>1, <1>5, <2>1, <2>2, AckedKept
  <2> QED BY <1>1, <1>2, <1>3, <1>5, <2>1, <2>2, <2>3, PeerStep
<1> QED BY <1>4, <1>5 DEF PeerAnswer

LEMMA PeerSendInv ==
  ASSUME TcpInv, PeerSend
  PROVE  TcpInv'
<1>1. /\ peer = "open" /\ UNCHANGED <<ours, lost>> /\ peer_sent' = peer_sent + 1
      /\ peer_got' = peer_got /\ peer' = peer /\ peer_sent < PEER_MSG
      /\ Len(tcp.rx) + Count(arrived, "byte") < RX_CAP
      /\ arrived' = Append(arrived, Byte(peer_sent + 1))
  BY DEF PeerSend
<1>2. /\ peer_sent + 1 \in 1 .. PEER_MSG /\ peer_sent' \in 0 .. PEER_MSG
  BY <1>1, TcpAssumption DEF TcpInv, Scalars
<1>3. connected /\ ~PeerDone
  BY <1>1 DEF TcpInv, Fresh, PeerDone
<1>4. PICK e \in Segments : e = Byte(peer_sent + 1)
  BY <1>2, SegmentsAre
<1>5. e[1] = "byte" /\ e[2] = peer_sent'
  BY <1>1, <1>4, Kinds, Zenon
<1>6. Acked(tcp, 0, told)' /\ Streams'
  BY <1>1, <1>4, <1>5, AckedKept
<1>7. arrived # <<>> \/ tcp.st # "SynSent"
  <2>1. Len(<<>>) = 0 /\ ~(0 < 0)
    OBVIOUS
  <2>2. tcp.st = "SynSent" => 0 < Len(arrived)
    BY <1>1 DEF TcpInv, Sound, Progress
  <2> QED BY <2>1, <2>2, Zenon
<1>8. Len(tcp.rx) + After(arrived, 0, "byte") < RX_CAP
  BY <1>1, CountAfter
<1>9. arrived' = Append(arrived, e) /\ peer' \in {"open", "closed", "gone"} /\ peer # "gone"
  BY <1>1, <1>4
<1> QED BY <1>1, <1>2, <1>3, <1>5, <1>6, <1>7, <1>8, <1>9, PeerStep

LEMMA PeerCloseInv ==
  ASSUME TcpInv, PeerClose
  PROVE  TcpInv'
<1>1. /\ peer = "open" /\ UNCHANGED <<ours, lost>> /\ peer_sent' = peer_sent
      /\ peer_got' = peer_got /\ peer' = "closed" /\ arrived' = Append(arrived, Fin)
  BY DEF PeerClose
<1>2. /\ connected /\ PeerDone' /\ peer_sent' \in 0 .. PEER_MSG
  BY <1>1 DEF TcpInv, Fresh, PeerDone, Scalars
<1>3. PICK e \in Segments : e = Fin
  BY SegmentsAre
<1>4. e[1] = "fin"
  BY <1>3, Kinds
<1>5. Acked(tcp, 0, told)' /\ Streams'
  BY <1>1, <1>3, <1>4, AckedKept
<1>6. arrived # <<>> \/ tcp.st # "SynSent"
  <2>1. Len(<<>>) = 0 /\ ~(0 < 0)
    OBVIOUS
  <2>2. tcp.st = "SynSent" => 0 < Len(arrived)
    BY <1>1 DEF TcpInv, Sound, Progress
  <2> QED BY <2>1, <2>2, Zenon
<1>7. arrived' = Append(arrived, e) /\ peer' \in {"open", "closed", "gone"} /\ peer # "gone"
  BY <1>1, <1>3
<1> QED BY <1>1, <1>2, <1>4, <1>5, <1>6, <1>7, PeerStep

LEMMA PeerResetInv ==
  ASSUME TcpInv, PeerReset
  PROVE  TcpInv'
<1>1. /\ peer \in {"open", "closed"} /\ UNCHANGED <<ours, lost>> /\ peer_sent' = peer_sent
      /\ peer_got' = peer_got /\ peer' = "gone" /\ arrived' = Append(arrived, <<"rst">>)
  BY DEF PeerReset
<1>2. /\ connected /\ PeerDone' /\ peer_sent' \in 0 .. PEER_MSG
  BY <1>1 DEF TcpInv, Fresh, PeerDone, Scalars
<1>3. PICK e \in Segments : e = <<"rst">>
  BY SegmentsAre
<1>4. e[1] = "rst"
  BY <1>3, Kinds
<1>5. Acked(tcp, 0, told)' /\ Streams'
  BY <1>1, <1>3, <1>4, AckedKept
<1>6. arrived' = Append(arrived, e) /\ peer' \in {"open", "closed", "gone"} /\ peer # "gone"
  BY <1>1, <1>3
<1> QED BY <1>1, <1>2, <1>4, <1>5, <1>6, PeerStep

\* The peer reads the oldest thing it has not read: the byte that follows what
\* it has, or the FIN when it has everything.
LEMMA PeerTakeInv ==
  ASSUME TcpInv, PeerTake
  PROVE  TcpInv'
<1>1. /\ peer \in {"open", "closed"} /\ OnWire /\ UNCHANGED <<ours, lost>>
      /\ peer_sent' = peer_sent /\ peer' = peer /\ arrived' = Append(arrived, <<"ack">>)
      /\ peer_got' = IF Oldest = Fin THEN peer_got ELSE Append(peer_got, Oldest[2])
  BY DEF PeerTake
<1>2. /\ tcp' = tcp /\ told' = told /\ got' = got
  BY <1>1 DEF ours
<1>3. PICK e \in Segments : e = <<"ack">>
  BY SegmentsAre
<1>4. e[1] = "ack"
  BY <1>3, Kinds
<1>5. /\ arrived \in Seq(Segments) /\ 0 \in 0 .. Len(arrived) /\ told \in Nat
      /\ Streams /\ Len(tcp.tx) \in Nat /\ tcp.nxt = Len(tcp.tx) /\ Len(arrived) \in Nat
  BY SocketFields, TcpAssumption DEF TcpInv, Line, Scalars, Sound
<1>6. PICK A \in Nat, L \in Nat :
        A = After(arrived, 0, "ack") /\ L = Len(tcp.tx) /\ A < L /\ Acks = A
  BY <1>1, <1>5, OnWireOpen
<1>7. tcp.st # "Closed" /\ connected
  BY <1>1, OnWireOpen
<1>8. After(arrived', 0, "ack") = A + 1
  <2>1. After(Append(arrived, e), 0, "ack") = After(arrived, 0, "ack") + 1
    BY <1>4, <1>5, AfterAppend
  <2> QED BY <1>1, <1>3, <1>6, <2>1
<1>9. tcp.st # "SynSent"
  <2> SUFFICES ASSUME tcp.st = "SynSent" PROVE FALSE
    OBVIOUS
  <2>1. 0 < Len(arrived) /\ arrived[0 + 1][1] \in {"ack", "rst"} /\ tcp.tx = <<Syn>>
    BY <1>1 DEF TcpInv, Sound, Progress, Sending
  <2>2. 0 \in 0 .. Len(arrived) - 1 /\ 0 + 1 \in 1 .. Len(arrived)
    BY <1>5, <2>1
  <2>3. arrived[0 + 1][1] # "rst"
    BY <1>1, <2>2 DEF TcpInv, Line
  <2>4. After(arrived, 0, "ack") = After(arrived, 0 + 1, "ack") + 1
        /\ After(arrived, 0 + 1, "ack") \in Nat
    BY <2>1, <2>2, <2>3, Counts DEF TcpInv
  <2>5. L = 1
    BY <1>6, <2>1
  <2>6. PICK c \in Nat : A = c + 1
    BY <1>6, <2>4, Zenon
  <2> QED BY <1>6, <2>5, <2>6
<1>10. Synchronized(tcp)
  BY <1>7, <1>9 DEF Synchronized
<1>11. PICK D \in Nat :
         /\ D = Data(tcp) /\ D = (IF HasFin(tcp) THEN L - 1 ELSE L) /\ D <= told
         /\ \A k \in 1 .. D : tcp.tx[k] = Byte(told - D + k)
         /\ HasFin(tcp) => tcp.tx[L] = Fin
         /\ Len(peer_got) = IF told - D + A <= told THEN told - D + A ELSE told
  <2>1. Sending(tcp, told) /\ Acked(tcp, 0, told)
    BY DEF TcpInv, Sound
  <2>2. Data(tcp) = (IF HasFin(tcp) THEN L - 1 ELSE L) /\ Data(tcp) \in Nat
    BY <1>6 DEF Data
  <2>3. Len(peer_got) = IF told - Data(tcp) + A <= told
                        THEN told - Data(tcp) + A ELSE told
    BY <1>6, <1>10, <2>1, Zenon DEF Acked
  <2> QED BY <1>6, <1>10, <2>1, <2>2, <2>3, Zenon DEF Sending
<1>12. Oldest = tcp.tx[A + 1]
  BY <1>6 DEF Oldest
<1>13. /\ Len(peer_got') = IF told - D + (A + 1) <= told THEN told - D + (A + 1) ELSE told
       /\ peer_got' \in Seq(Nat) /\ Len(peer_got') <= told
       /\ \A k \in 1 .. Len(peer_got') : peer_got'[k] = k
  <2>0. /\ peer_got \in Seq(Nat) /\ Len(peer_got) <= told
        /\ \A k \in 1 .. Len(peer_got) : peer_got[k] = k
    BY <1>5 DEF Streams
  <2>1. CASE A + 1 <= D
    <3>1. A + 1 \in 1 .. D
      BY <2>1
    <3>2. Oldest = Byte(told - D + (A + 1))
      BY <1>11, <1>12, <3>1, Zenon
    <3>3. peer_got' = Append(peer_got, told - D + (A + 1))
      BY <1>1, <3>2, Kinds, Zenon
    <3>4. PICK h \in Nat : h = told - D + (A + 1)
      <4>1. \A x, y, v \in Nat : y <= x => x - y + (v + 1) \in Nat
        OBVIOUS
      <4>2. told - D + (A + 1) \in Nat
        BY <1>5, <1>11, <4>1, Zenon
      <4> QED BY <4>2, Zenon
    <3>5. /\ h <= told /\ Len(peer_got) + 1 = h
      <4>1. told - D + A <= told /\ h <= told /\ (told - D + A) + 1 = h
        BY <1>5, <1>11, <2>1, <3>4
      <4> QED BY <1>11, <4>1, Zenon
    <3>6. /\ Append(peer_got, h) \in Seq(Nat) /\ Len(Append(peer_got, h)) = h
          /\ \A k \in 1 .. h : Append(peer_got, h)[k] = k
      <4>1. Len(Append(peer_got, h)) = Len(peer_got) + 1 /\ Append(peer_got, h) \in Seq(Nat)
        BY <2>0
      <4>2. \A k \in 1 .. Len(peer_got) : Append(peer_got, h)[k] = peer_got[k]
        BY <2>0
      <4>3. Append(peer_got, h)[Len(peer_got) + 1] = h
        BY <2>0
      <4>4. \A k \in 1 .. h : k \in 1 .. Len(peer_got) \/ k = h
        BY <2>0, <3>5
      <4> QED BY <2>0, <3>5, <4>1, <4>2, <4>3, <4>4, Zenon
    <3> QED BY <3>3, <3>4, <3>5, <3>6, Zenon
  <2>2. CASE ~(A + 1 <= D)
    <3>1. HasFin(tcp) /\ A + 1 = L /\ A = D
      BY <1>6, <1>11, <2>2
    <3>2. Oldest = Fin
      BY <1>11, <1>12, <3>1, Zenon
    <3>3. peer_got' = peer_got
      BY <1>1, <3>2
    <3>4. told - D + A = told /\ told <= told /\ ~(told - D + (A + 1) <= told)
      BY <1>5, <3>1
    <3>5. Len(peer_got) = told
      BY <1>11, <3>4, Zenon
    <3> QED BY <2>0, <3>3, <3>4, <3>5, Zenon
  <2> QED BY <2>1, <2>2
<1>14. Streams'
  BY <1>2, <1>5, <1>13, Zenon DEF Streams
<1>15. Acked(tcp, 0, told)'
  <2>1. A + 1 <= tcp.nxt
    BY <1>5, <1>6
  <2>2. Data(tcp') = D
    BY <1>2, <1>11
  <2> QED BY <1>2, <1>8, <1>11, <1>13, <2>1, <2>2, Zenon DEF Acked, Synchronized, Data, HasFin
<1>16. /\ arrived' = Append(arrived, e) /\ peer' \in {"open", "closed", "gone"}
       /\ peer # "gone" /\ (PeerDone => PeerDone') /\ peer_sent' \in 0 .. PEER_MSG
  BY <1>1, <1>3 DEF PeerDone, TcpInv, Scalars
<1> QED BY <1>1, <1>4, <1>7, <1>9, <1>14, <1>15, <1>16, PeerStep

-----------------------------------------------------------------------------
(* 8. The theorems about types and streams *)

LEMMA TcpInvInit ==
  ASSUME Init
  PROVE  TcpInv
<1> DEFINE z == [st |-> "Closed", tx |-> <<>>, nxt |-> 0, rx |-> <<>>, cut |-> 0]
<1>1. tcp = z
  BY DEF Init
<1>2. "Closed" \in States /\ <<>> \in TxBuffers /\ <<>> \in RxBuffers
  BY DEF States, TxBuffers, RxBuffers
<1>3. /\ tcp \in Sockets /\ tcp.st = "Closed" /\ tcp.tx = <<>> /\ tcp.nxt = 0
      /\ tcp.rx = <<>> /\ tcp.cut = 0
  BY <1>1, <1>2 DEF Sockets
<1>4. /\ Len(<<>>) = 0 /\ 1 .. 0 = {} /\ 0 <= 0 /\ 0 + 0 = 0 /\ 0 <= RX_CAP
  BY TcpAssumption
<1>5. \A kind : After(arrived, 0, kind) = 0
  BY Nothing DEF Init
<1>6. Scalars /\ Fresh
  BY <1>3, TcpAssumption DEF Init, Scalars, Fresh
<1>7. Flags
  BY Zenon DEF Init, Flags
<1>8. Line
  <2>1. arrived \in Seq(Segments) /\ Len(arrived) = 0
    BY DEF Init
  <2> QED BY <1>4, <2>1, Zenon DEF Line, Init
<1>9. Streams
  BY DEF Init, Streams
<1>10. Sending(tcp, told)
  BY <1>3, <1>4 DEF Sending, HasFin, Synchronized
<1>11. Acked(tcp, 0, told)
  BY <1>3 DEF Acked, Synchronized
<1>12. Receiving(tcp, 0)
  BY <1>3, <1>4, <1>5 DEF Receiving, Init
<1>13. Progress(tcp, 0)
  BY <1>3 DEF Progress, Init
<1> QED BY <1>3, <1>4, <1>6, <1>7, <1>8, <1>9, <1>10, <1>11, <1>12, <1>13 DEF TcpInv, Sound

\* A step that touches nothing of what the invariant speaks of but the timer
\* and the network's loss.
LEMMA QuietInv ==
  ASSUME TcpInv, timer' \in {"idle", "running", "passed"}, lost' \in BOOLEAN,
         UNCHANGED <<tcp, ticks_left, connected, told, got, handshake, ended, shut,
                     arrived, theirs>>
  PROVE  TcpInv'
<1>1. /\ tcp' = tcp /\ ticks_left' = ticks_left /\ connected' = connected
      /\ told' = told /\ got' = got /\ handshake' = handshake /\ ended' = ended
      /\ shut' = shut /\ arrived' = arrived /\ peer' = peer /\ peer_sent' = peer_sent
      /\ peer_got' = peer_got
  BY DEF theirs
<1>2. Scalars' /\ Fresh'
  BY <1>1 DEF TcpInv, Scalars, Fresh
<1>3. Flags'
  BY <1>1, Zenon DEF TcpInv, Flags
<1>4. Line'
  <2>1. Line
    BY DEF TcpInv
  <2> QED BY <1>1, <2>1 DEF Line, PeerDone
<1>5. Streams'
  BY <1>1, Zenon DEF TcpInv, Streams
<1>6. Sending(tcp, told)'
  BY <1>1, Zenon DEF TcpInv, Sound, Sending, HasFin, Data, Synchronized
<1>7. Acked(tcp, 0, told)'
  BY <1>1, Zenon DEF TcpInv, Sound, Acked, HasFin, Data, Synchronized, After
<1>8. Receiving(tcp, 0)'
  BY <1>1, Zenon DEF TcpInv, Sound, Receiving, After
<1>9. Progress(tcp, 0)'
  BY <1>1 DEF TcpInv, Sound, Progress, PeerDone
<1>10. (tcp \in Sockets)' /\ tcp'.nxt = Len(tcp'.tx)
  BY <1>1, Zenon DEF TcpInv, Sound
<1> QED BY <1>2, <1>3, <1>4, <1>5, <1>6, <1>7, <1>8, <1>9, <1>10 DEF TcpInv, Sound

LEMMA TcpInvNext ==
  ASSUME TcpInv, [Next]_vars
  PROVE  TcpInv'
<1>1. CASE connect
  BY <1>1, ConnectInv
<1>2. CASE poll_connect
  BY <1>2, PollConnectInv
<1>3. CASE recv
  BY <1>3, RecvInv
<1>4. CASE close
  BY <1>4, CloseInv
<1>5. ASSUME NEW k \in 1 .. BUF, send(k) PROVE TcpInv'
  BY <1>5, SendInv
<1>6. CASE Tick
  <2>1. timer' \in {"idle", "running", "passed"} /\ lost' = lost
    BY <1>6 DEF Tick
  <2>2. lost' \in BOOLEAN
    BY <2>1, Zenon DEF TcpInv, Flags
  <2> QED BY <1>6, <2>1, <2>2, QuietInv DEF Tick
<1>7. CASE Lose
  <2>1. timer' \in {"idle", "running", "passed"}
    BY <1>7 DEF Lose, ours, TcpInv, Scalars
  <2>2. lost' \in BOOLEAN
    BY <1>7, Zenon DEF Lose
  <2> QED BY <1>7, <2>1, <2>2, QuietInv DEF Lose, ours
<1>8. CASE PeerAnswer
  BY <1>8, PeerAnswerInv
<1>9. CASE PeerTake
  BY <1>9, PeerTakeInv
<1>10. CASE PeerSend
  BY <1>10, PeerSendInv
<1>11. CASE PeerClose
  BY <1>11, PeerCloseInv
<1>12. CASE PeerReset
  BY <1>12, PeerResetInv
<1>13. CASE UNCHANGED vars
  <2>1. timer' \in {"idle", "running", "passed"} /\ lost' = lost
    BY <1>13 DEF vars, ours, TcpInv, Scalars
  <2>2. lost' \in BOOLEAN
    BY <2>1, Zenon DEF TcpInv, Flags
  <2> QED BY <1>13, <2>1, <2>2, QuietInv DEF vars, ours
<1> QED
  BY <1>1, <1>2, <1>3, <1>4, <1>5, <1>6, <1>7, <1>8, <1>9, <1>10, <1>11, <1>12, <1>13
  DEF Next, Caller, Peer

LEMMA Narrowed ==
  ASSUME NEW S, NEW T, NEW x \in Seq(S), \A k \in 1 .. Len(x) : x[k] \in T
  PROVE  x \in Seq(T)
<1>1. x = [k \in 1 .. Len(x) |-> x[k]] /\ Len(x) \in Nat
  OBVIOUS
<1>2. \A n \in Nat : \A f \in [1 .. n -> T] : f \in Seq(T)
  OBVIOUS
<1>3. x \in [1 .. Len(x) -> T]
  BY <1>1
<1> QED BY <1>1, <1>2, <1>3

\* The inductive invariant: both streams are continuous through smoltcp's
\* buffers and the segments on their way, at every stage of the connection.
THEOREM TcpInvariant == Spec => []TcpInv
<1>1. Init => TcpInv
  BY TcpInvInit
<1>2. TcpInv /\ [Next]_vars => TcpInv'
  BY TcpInvNext
<1> QED BY <1>1, <1>2, PTL DEF Spec

\* The buffers keep to their sizes, whatever smoltcp is given and sent: the
\* type invariant.
THEOREM TcpTypeCorrect == Spec => []TypeOK
<1>1. TcpInv => TypeOK
  <2> SUFFICES ASSUME TcpInv PROVE TypeOK
    OBVIOUS
  <2>1. /\ Sound(tcp, 0, told) /\ tcp \in Sockets /\ told \in Nat /\ peer_sent \in Nat
        /\ MSG \in Nat /\ PEER_MSG \in Nat /\ RX_CAP \in Nat
        /\ told <= MSG /\ peer_sent <= PEER_MSG
    BY TcpAssumption DEF TcpInv, Sound, Scalars
  <2>2. /\ tcp.st \in States /\ tcp.tx \in Seq(Items) /\ tcp.rx \in Seq(1 .. PEER_MSG)
        /\ Len(tcp.tx) \in Nat /\ Len(tcp.rx) \in Nat /\ tcp.nxt = Len(tcp.tx)
        /\ tcp.cut \in Nat
    BY <2>1, SocketFields DEF TcpInv
  <2>3. tcp.nxt \in 0 .. Len(tcp.tx)
    BY <2>2
  <2>4. Count(tcp.tx, "byte") <= TX_CAP
    BY <2>1, CountData
  <2>5. PICK b \in Nat, g \in Nat, l \in Nat :
          b = After(arrived, 0, "byte") /\ g = Len(got) /\ l = Len(tcp.rx)
    <3>1. Len(arrived) \in Nat /\ 0 \in Nat
      BY DEF TcpInv, Line
    <3>2. After(arrived, 0, "byte") \in Nat
      BY <3>1, AfterFinite
    <3>3. Len(got) \in Nat
      BY DEF TcpInv, Streams
    <3> QED BY <2>2, <3>2, <3>3, Zenon
  <2>6. l + b <= RX_CAP /\ g + l <= peer_sent
    BY <2>1, <2>5, Zenon DEF Sound, Receiving
  <2>7. Len(tcp.rx) <= RX_CAP /\ g <= PEER_MSG
    BY <2>1, <2>5, <2>6
  <2>8. got \in Seq(1 .. PEER_MSG)
    <3>1. got \in Seq(Nat) /\ \A k \in 1 .. g : got[k] = k
      BY <2>5 DEF TcpInv, Streams
    <3>2. \A k \in 1 .. g : got[k] \in 1 .. PEER_MSG
      BY <2>1, <2>7, <3>1
    <3> QED BY <2>5, <3>1, <3>2, Narrowed
  <2>9. peer_got \in Seq(1 .. MSG)
    <3>1. /\ peer_got \in Seq(Nat) /\ Len(peer_got) <= told
          /\ \A k \in 1 .. Len(peer_got) : peer_got[k] = k
      BY DEF TcpInv, Streams
    <3>2. \A k \in 1 .. Len(peer_got) : peer_got[k] \in 1 .. MSG
      BY <2>1, <3>1
    <3> QED BY <3>1, <3>2, Narrowed
  <2>10. Scalars /\ Flags
    BY DEF TcpInv
  <2> QED BY <2>2, <2>3, <2>4, <2>7, <2>8, <2>9, <2>10, Zenon DEF TypeOK, Scalars, Flags
<1> QED BY <1>1, TcpInvariant, PTL

\* The peer reads what send has reported as taken, each byte once and in order,
\* although send takes buffers in part and segments are lost and sent again.
THEOREM BytesOutInOrder == Spec => []StreamOut
<1>1. TcpInv => StreamOut
  BY DEF TcpInv, Streams, StreamOut, StreamOf
<1> QED BY <1>1, TcpInvariant, PTL

\* recv gives the peer's bytes, each once and in order, whatever the sizes of
\* the caller's buffer and of smoltcp's.
THEOREM BytesInInOrder == Spec => []StreamIn
<1>1. TcpInv => StreamIn
  <2> SUFFICES ASSUME TcpInv PROVE StreamIn
    OBVIOUS
  <2>1. Len(got) \in Nat /\ Len(tcp.rx) \in Nat /\ \A k \in 1 .. Len(got) : got[k] = k
    BY SocketFields DEF TcpInv, Streams, Sound
  <2>2. Len(got) + Len(tcp.rx) <= peer_sent /\ peer_sent \in Nat
    BY TcpAssumption DEF TcpInv, Scalars, Sound, Receiving
  <2>3. Len(got) <= peer_sent
    BY <2>1, <2>2
  <2> QED BY <2>1, <2>3 DEF StreamIn, StreamOf
<1> QED BY <1>1, TcpInvariant, PTL

-----------------------------------------------------------------------------
(* 9. Who ends up in TIME-WAIT *)

\* The states a socket reaches only by its own close.
OwnFin == {"FinWait1", "FinWait2", "Closing", "TimeWait", "LastAck"}

\* Nothing is thrown away on a caller that has not closed.
ShutFirst == tcp.st \in OwnFin \/ tcp.cut # 0 => shut

LEMMA ProcessOwn ==
  ASSUME NEW s \in Sockets, NEW g, g[1] \in {"ack", "rst", "fin", "byte"}
  PROVE  /\ Process(s, g).st \in OwnFin => s.st \in OwnFin
         /\ Process(s, g).cut = s.cut
<1>1. CASE s.st = "Closed"
  BY <1>1 DEF Process
<1>2. CASE s.st # "Closed" /\ g[1] = "rst"
  <2>1. Process(s, g) = Closed(s)
    BY <1>2 DEF Process
  <2> QED BY <2>1, ClosedFields DEF OwnFin
<1>3. CASE s.st # "Closed" /\ g[1] = "ack"
  <2>1. Process(s, g) = OnAck(s)
    BY <1>3 DEF Process
  <2>2. OnAck(s).cut = s.cut /\ (OnAck(s).st \in OwnFin => s.st \in OwnFin)
    BY DEF OnAck, OwnFin, Sockets
  <2> QED BY <2>1, <2>2
<1>4. CASE s.st # "Closed" /\ g[1] = "fin"
  <2>1. Process(s, g) = OnFin(s)
    BY <1>4 DEF Process
  <2>2. OnFin(s).cut = s.cut /\ (OnFin(s).st \in OwnFin => s.st \in OwnFin)
    BY DEF OnFin, OwnFin, Sockets
  <2> QED BY <2>1, <2>2
<1>5. CASE s.st # "Closed" /\ g[1] = "byte"
  <2>1. Process(s, g) = [s EXCEPT !.rx = Append(s.rx, g[2])]
    BY <1>5 DEF Process
  <2> QED BY <2>1 DEF Sockets
<1> QED BY <1>1, <1>2, <1>3, <1>4, <1>5

LEMMA IngressOwn ==
  ASSUME Line, Streams, Scalars, NEW n \in Nat, NEW s, Sound(s, 0, n)
  PROVE  /\ Ingress(s).st \in OwnFin => s.st \in OwnFin
         /\ Ingress(s).cut = s.cut
<1>1. Len(arrived) \in Nat
  BY DEF Line
<1>2. PICK f : Runs(f, s, Len(arrived)) /\ Ingress(s) = f[Len(arrived)]
  BY <1>1, IngressRun
<1>3. f[0] = s /\ \A i \in 1 .. Len(arrived) : f[i] = Process(f[i - 1], arrived[i])
  BY <1>1, <1>2 DEF Runs
<1> DEFINE Good(k) == /\ Sound(f[k], k, n) /\ f[k].cut = s.cut
                      /\ f[k].st \in OwnFin => s.st \in OwnFin
           S == {k \in Nat : k <= Len(arrived) => Good(k)}
<1>4. 0 \in S
  BY <1>3
<1>5. ASSUME NEW k \in Nat, k \in S PROVE k + 1 \in S
  <2> SUFFICES ASSUME k + 1 <= Len(arrived) PROVE Good(k + 1)
    OBVIOUS
  <2>1. k \in 0 .. Len(arrived) - 1 /\ k + 1 \in 1 .. Len(arrived) /\ (k + 1) - 1 = k
    BY <1>1
  <2>2. Good(k)
    BY <1>1, <1>5, <2>1
  <2>3. f[k + 1] = Process(f[k], arrived[k + 1])
    BY <1>3, <2>1
  <2>4. Sound(f[k + 1], k + 1, n)
    BY <2>1, <2>2, <2>3, ProcessSound
  <2>5. f[k] \in Sockets /\ arrived[k + 1][1] \in {"ack", "rst", "fin", "byte"}
    BY <2>1, <2>2, Counts, SegmentKinds DEF Sound
  <2>6. /\ f[k + 1].st \in OwnFin => f[k].st \in OwnFin
        /\ f[k + 1].cut = f[k].cut
    BY <2>3, <2>5, ProcessOwn
  <2> QED BY <2>2, <2>4, <2>6
<1> HIDE DEF S
<1>6. Len(arrived) \in S
  BY <1>1, <1>4, <1>5, SetInduction
<1> QED BY <1>1, <1>2, <1>6 DEF S

LEMMA PolledOwn ==
  ASSUME Line, Streams, Scalars, NEW n \in Nat, NEW s, Sound(s, 0, n)
  PROVE  /\ Polled(s).st \in OwnFin => s.st \in OwnFin
         /\ Polled(s).cut # 0 => s.cut # 0 \/ tcp.st \in OwnFin
<1>1. PICK in : /\ in = Ingress(s) /\ in \in Sockets /\ Len(in.rx) \in Nat
                /\ in.st \in OwnFin => s.st \in OwnFin
                /\ in.cut = s.cut
  BY IngressSound, IngressOwn, SocketFields DEF Sound
<1> DEFINE over == tcp.st = "TimeWait" /\ in.st = "TimeWait" /\ Expired
<1>2. PICK out : out = IF over THEN Reset(in) ELSE in
  OBVIOUS
<1>3. PICK r : r = Polled(s) /\ r = [out EXCEPT !.nxt = Len(out.tx)]
  BY <1>1, <1>2 DEF Polled
<1>4. CASE over
  <2>1. /\ Closed(in) \in Sockets /\ Closed(in).st = "Closed" /\ Closed(in).tx = <<>>
        /\ <<>> \in RxBuffers
    BY <1>1, ClosedFields DEF RxBuffers
  <2>2. out \in Sockets /\ out.st = "Closed" /\ out.tx = <<>>
    BY <1>1, <1>2, <1>4, <2>1 DEF Reset, Sockets
  <2>3. Len(out.tx) = 0
    BY <2>2
  <2>4. r.st = "Closed"
    BY <1>3, <2>2, <2>3, SetNxt
  <2> QED BY <1>3, <1>4, <2>4 DEF OwnFin
<1>5. CASE ~over
  <2>1. out = in /\ Len(in.tx) \in Nat
    BY <1>1, <1>2, <1>5, SocketFields
  <2>2. r.st = in.st /\ r.cut = in.cut
    BY <1>1, <1>3, <2>1, SetNxt
  <2> QED BY <1>1, <1>3, <2>2
<1> QED BY <1>4, <1>5

LEMMA ShutFirstNext ==
  ASSUME TcpInv, ShutFirst, [Next]_vars
  PROVE  ShutFirst'
<1>0. PICK n \in Nat : n = told
  BY TcpAssumption DEF TcpInv, Scalars
<1>1. /\ Line /\ Streams /\ Scalars /\ Sound(tcp, 0, n) /\ tcp \in Sockets
  BY <1>0 DEF TcpInv, Sound
\* A call that polls a socket as far in closing as tcp is.
<1>2. ASSUME NEW s, NEW m \in Nat, Sound(s, 0, m), s.cut = tcp.cut,
             s.st \in OwnFin => tcp.st \in OwnFin \/ shut', shut => shut',
             tcp'.st = Polled(s).st, tcp'.cut = Polled(s).cut
      PROVE  ShutFirst'
  <2>1. /\ Polled(s).st \in OwnFin => s.st \in OwnFin
        /\ Polled(s).cut # 0 => s.cut # 0 \/ tcp.st \in OwnFin
    BY <1>1, <1>2, PolledOwn
  <2> QED BY <1>2, <2>1 DEF ShutFirst
<1>3. CASE connect
  <2>1. PICK s : s = [tcp EXCEPT !.st = "SynSent", !.tx = <<Syn>>]
    OBVIOUS
  <2>2. Sound(s, 0, n)
    BY <1>0, <1>3, <2>1, ConnectSound DEF connect
  <2>3. s.cut = tcp.cut /\ s.st \notin OwnFin
    BY <1>1, <2>1 DEF Sockets, OwnFin
  <2>4. tcp' = Polled(s) /\ shut' = shut
    BY <1>3, <2>1 DEF connect
  <2> QED BY <1>2, <2>2, <2>3, <2>4
<1>4. CASE poll_connect
  <2>1. tcp' = Polled(tcp) /\ shut' = shut
    BY <1>4 DEF poll_connect
  <2> QED BY <1>1, <1>2, <2>1
<1>5. CASE recv
  <2>1. PICK p : p = Polled(tcp)
    OBVIOUS
  <2>2. p \in Sockets
    BY <1>1, <2>1, PolledSound DEF Sound
  <2>3. Rest(p) \in RxBuffers
    BY <2>2, RecvCut
  <2>4. tcp' = [p EXCEPT !.rx = Rest(p)] /\ shut' = shut
    BY <1>5, <2>1 DEF recv
  <2>5. tcp'.st = p.st /\ tcp'.cut = p.cut
    BY <2>2, <2>3, <2>4, SetRx
  <2> QED BY <1>1, <1>2, <2>1, <2>4, <2>5
<1>6. CASE close
  <2> DEFINE fin == [tcp EXCEPT !.tx = Append(@, Fin)]
  <2>1. PICK s : s = CASE tcp.st = "SynSent" -> Closed(tcp)
                       [] tcp.st = "Established" -> [fin EXCEPT !.st = "FinWait1"]
                       [] tcp.st = "CloseWait" -> [fin EXCEPT !.st = "LastAck"]
                       [] OTHER -> tcp
    OBVIOUS
  <2>2. Sound(s, 0, n)
    BY <1>0, <2>1, CloseStart
  <2>3. s.cut = tcp.cut
    BY <1>1, <2>1 DEF Closed, Sockets
  <2>4. tcp' = Polled(s) /\ shut'
    BY <1>6, <2>1 DEF close
  <2> QED BY <1>2, <2>2, <2>3, <2>4
<1>7. ASSUME NEW k \in 1 .. BUF, send(k) PROVE ShutFirst'
  <2>0. k \in Nat /\ MSG \in Nat
    BY TcpAssumption
  <2>1. PICK t \in Nat :
          /\ t = Taken(k) /\ t <= k /\ (~may_send(tcp) => t = 0)
          /\ may_send(tcp) => Data(tcp) = Len(tcp.tx) /\ Len(tcp.tx) + t <= TX_CAP
    BY <2>0, TakenFits
  <2>2. PICK s : s = [tcp EXCEPT !.tx = @ \o [i \in 1 .. t |-> Byte(told + i)]]
    OBVIOUS
  <2>3. told + k <= MSG /\ tcp' = Polled(s) /\ shut' = shut
    BY <1>7, <2>1, <2>2 DEF send, Queue
  <2>4. told + t <= MSG /\ told + t \in Nat
    BY <1>0, <2>0, <2>1, <2>3
  <2>5. Sound(s, 0, told + t)
    BY <2>1, <2>2, <2>4, SendSound
  <2>6. s.cut = tcp.cut /\ s.st = tcp.st
    BY <1>1, <2>2 DEF Sockets
  <2> QED BY <1>2, <2>3, <2>4, <2>5, <2>6
<1>8. CASE UNCHANGED <<tcp, shut>>
  BY <1>8 DEF ShutFirst
<1> QED
  BY <1>3, <1>4, <1>5, <1>6, <1>7, <1>8
  DEF Next, Caller, Peer, Tick, Lose, PeerAnswer, PeerTake, PeerSend, PeerClose,
      PeerReset, ours, vars

\* Some(0) comes after everything the peer sent, on every connection that
\* poll_connect said was established; what a reset threw away unread makes up
\* the difference, and there is none for a caller that has not closed.
THEOREM EndAfterEverything == Spec => []EndIsComplete
<1>1. TcpInv /\ ShutFirst => EndIsComplete
  <2> SUFFICES ASSUME TcpInv, ShutFirst, ended, handshake = "true"
               PROVE  Len(got) + tcp.cut = peer_sent /\ (tcp.cut > 0 => shut)
    BY DEF EndIsComplete
  <2>1. tcp.st \in {"Closed", "TimeWait"} /\ tcp.rx = <<>>
    BY DEF TcpInv, Sound, Progress
  <2>2. /\ Len(got) \in Nat /\ Len(tcp.rx) = 0 /\ peer_sent \in Nat /\ tcp.cut \in Nat
    BY <2>1, TcpAssumption, SocketFields DEF TcpInv, Streams, Scalars, Sound
  <2>3. \/ Len(got) + Len(tcp.rx) + tcp.cut = peer_sent
        \/ Len(got) + Len(tcp.rx) + 0 = peer_sent /\ tcp.cut = 0
    <3>1. CASE tcp.st = "Closed"
      BY <3>1 DEF TcpInv, Sound, Progress
    <3>2. CASE tcp.st = "TimeWait"
      BY <3>2, Zenon DEF TcpInv, Sound, Progress, Receiving
    <3> QED BY <2>1, <3>1, <3>2
  <2>4. tcp.cut > 0 => shut
    BY <2>2 DEF ShutFirst
  <2> QED BY <2>2, <2>3, <2>4
<1>2. Init => ShutFirst
  BY DEF Init, ShutFirst, OwnFin
<1>3. TcpInv /\ ShutFirst /\ [Next]_vars => ShutFirst'
  BY ShutFirstNext
<1> QED BY <1>1, <1>2, <1>3, TcpInvariant, PTL DEF Spec

=============================================================================
