--------------------------- MODULE UdpSocketProofs ---------------------------
(***************************************************************************)
(* Proofs about UdpSocket and the XskSetup under it, for every link, page  *)
(* size, pool, buffer and driver its assumptions allow.                    *)
(*                                                                         *)
(*   1. The inductive invariant: SetupInv, and of the open socket what its *)
(*      variables range over (UdpTypes), the chunks of the send under way  *)
(*      (Chunked) and what the last recv delivered (Received).             *)
(*   2. Every step preserves each part.                                    *)
(*   3. The theorems.                                                      *)
(***************************************************************************)
EXTENDS UdpSocket, XskSetupProofs

-----------------------------------------------------------------------------
(* 1. The inductive invariant *)

\* What may come to an open socket.
Frames == {Segment(r) : r \in Remotes}
            \cup {Datagram(r, n) : r \in Remotes, n \in Lengths}

Chunks == [off : Nat, len : Nat, frame : Nat]

UdpTypes ==
  /\ remote \in Remotes \cup {None} /\ flows \subseteq Remotes
  /\ free \in 0 .. POOL /\ buf \in Nat /\ off \in 0 .. buf
  /\ chunks \in Seq(Chunks)
  /\ rx \in Seq(Frames) /\ Len(rx) <= RX_CAP

\* What is not there while the socket is not open, or no send is under way.
Closed ==
  /\ at # "open" => buf = 0 /\ rx = <<>> /\ got = None
  /\ buf = 0 => off = 0 /\ chunks = <<>>

\* Where the first i chunks end in the buffer.
EndOf(i) == IF i = 0 THEN 0 ELSE chunks[i].off + chunks[i].len

\* ChunksFit is not inductive: that the last chunk so far is a full one if
\* anything is left of the buffer is what lets another follow it.
Chunked ==
  /\ \A i \in 1 .. Len(chunks) :
       /\ chunks[i].off = EndOf(i - 1) /\ chunks[i].len > 0
       /\ chunks[i].frame <= ETH_HDR_LEN + conf.mtu
       /\ i < Len(chunks) \/ off < buf => chunks[i].len = max_udp_payload
  /\ buf > 0 => EndOf(Len(chunks)) = off

UdpInv == SetupInv /\ UdpTypes /\ Closed /\ Chunked /\ Received

-----------------------------------------------------------------------------
(* 2. Steps *)

\* The steps of the open socket leave the setup alone.
LEMMA NextIsSetupStep ==
  ASSUME [Next]_vars
  PROVE  SetupStep
<1>1. CASE SetupNext \/ DropSocket
  BY <1>1 DEF SetupStep, DropSocket
<1>2. CASE UNCHANGED setup
  BY <1>2 DEF SetupStep
<1> QED BY <1>1, <1>2 DEF Next, connect, send, recv, Chunk, SendEnds, Completes,
    PeerSends, HostSegment, Arrives, vars

\* Nothing but Drop changes an open socket's configuration.
LEMMA OpenStays ==
  ASSUME at = "open", SetupNext
  PROVE  at' = "open" /\ conf' = conf
BY DEF SetupNext, Attach, Detach, New, OpenFd, map_umem, SetOptions, GetOffsets,
   MapRing, Bind, Register, OtherBinds, OtherLeaves, Steps, Fails, build

\* An open socket has room for a payload in a packet.
LEMMA OpenMtu ==
  ASSUME SetupInv
  PROVE  /\ conf.mtu \in Nat
         /\ at = "open" => /\ max_udp_payload \in Nat \ {0}
                           /\ conf.mtu = max_udp_payload + 28
                           /\ Lengths \subseteq Nat
<1>1. conf.mtu \in Nat
  BY SetupAssumption DEF SetupInv, SetupTypeOK
<1>2. at = "open" => conf.mtu > 28
  BY DEF SetupInv, Sized, UDP_OVERHEAD
<1>3. at = "open" => max_udp_payload \in Nat \ {0} /\ conf.mtu = max_udp_payload + 28
  BY <1>1, <1>2 DEF max_udp_payload, UDP_OVERHEAD
<1>4. at = "open" => Lengths \subseteq Nat
  <2> SUFFICES ASSUME at = "open", NEW n \in Lengths PROVE n \in Nat
    OBVIOUS
  <2>1. CASE n \in Short
    BY <2>1, UdpAssumption
  <2>2. CASE n \notin Short
    BY <2>2, <1>3 DEF Lengths
  <2> QED BY <2>1, <2>2
<1> QED BY <1>1, <1>3, <1>4

\* Datagrams and segments look the same as long as the link does.
LEMMA FramesKept ==
  ASSUME conf' = conf
  PROVE  Frames' = Frames /\ max_udp_payload' = max_udp_payload
BY DEF Frames, Segment, Datagram, Lengths, max_udp_payload

LEMMA NextClosed ==
  ASSUME UdpTypes, Closed, [Next]_vars
  PROVE  Closed'
<1> USE DEF Closed, UdpTypes
<1>1. CASE SetupNext /\ UNCHANGED udp
  BY <1>1, OpenStays DEF udp
<1>2. CASE DropSocket
  BY <1>2 DEF DropSocket
<1>3. CASE \E r \in Remotes : connect(r)
  BY <1>3 DEF connect, Idle, setup, build
<1>4. CASE \E n \in Lengths : send(n)
  BY <1>4 DEF send, Idle, setup, build
<1>5. CASE \E n \in Lengths : recv(n)
  BY <1>5 DEF recv, Idle, setup, build
<1>6. CASE Chunk
  BY <1>6 DEF Chunk, setup, build
<1>7. CASE SendEnds
  BY <1>7 DEF SendEnds, setup, build
<1>8. CASE Completes
  BY <1>8 DEF Completes, setup, build
<1>9. CASE PeerSends \/ HostSegment
  BY <1>9 DEF PeerSends, HostSegment, Arrives, Idle, setup, build
<1>10. CASE UNCHANGED vars
  BY <1>10 DEF vars, udp, setup, build
<1> QED BY <1>1, <1>2, <1>3, <1>4, <1>5, <1>6, <1>7, <1>8, <1>9, <1>10 DEF Next

\* The next chunk of a send: not empty, and full if something is left after it.
LEMMA ChunkLength ==
  ASSUME SetupInv, UdpTypes, Closed, Chunk,
         NEW len, len = AtMost(max_udp_payload, buf - off)
  PROVE  /\ len \in Nat \ {0} /\ len <= max_udp_payload /\ off + len <= buf
         /\ off + len < buf => len = max_udp_payload
         /\ at = "open" /\ at' = at /\ conf' = conf /\ buf' = buf
         /\ off' = off + len
         /\ \E f \in Nat :
              /\ f <= ETH_HDR_LEN + conf.mtu
              /\ chunks' = Append(chunks, [off |-> off, len |-> len, frame |-> f])
<1>1. at = "open" /\ off < buf
  BY DEF Chunk, Closed, UdpTypes
<1>2. max_udp_payload \in Nat \ {0} /\ conf.mtu = max_udp_payload + 28
  BY <1>1, OpenMtu
<1>3. /\ len \in Nat \ {0} /\ len <= max_udp_payload /\ off + len <= buf
      /\ off + len < buf => len = max_udp_payload
  BY <1>1, <1>2 DEF AtMost, UdpTypes
<1>4. at' = at /\ conf' = conf /\ buf' = buf /\ off' = off + len
  BY DEF Chunk, setup, build
<1>5. DEFINE f == IF free > 0 THEN build_frame(len) ELSE 0
<1>6. f \in Nat /\ f <= ETH_HDR_LEN + conf.mtu
  BY <1>2, <1>3 DEF build_frame, ETH_HDR_LEN, UDP_OVERHEAD
<1>7. chunks' = Append(chunks, [off |-> off, len |-> len, frame |-> f])
  BY DEF Chunk
<1> QED BY <1>1, <1>3, <1>4, <1>6, <1>7

LEMMA NextUdpTypes ==
  ASSUME SetupInv, UdpTypes, Closed, [Next]_vars
  PROVE  UdpTypes'
<1> USE UdpAssumption DEF UdpTypes
<1>1. CASE SetupNext /\ UNCHANGED udp
  <2>1. CASE at = "open"
    <3>1. Frames' = Frames
      BY <1>1, <2>1, OpenStays, FramesKept
    <3> QED BY <1>1, <3>1 DEF udp
  <2>2. CASE at # "open"
    <3>1. rx = <<>> /\ <<>> \in Seq(Frames')
      BY <2>2 DEF Closed
    <3> QED BY <1>1, <3>1 DEF udp
  <2> QED BY <2>1, <2>2
<1>2. CASE DropSocket
  <2>1. <<>> \in Seq(Frames') /\ <<>> \in Seq(Chunks) /\ Len(<<>>) = 0
    OBVIOUS
  <2> QED BY <1>2, <2>1 DEF DropSocket
<1>3. CASE UNCHANGED setup /\ ~Chunk /\ Next
  <2>1. Frames' = Frames
    BY <1>3, FramesKept DEF setup, build
  <2> HIDE DEF UdpTypes
  <2>2. CASE \E r \in Remotes : connect(r)
    BY <2>1, <2>2 DEF connect, UdpTypes
  <2>3. CASE \E n \in Lengths : send(n)
    <3>1. Lengths \subseteq Nat /\ off = 0
      BY <2>3, OpenMtu DEF send, Idle, Closed
    <3> QED BY <2>1, <2>3, <3>1 DEF send, UdpTypes
  <2>4. CASE \E n \in Lengths : recv(n)
    <3>1. rx' = Tail(rx) /\ rx # <<>> /\ UNCHANGED <<remote, flows, free, buf, off, chunks>>
      BY <2>4 DEF recv
    <3>2. rx' \in Seq(Frames) /\ Len(rx') <= RX_CAP
      BY <3>1 DEF UdpTypes
    <3> QED BY <2>1, <3>1, <3>2 DEF UdpTypes
  <2>5. CASE SendEnds
    <3>1. <<>> \in Seq(Chunks)
      OBVIOUS
    <3> QED BY <2>1, <2>5, <3>1 DEF SendEnds, UdpTypes
  <2>6. CASE Completes
    BY <2>1, <2>6 DEF Completes, UdpTypes
  <2>7. CASE PeerSends \/ HostSegment
    <3>1. PICK f \in Frames : Arrives(f)
      BY <2>7 DEF PeerSends, HostSegment, Frames
    <3>2. rx' = Append(rx, f) /\ Len(rx) < RX_CAP
          /\ UNCHANGED <<remote, flows, free, buf, off, chunks>>
      BY <3>1 DEF Arrives
    <3>3. rx' \in Seq(Frames) /\ Len(rx') <= RX_CAP
      BY <3>2 DEF UdpTypes
    <3> QED BY <2>1, <3>2, <3>3 DEF UdpTypes
  <2>8. CASE SetupNext /\ UNCHANGED udp
    BY <2>8, <1>1
  <2>9. CASE DropSocket
    BY <2>9, <1>2
  <2> QED BY <1>3, <2>2, <2>3, <2>4, <2>5, <2>6, <2>7, <2>8, <2>9 DEF Next
<1>4. CASE Chunk
  <2>1. PICK len : len = AtMost(max_udp_payload, buf - off)
    OBVIOUS
  <2>2. /\ len \in Nat \ {0} /\ off + len <= buf /\ conf' = conf
        /\ buf' = buf /\ off' = off + len
        /\ \E f \in Nat :
             chunks' = Append(chunks, [off |-> off, len |-> len, frame |-> f])
    BY <1>4, <2>1, ChunkLength
  <2>3. PICK f \in Nat : chunks' = Append(chunks, [off |-> off, len |-> len, frame |-> f])
    BY <2>2
  <2>4. [off |-> off, len |-> len, frame |-> f] \in Chunks
    BY <2>2, <2>3 DEF Chunks
  <2>5. chunks' \in Seq(Chunks)
    BY <2>3, <2>4
  <2>6. Frames' = Frames
    BY <2>2, FramesKept
  <2>7. free' \in 0 .. POOL /\ UNCHANGED <<remote, flows, rx>>
    BY <1>4 DEF Chunk
  <2> QED BY <2>2, <2>5, <2>6, <2>7
<1>5. CASE UNCHANGED vars
  <2>1. Frames' = Frames
    BY <1>5, FramesKept DEF vars, setup, build
  <2> QED BY <1>5, <2>1 DEF vars, udp
<1>6. Next => (SetupNext /\ UNCHANGED udp) \/ DropSocket \/ Chunk
              \/ (UNCHANGED setup /\ ~Chunk /\ Next)
  BY DEF Next, connect, send, recv, SendEnds, Completes, PeerSends, HostSegment,
     Arrives
<1> QED BY <1>1, <1>2, <1>3, <1>4, <1>5, <1>6

LEMMA NextChunked ==
  ASSUME SetupInv, UdpTypes, Closed, Chunked, [Next]_vars
  PROVE  Chunked'
<1>1. CASE Chunk
  <2>1. PICK len : len = AtMost(max_udp_payload, buf - off)
    OBVIOUS
  <2>2. /\ len \in Nat \ {0} /\ len <= max_udp_payload /\ off + len <= buf
        /\ off + len < buf => len = max_udp_payload
        /\ at = "open" /\ conf' = conf /\ buf' = buf /\ off' = off + len
        /\ \E f \in Nat :
             /\ f <= ETH_HDR_LEN + conf.mtu
             /\ chunks' = Append(chunks, [off |-> off, len |-> len, frame |-> f])
    BY <1>1, <2>1, ChunkLength
  <2>3. PICK f \in Nat :
          /\ f <= ETH_HDR_LEN + conf.mtu
          /\ chunks' = Append(chunks, [off |-> off, len |-> len, frame |-> f])
    BY <2>2
  <2>0. PICK m \in Nat : m = Len(chunks)
    BY DEF UdpTypes
  <2>4. /\ chunks \in Seq(Chunks) /\ off \in Nat /\ buf \in Nat /\ off < buf
    BY <1>1 DEF UdpTypes, Chunk
  <2>5. /\ Len(chunks') = m + 1 /\ m \in Nat
        /\ \A i \in 1 .. m : chunks'[i] = chunks[i]
        /\ chunks'[m + 1] = [off |-> off, len |-> len, frame |-> f]
    BY <2>0, <2>3, <2>4
  <2>6. max_udp_payload' = max_udp_payload
    BY <2>2, FramesKept
  <2>7. /\ chunks'[m + 1].off = off /\ chunks'[m + 1].len = len
        /\ chunks'[m + 1].frame = f
    BY <2>5
  <2>8. ASSUME NEW i \in 0 .. m PROVE EndOf(i)' = EndOf(i)
    BY <2>5 DEF EndOf
  <2>9. EndOf(m) = off
    BY <2>0, <2>4 DEF Chunked
  <2>10. EndOf(m + 1)' = off'
    BY <2>2, <2>5, <2>7 DEF EndOf
  <2>11. ASSUME NEW i \in 1 .. m + 1
         PROVE  /\ chunks'[i].off = EndOf(i - 1)' /\ chunks'[i].len > 0
                /\ chunks'[i].frame <= ETH_HDR_LEN + conf'.mtu
                /\ i < m + 1 \/ off' < buf' =>
                     chunks'[i].len = max_udp_payload'
    <3>1. CASE i = m + 1
      <4>1. EndOf(i - 1)' = off
        BY <2>5, <2>8, <2>9, <3>1
      <4> QED BY <2>2, <2>3, <2>4, <2>5, <2>6, <2>7, <3>1, <4>1
    <3>2. CASE i # m + 1
      <4>1. i \in 1 .. m /\ i - 1 \in 0 .. m
        BY <2>5, <3>2
      <4>2. chunks'[i] = chunks[i] /\ EndOf(i - 1)' = EndOf(i - 1)
        BY <2>5, <2>8, <4>1
      <4>3. /\ chunks[i].off = EndOf(i - 1) /\ chunks[i].len > 0
            /\ chunks[i].frame <= ETH_HDR_LEN + conf.mtu
            /\ chunks[i].len = max_udp_payload
        BY <2>0, <2>4, <4>1 DEF Chunked
      <4> QED BY <2>2, <2>6, <4>2, <4>3
    <3> QED BY <3>1, <3>2
  <2> QED BY <2>5, <2>10, <2>11 DEF Chunked
<1>2. CASE UNCHANGED <<conf, buf, off, chunks>>
  BY <1>2 DEF Chunked, EndOf, max_udp_payload
<1>3. CASE chunks' = <<>> /\ off' = 0 /\ (buf' > 0 => EndOf(0)' = 0)
  BY <1>3 DEF Chunked
<1>4. CASE SetupNext /\ UNCHANGED udp
  <2>1. CASE at = "open"
    BY <1>4, <2>1, OpenStays, <1>2 DEF udp
  <2>2. CASE at # "open"
    BY <1>4, <2>2, <1>3 DEF udp, Closed, EndOf
  <2> QED BY <2>1, <2>2
<1>5. CASE \E n \in Lengths : send(n)
  <2>1. chunks' = <<>> /\ off' = 0
    BY <1>5 DEF send, Idle, Closed
  <2> QED BY <2>1, <1>3 DEF EndOf
<1>6. CASE DropSocket \/ SendEnds
  BY <1>6, <1>3 DEF DropSocket, SendEnds, EndOf
<1>7. CASE \/ \E r \in Remotes : connect(r)
           \/ \E n \in Lengths : recv(n)
           \/ Completes \/ PeerSends \/ HostSegment
  BY <1>7, <1>2 DEF connect, recv, Completes, PeerSends, HostSegment, Arrives,
     setup, build
<1>8. CASE UNCHANGED vars
  BY <1>8, <1>2 DEF vars, udp, setup, build
<1> QED BY <1>1, <1>4, <1>5, <1>6, <1>7, <1>8 DEF Next

\* What a frame that parses is: a whole datagram of the remote.
LEMMA Parses ==
  ASSUME SetupInv, at = "open", NEW f \in Frames, parse(f) # None
  PROVE  /\ f.proto = "udp" /\ f.from = remote
         /\ f.sent \in Nat /\ f.sent <= max_udp_payload
         /\ parse(f) = f.sent
<1>1. /\ f.proto = "udp" /\ f.from = remote
      /\ UDP_HDR <= f.udp /\ f.udp <= f.ip - IP_HDR
      /\ parse(f) = f.udp - UDP_HDR
  BY DEF parse
<1>2. PICK r \in Remotes, n \in Lengths : f = Datagram(r, n)
  <2>1. ASSUME NEW r \in Remotes PROVE Segment(r).proto # "udp"
    BY DEF Segment
  <2> QED BY <1>1, <2>1 DEF Frames
<1>3. n \in Nat /\ max_udp_payload \in Nat /\ conf.mtu = max_udp_payload + 28
  BY OpenMtu
<1>4. f.sent = n /\ f.udp = 8 + n
  BY <1>2 DEF Datagram, UDP_HDR
<1>5. ASSUME n > max_udp_payload PROVE FALSE
  <2>1. f.ip = 20 + ((conf.mtu - 20) \div 8) * 8
    BY <1>2, <1>3, <1>5 DEF Datagram, IP_HDR
  <2>2. ((conf.mtu - 20) \div 8) * 8 <= conf.mtu - 20
          /\ ((conf.mtu - 20) \div 8) * 8 \in Nat
    BY <1>3
  <2> QED BY <1>1, <1>3, <1>4, <1>5, <2>1, <2>2 DEF IP_HDR
<1> QED BY <1>1, <1>3, <1>4, <1>5 DEF UDP_HDR

LEMMA NextReceived ==
  ASSUME SetupInv, UdpTypes, Closed, Received, [Next]_vars
  PROVE  Received'
<1>1. CASE UNCHANGED <<conf, got>>
  BY <1>1 DEF Received, AtMost, max_udp_payload
<1>2. CASE got' = None
  BY <1>2 DEF Received
<1>3. CASE \E b \in Lengths : recv(b)
  <2>1. PICK b \in Lengths : recv(b)
    BY <1>3
  <2> DEFINE f == Head(rx)
             p == parse(f)
             n == IF p = None THEN 0 ELSE AtMost(p, b)
  <2>2. /\ at = "open" /\ rx # <<>> /\ conf' = conf
        /\ got' = IF n = 0 THEN None
                  ELSE [n |-> n, cap |-> b, of |-> f, on |-> remote]
    BY <2>1 DEF recv, Idle, setup, build
  <2>3. f \in Frames
    BY <2>2 DEF UdpTypes
  <2>4. CASE p = None
    BY <2>2, <2>4, <1>2
  <2>5. CASE p # None
    <3>1. /\ f.proto = "udp" /\ f.from = remote /\ f.sent <= max_udp_payload
          /\ n = AtMost(f.sent, b)
      BY <2>2, <2>3, <2>5, Parses
    <3> HIDE DEF f, n, p
    <3>2. CASE got' = [n |-> n, cap |-> b, of |-> f, on |-> remote]
      <4>1. got'.n = n /\ got'.cap = b /\ got'.of = f /\ got'.on = remote
        BY <3>2
      <4>2. max_udp_payload' = max_udp_payload
        BY <2>2, FramesKept
      <4> QED BY <3>1, <4>1, <4>2 DEF Received, AtMost
    <3> QED BY <2>2, <3>2, <1>2
  <2> QED BY <2>4, <2>5
<1>4. CASE SetupNext /\ UNCHANGED udp
  <2>1. CASE at = "open"
    BY <1>4, <2>1, OpenStays, <1>1 DEF udp
  <2>2. CASE at # "open"
    BY <1>4, <2>2, <1>2 DEF udp, Closed
  <2> QED BY <2>1, <2>2
<1>5. CASE DropSocket \/ (\E r \in Remotes : connect(r)) \/ (\E n \in Lengths : send(n))
  BY <1>5, <1>2 DEF DropSocket, connect, send
<1>6. CASE Chunk \/ SendEnds \/ Completes \/ PeerSends \/ HostSegment
  BY <1>6, <1>1 DEF Chunk, SendEnds, Completes, PeerSends, HostSegment, Arrives,
     setup, build
<1>7. CASE UNCHANGED vars
  BY <1>7, <1>1 DEF vars, udp, setup, build
<1> QED BY <1>3, <1>4, <1>5, <1>6, <1>7 DEF Next

LEMMA InitUdpInv == Init => UdpInv
<1> SUFFICES ASSUME Init PROVE UdpInv
  OBVIOUS
<1>1. SetupInv
  BY InitSetupInv DEF Init
<1>2. <<>> \in Seq(Chunks) /\ <<>> \in Seq(Frames) /\ Len(<<>>) = 0
  OBVIOUS
<1>3. UdpTypes /\ Closed
  BY <1>2, UdpAssumption DEF Init, UdpTypes, Closed
<1>4. Chunked /\ Received
  BY DEF Init, Chunked, Received
<1> QED BY <1>1, <1>3, <1>4 DEF UdpInv

LEMMA UdpInvariant == Spec => []UdpInv
<1>1. UdpInv /\ [Next]_vars => UdpInv'
  BY NextIsSetupStep, StepSetupInv, NextUdpTypes, NextClosed, NextChunked,
     NextReceived DEF UdpInv
<1> QED BY <1>1, InitUdpInv, PTL DEF Spec

-----------------------------------------------------------------------------
(* 3. Theorems *)

\* Everything that waits in RX is a segment or a datagram as the link delivers
\* it, and no step of construction, sending or receiving leaves its range.
THEOREM UdpTypeCorrect == Spec => []TypeOK
<1>1. UdpInv => TypeOK
  <2> SUFFICES ASSUME UdpInv PROVE TypeOK
    OBVIOUS
  <2>1. SetupTypeOK /\ UdpTypes
    BY DEF UdpInv, SetupInv
  <2>2. \A i \in DOMAIN chunks : chunks[i] \in [off : Nat, len : Nat, frame : Nat]
    <3>1. \A i \in DOMAIN chunks : chunks[i] \in Chunks
      BY <2>1 DEF UdpTypes
    <3> QED BY <3>1, Zenon DEF Chunks
  <2>3. ASSUME NEW f \in Frames
        PROVE  f = Segment(f.from) \/ f = Datagram(f.from, f.sent)
    <3>1. ASSUME NEW r PROVE Segment(r).from = r
      BY DEF Segment
    <3>2. ASSUME NEW r, NEW n
          PROVE  Datagram(r, n).from = r /\ Datagram(r, n).sent = n
      BY DEF Datagram
    <3> QED BY <3>1, <3>2 DEF Frames
  <2>4. \A i \in DOMAIN rx : rx[i] \in Frames
    BY <2>1 DEF UdpTypes
  <2> QED BY <2>1, <2>2, <2>3, <2>4 DEF TypeOK, UdpTypes
<1> QED BY <1>1, UdpInvariant, PTL

\* The queue is ours exactly while an Xsk value is bound to it, after any
\* sequence of constructions, failures and Drops (Drop for Xsk and Ring,
\* socket.rs:919 and 1212).
THEOREM QueueReleased == Spec => []QueueHeld
<1>1. UdpInv => QueueHeld
  BY DEF UdpInv, SetupInv
<1> QED BY <1>1, UdpInvariant, PTL

\* What a failed construction loses is exactly what the failing step says, and
\* only failures between the UMEM's registration and the last ring's mapping
\* lose anything (socket.rs:981-1030).
THEOREM LeakExact == Spec => []LeakBound
<1>1. UdpInv => LeakBound
  BY DEF UdpInv, SetupInv
<1> QED BY <1>1, UdpInvariant, PTL

\* The attachment's guard knows the kernel's mode, and a zero-copy socket sits
\* on a generic attachment only where a native driver refused (attach_xdp,
\* socket.rs:447).
THEOREM AttachmentFeeds == Spec => []Fed
<1>1. UdpInv => Fed
  BY DEF UdpInv, SetupInv
<1> QED BY <1>1, UdpInvariant, PTL

\* For every MTU and every page size from 4 to 64 KiB: a frame holds the link's
\* largest packet, tiles the pages, is a power of two and as small as can be;
\* huge pages only where they divide the UMEM (frame_size_for, map_umem).
THEOREM GeometryRight == Spec => []Geometry
<1>1. UdpInv => Geometry
  BY SetupGeometry DEF UdpInv
<1> QED BY <1>1, UdpInvariant, PTL

\* The chunks of a send are the buffer, whatever its length, the link and the
\* state of the TX pool; none outgrows its UMEM frame (Socket::send and
\* Framing::build, socket.rs:326 and 787).
THEOREM ChunksAreTheBuffer == Spec => []ChunksFit
<1>1. UdpInv => ChunksFit
  <2> SUFFICES ASSUME UdpInv PROVE ChunksFit
    OBVIOUS
  <2>1. chunks \in Seq(Chunks) /\ DOMAIN chunks = 1 .. Len(chunks)
    BY DEF UdpInv, UdpTypes
  <2>2. ASSUME NEW i \in 1 .. Len(chunks)
        PROVE  chunks[i].frame \in Nat /\ chunks[i].frame <= frame_size
    <3>1. at = "open" /\ Values /\ Sized /\ conf.mtu \in Nat
      <4>1. chunks # <<>>
        BY <2>1
      <4>2. at = "open"
        BY <4>1 DEF UdpInv, Closed
      <4> QED BY <4>2, OpenMtu DEF UdpInv, SetupInv, SetupTypeOK, Values
    <3>2. /\ ETH_HDR_LEN + conf.mtu <= frame_size /\ frame_size \in Nat
      BY <3>1, FrameSizeHere
    <3>3. chunks[i].frame <= ETH_HDR_LEN + conf.mtu
      BY DEF UdpInv, Chunked
    <3>4. chunks[i].frame \in Nat
      <4>1. chunks[i] \in Chunks
        BY <2>1
      <4> QED BY <4>1 DEF Chunks
    <3> QED BY <3>1, <3>2, <3>3, <3>4 DEF ETH_HDR_LEN
  <2>3. Chunked
    BY DEF UdpInv
  <2> QED BY <2>1, <2>2, <2>3 DEF ChunksFit, Chunked, EndOf
<1> QED BY <1>1, UdpInvariant, PTL

\* What recv delivers is a whole datagram of the remote of that moment, cut to
\* the caller's buffer at most: never a fragment, padding, a TCP segment or an
\* earlier remote's (Framing::parse, UdpPlane::recv_into), for every MTU.
THEOREM DeliversDatagrams == Spec => []Received
<1>1. UdpInv => Received
  BY DEF UdpInv
<1> QED BY <1>1, UdpInvariant, PTL

=============================================================================
