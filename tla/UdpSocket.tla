------------------------------ MODULE UdpSocket ------------------------------
(***************************************************************************)
(* A UDP socket from construction to Drop: what Socket::send makes of a    *)
(* buffer (chunks, UdpPlane::send, Framing::build) and what recv makes of  *)
(* a frame (UdpPlane::recv_into, Framing::parse), in the frames XskSetup   *)
(* laid out for the link.                                                  *)
(*                                                                         *)
(* Bytes are counted, not kept: a chunk is where it starts in the buffer   *)
(* and how long it is, a frame what its headers say and how long it is.    *)
(***************************************************************************)
EXTENDS XskSetup, Sequences

CONSTANTS
  Remotes, \* endpoints a caller may connect to
  POOL,    \* TX frames
  RX_CAP,  \* bound: frames waiting in RX
  Short,   \* small lengths to try, next to those around a full datagram
  None

ASSUME UdpAssumption ==
  /\ POOL \in Nat /\ RX_CAP \in Nat
  /\ Short \subseteq Nat
  /\ None \notin Remotes

VARIABLES
  remote, \* Framing.remote
  flows,  \* config_map: the remotes whose packets are redirected to us
  free,   \* frames of the TX pool that are free or back in COMPLETION
  buf,    \* length of the buffer being sent, 0 between calls of send
  off,    \* how much of it has been cut into chunks
  chunks, \* those chunks, with what became of each
  rx,     \* frames in the RX ring
  got     \* what the last call, a recv, delivered, or None

udp == <<remote, flows, free, buf, off, chunks, rx, got>>
vars == <<setup, udp>>

IP_HDR == 20
UDP_HDR == 8
XDP_PACKET_HEADROOM == 256 \* what the kernel keeps free at the head of a frame
ETH_MIN == 60 \* the shortest frame a network delivers: shorter ones are padded

AtMost(a, b) == IF a < b THEN a ELSE b

max_udp_payload == conf.mtu - UDP_OVERHEAD
Lengths == Short \cup {max_udp_payload, max_udp_payload + 1,
                        2 * max_udp_payload + 1}

Init ==
  /\ SetupInit
  /\ remote = None /\ flows = {} /\ free = POOL
  /\ buf = 0 /\ off = 0 /\ chunks = <<>> /\ rx = <<>> /\ got = None

\* No call of the socket is under way.
Idle == at = "open" /\ buf = 0

-----------------------------------------------------------------------------
(* Socket::connect and Drop *)

\* A second connect replaces the remote; the first flow stays tracked.
connect(r) ==
  /\ Idle
  /\ flows' = flows \cup {r} /\ remote' = r /\ got' = None
  /\ UNCHANGED <<setup, free, buf, off, chunks, rx>>

\* Drop forgets the last remote's flow only.  The kernel may give a later
\* socket the port of this one, and then it gets what the others bring in.
DropSocket ==
  /\ Idle /\ Drop
  /\ remote' = None /\ flows' = flows \ {remote} /\ free' = POOL
  /\ buf' = 0 /\ off' = 0 /\ chunks' = <<>> /\ rx' = <<>> /\ got' = None

-----------------------------------------------------------------------------
(* Sending *)

\* Framing::build returns the length of the frame it wrote.
build_frame(len) == ETH_HDR_LEN + UDP_OVERHEAD + len

\* send of n bytes; an empty buffer or no remote returns at once.
send(n) ==
  /\ Idle /\ remote # None /\ n > 0
  /\ buf' = n /\ got' = None
  /\ UNCHANGED <<setup, remote, flows, free, off, chunks, rx>>

\* Mutant: chunks of a whole MTU.
Chunk_Mtu ==
  LET len == AtMost(conf.mtu, buf - off) IN
  /\ off < buf /\ free > 0
  /\ chunks' = Append(chunks, [off |-> off, len |-> len,
                               frame |-> build_frame(len)])
  /\ free' = free - 1 /\ off' = off + len
  /\ UNCHANGED <<setup, remote, flows, buf, rx, got>>

\* Mutant: a frame is taken without asking the pool.
Chunk_Unasked ==
  LET len == AtMost(max_udp_payload, buf - off) IN
  /\ off < buf
  /\ chunks' = Append(chunks, [off |-> off, len |-> len,
                               frame |-> build_frame(len)])
  /\ free' = free - 1 /\ off' = off + len
  /\ UNCHANGED <<setup, remote, flows, buf, rx, got>>

\* UdpPlane::send of the next chunk; without a frame it is dropped, which the
\* frame length 0 records.
Chunk ==
  LET len == AtMost(max_udp_payload, buf - off) IN
  /\ off < buf
  /\ chunks' = Append(chunks, [off |-> off, len |-> len,
                               frame |-> IF free > 0 THEN build_frame(len) ELSE 0])
  /\ free' = IF free > 0 THEN free - 1 ELSE 0
  /\ off' = off + len
  /\ UNCHANGED <<setup, remote, flows, buf, rx, got>>

\* kick_tx, and Sent(buf.len()).
SendEnds ==
  /\ buf > 0 /\ off = buf
  /\ buf' = 0 /\ off' = 0 /\ chunks' = <<>>
  /\ UNCHANGED <<setup, remote, flows, free, rx, got>>

\* The driver has sent a frame.
Completes ==
  /\ at = "open" /\ free < POOL
  /\ free' = free + 1
  /\ UNCHANGED <<setup, remote, flows, buf, off, chunks, rx, got>>

-----------------------------------------------------------------------------
(* The network and the kernel.  A frame that arrives while send runs waits *)
(* in RX as one that arrives before or after does, so arrivals are between *)
(* calls.                                                                  *)

Arrives(f) ==
  /\ Idle /\ xdp # "none" /\ f.from \in flows /\ Len(rx) < RX_CAP
  /\ f.len <= frame_size - XDP_PACKET_HEADROOM
  /\ rx' = Append(rx, f)
  /\ UNCHANGED <<setup, remote, flows, free, buf, off, chunks, got>>

\* A datagram of n bytes.  One that fits the link arrives whole, padded to the
\* shortest Ethernet frame.  Of one that does not, the first fragment arrives:
\* its IP length is a fragment's, its UDP length the whole datagram's.
Datagram(r, n) ==
  LET whole == n <= max_udp_payload
      ip == IF whole THEN UDP_OVERHEAD + n
            ELSE IP_HDR + ((conf.mtu - IP_HDR) \div 8) * 8
  IN  [from |-> r, proto |-> "udp", sent |-> n, udp |-> UDP_HDR + n, ip |-> ip,
       len |-> AtLeast(ETH_HDR_LEN + ip, ETH_MIN)]

\* A TCP segment with the flow's ports: the flow's key has no protocol.  Where a
\* datagram has its UDP length it has part of its sequence number.
Segment(r) ==
  [from |-> r, proto |-> "tcp", sent |-> 0, udp |-> 20, ip |-> IP_HDR + 20,
   len |-> ETH_MIN]

PeerSends == \E r \in Remotes, n \in Lengths : Arrives(Datagram(r, n))

HostSegment == \E r \in Remotes : Arrives(Segment(r))

-----------------------------------------------------------------------------
(* Receiving *)

\* Mutant: the XDP program is trusted to have chosen the remote.
parse_AnyRemote(f) ==
  IF f.proto = "udp" /\ f.udp <= f.ip - IP_HDR THEN f.udp - UDP_HDR ELSE None

\* Framing::parse: the length of the payload, or None for a frame that is not a
\* whole datagram of the remote.
parse(f) ==
  IF /\ remote # None
     /\ f.ip <= f.len - ETH_HDR_LEN
     /\ f.proto = "udp" /\ f.from = remote
     /\ UDP_HDR <= f.udp /\ f.udp <= f.ip - IP_HDR
  THEN f.udp - UDP_HDR ELSE None

\* recv into a buffer of b bytes, of a frame that is there.  The frame goes
\* back whatever it was; nothing is delivered of one that does not parse, and
\* of an empty datagram.
recv(b) ==
  LET p == parse(Head(rx))
      n == IF p = None THEN 0 ELSE AtMost(p, b)
  IN  /\ Idle /\ remote # None /\ b > 0 /\ rx # <<>>
      /\ rx' = Tail(rx)
      /\ got' = IF n = 0 THEN None
                ELSE [n |-> n, cap |-> b, of |-> Head(rx), on |-> remote]
      /\ UNCHANGED <<setup, remote, flows, free, buf, off, chunks>>

-----------------------------------------------------------------------------

Next ==
  \/ SetupNext /\ UNCHANGED udp
  \/ DropSocket
  \/ \E r \in Remotes : connect(r)
  \/ \E n \in Lengths : send(n) \/ recv(n)
  \/ Chunk \/ SendEnds \/ Completes
  \/ PeerSends \/ HostSegment

Spec == Init /\ [][Next]_vars

-----------------------------------------------------------------------------

TypeOK ==
  /\ SetupTypeOK
  /\ remote \in Remotes \cup {None} /\ flows \subseteq Remotes
  /\ free \in 0 .. POOL /\ buf \in Nat /\ off \in 0 .. buf
  /\ \A i \in DOMAIN chunks : chunks[i] \in [off : Nat, len : Nat, frame : Nat]
  /\ Len(rx) <= RX_CAP
  /\ \A i \in DOMAIN rx : rx[i] = Segment(rx[i].from)
                            \/ rx[i] = Datagram(rx[i].from, rx[i].sent)

\* The chunks of a send are the buffer: each starts where the one before it
\* ends, none is empty, only the last is short, and at the end nothing is left
\* over.  What is built of one is no longer than the UMEM frame it is built
\* in, nor than the link takes (Socket::send and Framing::build,
\* socket.rs:326 and 787).
ChunksFit ==
  LET End(i) == IF i = 0 THEN 0 ELSE chunks[i].off + chunks[i].len IN
  /\ \A i \in DOMAIN chunks :
       /\ chunks[i].off = End(i - 1) /\ chunks[i].len > 0
       /\ i < Len(chunks) => chunks[i].len = max_udp_payload
       /\ chunks[i].frame <= frame_size
       /\ chunks[i].frame <= ETH_HDR_LEN + conf.mtu
  /\ buf > 0 => End(Len(chunks)) = off

\* What recv delivers is a datagram the remote of that moment sent, whole or
\* cut to the caller's buffer: not a fragment, not padding, not a segment of
\* the host's TCP, and not what an earlier remote left in RX (Framing::parse,
\* UdpPlane::recv_into; spec.md:162 and 173).
Received ==
  got # None =>
    /\ got.of.proto = "udp" /\ got.of.from = got.on
    /\ got.of.sent <= max_udp_payload
    /\ got.n = AtMost(got.of.sent, got.cap)

=============================================================================
