# xskip: a TLA+ verification of the socket

xskip is an AF_XDP socket shaped like a UNIX socket: packets of registered flows
are redirected by an XDP program into userspace memory, where smoltcp (TCP) or a
few header structs (UDP) unwrap them. This directory models the parts of it that
tests can hardly reach, namely the lock-free rings shared with the kernel, the
wakeup protocol, construction that fails half-way, the maps several sockets
share, the TCP calls that only make progress when the caller polls, the framing
of UDP at the edges of the link and the benchmark's loop around all of it. It
checks them with TLC, and proves with TLAPS every safety property the runs check
and the refinement of the ring layer, for all values of the constants.

Paths below are relative to the repository; `socket.rs` is `src/socket.rs`.

## 1. Inventory

| Component | State | Operations | Talks to | What is hard | What makes it correct |
|---|---|---|---|---|---|
| Rings and UMEM (`Xsk`, `Ring`) | four rings of descriptors with u32 indices, `tx_free`, frame contents | bootstrap, `rx_peek`, `recycle`, `tx_alloc`, `reclaim_comp`, `tx_submit` | the driver, through shared memory | interleaving at every shared access; no producer checks for room; indices wrap; lazy reclaim | each frame in one place; no live descriptor overwritten; no frame changed under the driver; packets in order |
| Wakeups | `tx_pending`, the need-wakeup flags | `kick_tx`, `kick_rx` | the driver, by system call | the flag is read while the driver parks; store/load order | no frame waits for a parked driver; FILL is not starved |
| Socket lifecycle | `Socket` fields, `config_map`, `xsks_map`, the port's descriptor | `new`, `connect`, `Drop`, `attach_xdp` and its guard | kernel maps, port allocator, other sockets, the host's own sockets | construction failing half-way; two sockets on one skeleton; drop order | a flow's packets reach its socket and nobody else's do |
| XDP program | none of its own | `xdp_redirect_flow` per packet | the maps | runs between any two map updates | redirects exactly the tracked flows |
| TCP plane | smoltcp's socket, the cached clock | `start_connect`, `poll_connect`, `send`, `recv`, `close`, `poll` | smoltcp, the rings | progress only by polling; timers seen on one poll in 32; half-closed connections; loss | streams intact; calls eventually answered |
| smoltcp device | two tokens | `receive`, `transmit`, `consume` | rings, smoltcp | sends from inside a receive; kicks only at the end of a pass; panics on an empty pool | the pool lasts for a pass; nothing is left behind a sleeping driver |
| Construction, attachment | what `Xsk::new` holds so far, the attached mode | `attach_xdp`, `Socket::new`, `Xsk::new`, `map_umem`, the `Drop`s | kernel, driver, another process on the queue | any system call may fail; three ways of releasing | the queue is not left taken; leaks are bounded; zero-copy gets a native attachment |
| Frame geometry | none | `frame_size_for`, `map_umem` | `Xsk::new`, `send` | boundaries | a packet fits its frame, frames tile pages |
| UDP plane, framing | `Framing` | `send`, `recv_into`, `build`, `parse` | rings | chunk and frame sizes; padding, fragments, stale remotes | chunks are the buffer; only whole datagrams of the remote are delivered |
| Benchmark consumer, peer | counters, idle clock | connect / consume / echo / chunk loops | the socket, a kernel socket | loops on `Ok(0)`; sampled clock; slices as messages | ends, counts right |

Everything in the socket runs on the caller's thread. The concurrency is with
the driver (rings, flags), with other processes and sockets (maps, ports) and with
the network.

`PROJECT.json` lists the components, the hazards with their source lines, the
correspondence of definitions to lines and what each run checks.

## 2. Modules

| Module | Models |
|---|---|
| `XskService` | abstract: a FIFO of received payloads and a set of outgoing ones |
| `XskRings` | `Xsk`, `Ring`, the tokens; implements `XskService` (`Service`) |
| `XskRingsProofs` | theorems about `XskRings` |
| `XskServiceProofs` | the refinement `Service`, on top of `XskRingsProofs` |
| `XskWakeup` | `tx_pending`, `kick_tx`, `kick_rx` and a driver that parks |
| `XskPlanes` | who calls `XskWakeup`'s operations: `TcpPlane::poll` with `XskDevice` and its tokens, `Socket::send`, `recv_into`; extends `XskWakeup` |
| `XskSetup` | `attach_xdp`, `Xsk::new` call by call, `frame_size_for`, `map_umem`, the `Drop`s |
| `UdpSocket` | a UDP socket built by `XskSetup`: `connect`, `send`, `recv`, `Framing`; extends it |
| `Sockets` | `Socket::new`, `connect`, `Drop`, `PortReservation`, `attach_xdp`, the XDP program |
| `TcpPlane` | `TcpPlane` and the TCP arms of the socket calls |
| `Bench` | `bench.rs`'s `main` and `Sock` |
| `XskPlanesProofs`, `SocketsProofs`, `TcpPlaneProofs`, `BenchProofs` | theorems about the module of that name; the first also about `XskWakeup` |
| `XskSetupProofs`, `UdpSocketProofs` | lemmas about `XskSetup`, and the theorems about it and `UdpSocket` |
| `MC*` | the same modules for TLC |

### XskRings

A ring is a record of its shared words (`producer`, `consumer`, `desc`) and the
private `cached` index. User functions are split where the kernel can observe
them: `rx_peek` is `RxPeek` (copy the descriptor) and `RxRelease` (store the
consumer index); `recycle` is `Recycle` and `FillPublish`; `tx_submit` is `TxSubmit`
and `TxPublish`; `reclaim_comp` is `ReclaimLoad`, `ReclaimOne` for each turn of the
loop and `ReclaimStore`. `pc` says which access comes next; `held`, `got`, `txaddr`,
`prod` and `cons` are the callers' locals. With `proto = "tcp"` a packet may be
sent while a received frame is in hand, as smoltcp does inside `RxToken::consume`,
and an empty pool ends in the state `panicked`; with `"udp"` the datagram is dropped.
The Acquire and Release orderings make each index store publish the descriptors
written before it, which is why one step per access, in program order, is enough
here; the pair that is *not* ordered (index store, flag load) is in `XskWakeup`.

The kernel actions are what a driver may do: take frames from FILL, fill them
and produce RX when it has room, take TX descriptors, complete them in any order.
Received addresses point `Headroom` bytes into the frame, so `frame_base` matters.

### XskWakeup

Frames are counted. `stored` and `fstored` are index stores that have not left the
core's store buffer; a system call empties it. The driver raises its flag, looks
again and parks. `Lowers` says whether it lowers the flag while it runs;
`zerocopy = FALSE` is copy mode, where `sendto` itself transmits at most `BATCH` frames.

### XskPlanes

`call` is where the caller is. A TCP call ends in `TcpPlane::poll`: `PollStart`, then
`Receive` (with its `kick_rx`), `Peek`, perhaps `Answer` from inside the token, and
`GiveBack` for every frame RX has; then `Transmit` as long as smoltcp has something
to send; then `PollKick` and `PollEnd`. A UDP call is `SendStart`, a `Chunk` per datagram
and `SendKick`, or `RecvStart` and `RecvEnd`. smoltcp is two numbers: the segments a
peer may send before it hears from us (`WINDOW`) and those the send buffer may
become (`SEGS`). A TCP socket without a free frame panics, a UDP socket drops.

### XskSetup and UdpSocket

`at` is the system call of `Socket::new` that comes next and `held` what the
construction owns. An error ends it through `Ends`, which is told what is released
on that path: what a `Drop` releases (`DropXsk`, `DropRing`), what is closed by hand, or
nothing; the rest is `lost`. The kernel keeps a bound socket, and with it the queue,
while its descriptor is open *or a ring of it is mapped*. A driver has native XDP
and zero-copy or not; which attach modes work at a given moment is up to it
(`works`), and it may refuse native mode although it has it (`denied`, an auxiliary
variable). `Attach` takes the first of `attach_modes`, in the loop's order, that
works. The caller may construct again. Sizes are the real ones.

`UdpSocket` cuts a buffer into chunks, each a start and a length, and gives each a
TX frame or drops it. A received frame is what its headers say: IP length, UDP
length, protocol, sender, and its own length. The network pads short frames,
delivers the first fragment of a datagram that is too long, and the XDP program
also redirects TCP segments with the flow's ports (its key has no protocol). Later
fragments have no ports and are taken not to match a flow. Frames longer than
a UMEM frame less the kernel's headroom do not arrive.

### Sockets

One step per system call. `at` is where a socket is in its life; construction can
fail at `xsks_map` (a queue without a slot) and at the port, and `Drop` is the body of
`Socket::drop` followed by the fields in declaration order. `Reserved` is what the
host's allocator will not give away, separately per protocol. `xdp_redirect_flow`
gives the socket a packet is redirected to, or `None` for `XDP_PASS`. The host has one
address, so a flow is a remote endpoint and a local port. `connect` inserts the flow
(`AddFlow`) and then asks smoltcp (`StartConnect`), which refuses while the connection
is open and for a remote in `Unaddressable` (port 0 or 0.0.0.0); only a connect that
is not refused sets `remote`, which is all that `Drop` goes by. `stray` is auxiliary:
the flows whose record was lost that way. When an AF_XDP
descriptor is closed the kernel unbinds the queue and removes it from the map.

### TcpPlane

The smoltcp socket is a record: connection state, unacknowledged items, how many
of them were sent, receive buffer. `Polled` folds the arrived segments over it
(`Ingress`) and then sends everything. Its timer runs in real time but is acted on only by the
poll that reads the clock (`now`). When TIME-WAIT expires smoltcp resets the socket
and its buffers with it (`Reset`), while an RST and the end of LAST-ACK leave what was
received to be read (`Closed`); `cut`, auxiliary, counts the bytes that a reset threw
away. What we send can be lost and is then sent again
by the timer; what the peer sends arrives in order, as a kernel TCP makes it. The
caller may make any call at any time after `connect`; `connect` is called once.

### Bench

`pc` is where `main` is: `connect`, `control` (send_all of the control message), `chunk`,
`loop`, `got` (a message in hand, being echoed). Time is kept as ages: `waited` since
connect, `since` since the `last` of the code, and `quiet`, which the code does not
have, since a message came. `unsampled`, auxiliary too, counts the messages since
`last` was read. The socket is what the loop sees of it: our `recv`
returns at once and reports a reset but not a FIN (see `tcp_end`), our `send` returns
`Ok(0)` when nothing is taken; the kernel's calls wait, and fail after a reset,
over TCP when what was queued is read. The peer waits for the control message,
blasts or plays ping-pong and may leave.

## 3. Runs

Constants are small; each bound is chosen so that the case a property is about
happens.

| Run | Instance | Checks |
|---|---|---|
| `rings_rx` | UDP, 2 RX + 1 TX frames, rings of 2/2/1, indices mod 4, 2 payloads | `TypeOK`, `FrameOwnership`, `NoOverwrite`, `Service`, `RxFrameReturns` |
| `rings_tx` | TCP, 1 RX + 2 TX frames, indices mod 4, 2 payloads | `IInv`, `CompletionRoom`, `WireStable`, `Service` |
| `planes` | both planes and both bind modes, 3 TX and 2 RX frames, windows that a full pool covers | `Handed`, `HandedOver`, `PanicBound`, `TxServed`, `FillServed` |
| `sockets_life` | 2 TCP sockets, 3 queues of which the map has 2, 2 ports, 3 entries for flows, 2 connects each to two remotes and an unaddressable one | `Delivered`, `RedirectLands`, `HostLosesToStraysOnly`, `OrphansAreStray` |
| `tcp_stream` | 3 bytes out through a buffer of 2, 3 bytes in, read by 2 at a time, clock read every 2nd poll, FIN and RST | `StreamOut`, `StreamIn`, `EndIsComplete` |
| `tcp_live` | 2 bytes out through a buffer of 1, FIN and RST | `HandshakeEnds`, `TakenArrives`, `ResetReported` |
| `udp_socket` | MTUs 28, 29, 1500, 2034, 2035, 9000 on pages of 4 and 16 KiB, three kinds of driver, 2 remotes, 2 TX frames, buffers of 0, 1, one datagram, one byte more, two datagrams and a byte | `QueueHeld`, `LeakBound`, `Fed`, `Geometry`, `ChunksFit`, `Received` |
| `bench` | all 12 combinations of stack, protocol and mode, 4 messages of 2 bytes, reads of up to 3, clock read every 2nd message and every 2nd empty poll | `Tally`, `ElapsedCovers`, `CutOff`, `EchoWhole`, `Terminates` |

Two frames of a kind are the least with which one can overtake or overwrite the
other; indices modulo 4 with rings of 2 wrap after two rounds, so every alignment
of window and wrap occurs. Three frames in `XskWakeup` leave one unsent behind a
batch of two. Two sockets with two connects each overfill a flow map of three, and
two connects are a first and a repeated one, refused or not; every property of
`Sockets` is about one socket and one other party. In `tcp_stream` the caller's buffer
is smaller than what may wait, so a read leaves something behind for TIME-WAIT to
throw away. The MTUs of `udp_socket` are the last that is
refused and the first that is not, the common one, the two on either side of a
2 KiB frame, and one that only fits large pages; two datagrams and a byte are
three chunks for two TX frames, and one waiting frame is enough because each is
judged on its own. In `bench` reads of one byte are more than there are messages
and reads of three fewer: all eight bytes in three reads are a complete run that ends in the
middle of a batch of two, with fewer reads than COUNT. `rings_tx` and `planes` do not
check for deadlock because TCP may end in the panic of `TxToken::consume`, `bench`
because the program ends.

Every property of a passing run has a mutant in `PROJECT.json`: a plausible slip in
the code (a missing index store, `frame_base` forgotten, a key of the remote alone,
the clock's countdown not run down) under which TLC finds it violated.

### Disagreements found

Four runs are expected to fail; each checks a sentence of the documentation or
of a comment, quoted in `PROJECT.json`.

* `sockets_leak`: a second `connect` to another remote leaves the earlier flow in
  `config_map` after `Drop`, which only knows the last remote. (A connect refused as
  unaddressable leaves its flow as well; `sockets_life` covers it.)
* `sockets_protos`: the flow key has no protocol; the port is reserved for one. TLC's
  trace has a host UDP socket with the port and remote of our TCP flow, whose
  packets are redirected; nothing depends on which of the two is which.
* `wakeup_batch`: `kick_tx` clears `tx_pending` and ignores what `sendto` did; in copy mode
  a call takes a bounded batch and the rest waits until something else is sent.
  The UDP plane kicks only at the end of `send`, so a last large `send` can stay
  partly on the ring.
* `tcp_end`: after the peer's FIN smoltcp is in CloseWait, which is active: `recv`
  returns `None` for ever instead of `Some(0)`.

Others are stated as the exact exception of a property that passes:

* `HandshakeEnds`: if the SYN-ACK and the FIN are seen by one poll, `poll_connect`
  returns `Ok(false)` for ever (spec.md:136 has `Ok(true)` "once the peer answers"); the
  benchmark's deadline then ends its loop (`Terminates`).
* `PanicBound`: a TCP pass kicks at its end only, so it panics when the pool was
  short as it began (spec.md:140: "Backpressure needs no machinery").
* `LeakBound`: an error between the UMEM's registration and the last `Ring::map` leaks
  the UMEM, and the descriptor except for `getsockopt`'s.
* `OrphansAreStray`, `HostLosesToStraysOnly`: the flows `connect` loses the record of (see
  `sockets_leak`) stay, and take the packets of a host connection that gets the port
  later.
* `EndIsComplete`: after our `close`, data that is unread when TIME-WAIT ends is gone and
  `recv` says `Some(0)` all the same (socket.rs:338 has it as the end of stream).
* `Fed`: `attach_xdp` never passes native mode over, but any error of the native
  attach, not only of a driver "without it" (spec.md:32-33), leads to generic mode,
  where a zero-copy socket is deaf. `denied` is this case; `Fed` allows it.
* `Terminates`: `send_all` spins on `Ok(0)` for as long as the connection takes nothing,
  for ever after a reset.
* `CutOff`: a stream of fewer than 64 messages in 500 ms is cut off though the peer
  is not "quiet" (bench.rs:47).
* `ElapsedCovers` bounds what the reported time leaves out and does not say that it
  includes nothing else: a TCP run cut off after COUNT reads or more is timed to the
  clock, with the idle time in it, where bench.rs:280-284 wants "`last`" for the idle
  exit.
* Not a property: with an MTU of 1779 to 2034 the kernel's 256 bytes of headroom keep
  a full packet out of a 2 KiB frame (socket.rs:946 has frames "sized to hold one
  `mtu`-byte packet each"); `Arrives` drops it.

The passing runs stay clear of these on purpose, and say so in their constants:
one protocol in `sockets_life` (with both `Delivered` fails as well, because a TCP and
a UDP socket can share an entry and dropping one cuts off the other), `BATCH` no smaller than the ring and `Lowers = FALSE` in `planes` (with
`Lowers = TRUE` `Handed` fails: the flag can be read before the index store is
visible, the driver parks and no system call is made; this race is in the module,
but no passing run and no theorem claims anything about it).

## 4. Fairness

* `rings_rx`: the user thread finishes the calls it starts (they never block) and
  its loop keeps coming back to `recv` (strong fairness of `RxPeek`, because the loop may
  be sending each time the ring has a packet). Nothing is assumed of the driver.
* `planes`: store buffers drain, a woken driver runs, a call that was begun ends,
  and the caller keeps calling: TCP's every call is a pass, and a UDP caller that
  sends still comes back to `recv` (strong fairness of `RecvStart`, because sends
  compete for the same thread). Nobody is obliged to send.
* `TcpPlane`: the caller polls (`poll_connect` until answered, then `recv`), which the
  API makes its duty; time passes; the network does not lose every retransmission
  and the peer answers and reads (strong fairness of `PeerAnswer` and `PeerTake`).
* `Bench`: `main` runs and time passes. Nothing is assumed of the peer.

## 5. Proofs

Every invariant and action property that a passing run checks, and the refinement
`Service`, is also a theorem: the run shows it on a small instance, the theorem for
every value of the constants that satisfies the named assumptions of its module.

| Module | Theorem | States |
|---|---|---|
| `XskRingsProofs` | `Invariance`, `TypeCorrect` | `[]IInv`, `[]TypeOK` |
| | `Ownership`, `NeverOverwrites`, `CompletionNeverFull` | `[]FrameOwnership`, `[]NoOverwrite`, `[]CompletionRoom` |
| | `WireIntegrity` | the action property `WireStable` |
| `XskServiceProofs` | `RingsImplementService` | `Service`: every step is a step of `XskService` or a stutter |
| `XskPlanesProofs` | `WakeupTypeCorrect`, `PanicOnlyWhenShort` | `[]TypeOK`, `[]PanicBound` |
| | `KickHandsOver`, `PlanesHandOver` | `[]Handed`, `[]HandedOver`, if `OneCallIsEnough` |
| | `CopyModeRemainder` | what holds without the second half of that condition |
| `SocketsProofs` | `SocketsTypeCorrect`, `RedirectsLand` | `[]TypeOK`, `[]RedirectLands` |
| | `FlowsDelivered` | `[]Delivered`, if `OneInterface`, `OneProtocol` |
| | `FlowsOwned` | `[]OrphansAreStray` |
| | `HostKeepsItsPackets` | `[]HostLosesToStraysOnly`, if `OneProtocol` |
| | `DropIsExact` | `[]NoOrphanFlow`, if `OneFlowEach`, `Addressable` |
| | `HostIsUntouched` | `[]HostUntouched`, if `OneProtocol`, `OneFlowEach`, `Addressable` |
| `TcpPlaneProofs` | `TcpInvariant`, `TcpTypeCorrect` | `[]TcpInv`, `[]TypeOK` |
| | `BytesOutInOrder`, `BytesInInOrder`, `EndAfterEverything` | `[]StreamOut`, `[]StreamIn`, `[]EndIsComplete` |
| `UdpSocketProofs` | `UdpTypeCorrect`, `GeometryRight` | `[]TypeOK`, `[]Geometry` |
| | `QueueReleased`, `LeakExact`, `AttachmentFeeds` | `[]QueueHeld`, `[]LeakBound`, `[]Fed` |
| | `ChunksAreTheBuffer`, `DeliversDatagrams` | `[]ChunksFit`, `[]Received` |
| `BenchProofs` | `BenchTypeCorrect`, `ReportTrue`, `TimeCovers`, `GivenUpOnTheQuiet`, `EchoComplete` | `[]TypeOK`, `[]Tally`, `[]ElapsedCovers`, `[]CutOff`, `[]EchoWhole` |

### Assumptions

* Rings: ring sizes are positive and divide the index range more than once (they are
  powers of two and the range is 2^32); there is at least one TX frame and no more
  TX frames than TX entries; the headroom is smaller than a frame. All are met by
  the constants at socket.rs:70-73 (4096 frames, rings of 2048).
* Setup: pages of 4 to 64 KiB, a power of two as everywhere Linux runs, and an MTU
  below 2^30, far beyond any link's; both keep the arithmetic of `frame_size_for` out
  of overflow.
* The other modules assume that their sizes are natural numbers, positive where the
  code's constants are.

Six theorems need conditions that the code does not establish. Each is an
assumption of the theorem, not of the module, and a run shows what happens where
it fails:

* `OneCallIsEnough`: the driver does not lower its flag, and in copy mode one `sendto`
  takes the whole pool (`wakeup_batch` without it);
* `OneProtocol`: sockets and host use one protocol (`sockets_protos`);
* `OneFlowEach`: there is one remote, or a socket connects once (`sockets_leak`);
* `Addressable`: smoltcp refuses no remote as unaddressable, or is not used
  (`sockets_life`, where `stray` gets such flows);
* `OneInterface`: `xsks_map` is keyed by the queue alone, so a second interface with
  the same queue number takes the slot over (no run: the documentation does not
  speak of it).

### Arguments

**Rings.** None of the properties is inductive alone: whether a write hits a
live slot depends on how many frames are elsewhere. `IInv` therefore adds

* `Control`: what `pc` says about the frame in hand, and that RX descriptors point the
  headroom past an RX frame;
* `PrivateFill`, `PrivateTx`: the private index is ahead of the published one exactly
  between the write and the store;
* `Reclaiming`: the locals of `reclaim_comp` lie between COMPLETION's indices, and the
  pool holds just what was copied, because a reclaim begins with an empty pool;
* `RxCount`, `TxCount`: frames are conserved, counted over the places of their cycle;
* `FrameOwnership`: the places are disjoint and no ring holds a frame twice.

From conservation a producer that has a frame in hand finds a free slot: at most
`FILL_SIZE - 1` other RX frames can be in FILL, at most `TX_SIZE - 1` other TX frames in TX.
The lemmas go from arithmetic on wrapping indices (`SlotsDistinct`: two indices on one
slot are a ring apart, also across the wrap) through what a push and a pop do to a
ring's entries (`Push`, `Pop`, `Quiet`) to one lemma per action.

**Refinement.** The inbox is the sequence of payloads behind the window of RX. Its
order survives the wrap (`WaitingPush`, `WaitingPop`), and no step changes a payload
behind the window because the frames there have no other owner. `Carried` says that
what is on the wire was built, and that the user has a payload only with a frame.

**Wakeups and planes.** `Handed` says nothing of the flag `kick_tx` is about to read nor
of stores on their way; `Kicked` adds both. `HandedOver` needs `Marked` (where a call may
be with the mark still set) and `PanicBound` needs `Budget`: what a pass has emitted is
paid for by segments worked off and by the send buffer.

**Sockets.** `Life` says what a socket has at each stage, `Slots` who is in `xsks_map`, `Ports`
and `Hosts` who has which port; with one interface `Registered` (a registered socket
keeps its slot), and `Tracked` and `Owned` on the flows: who tracked a flow still has
it as its remote, or the flow is stray. The steps that matter are the
ones between two system calls of a `Drop` or a `connect`.

**TCP.** A poll processes any number of segments, so the invariant of the socket,
`Sound(s, i, n)`, is stated of socket `s` after the first `i` of the arrived segments and
`n` bytes taken by `send`; `Process` preserves it from `i` to `i + 1` and a poll from `0` to the
end, by induction (`SetInduction`). It says that the send buffer ends at the last byte
taken and begins where the peer's knowledge, less the acknowledgements on their
way, ends (`Sending`, `Acked`); that receive buffer and bytes on their way continue what
`recv` gave (`Receiving`); and what each connection state excludes (`Progress`): in SynSent
the next segment is an answer to the SYN, after the peer's FIN no byte comes, and
an established connection is Closed only when everything was seen. What a reset
threw away is counted between what `recv` gave and what is on its way. `Line` is the
order of what is on its way, and `ShutFirst` says that TIME-WAIT, and with it a reset,
comes only after a `close` of ours.

**UDP and setup.** `SetupInv` ties what is held and lost to the call that comes next;
`NativeFirst` is what the order of `attach_modes` gives an attachment: it is generic
only if native mode did not work then. `Chunked` ties the chunks of a send to its
position in the buffer.

**Bench.** The books of bytes sent, read and owed (`Stream`, `Datagrams`, `Echoed`), two clocks
of which one runs slow (`Clocks`), how many messages it is behind (`Sampled`: the
remainder of `msgs` after whole batches, by division with remainder) and why the
loop ended (`Reason`).

### Only model-checked

The liveness properties `RxFrameReturns`, `TxServed`, `FillServed`, `HandshakeEnds`,
`TakenArrives`, `ResetReported`, `Terminates`: fairness is beyond the prover. The four
expected violations are counterexamples of TLC's.

## 6. Not modelled

Packet bytes beyond what their headers say, checksums (not verified on receive,
spec.md:176) and MAC addresses; fragments after the first; the wording of errors (`umem_reg_error`); argument
parsing, CPU accounting and printing of the benchmark; the readers of interface
index, MAC and MTU, CPU pinning; the build, the harness scripts and the peer's
reports. These keep no state and make no decision the rest depends on. `Sockets` has
interfaces, but every run has one: the documentation does not speak of a second.

## 7. Plan

1. `Drop`'s order as an action property with a theorem: a port is released only after
   its flow has left `config_map`.
2. A run of `Sockets` with two interfaces (`Iface` is a parameter), as a boundary of the
   supported use; the theorems say already which promises need `OneInterface`.
