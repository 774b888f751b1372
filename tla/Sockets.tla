------------------------------- MODULE Sockets -------------------------------
(***************************************************************************)
(* The life of sockets built against one loaded BPF skeleton (socket.rs:   *)
(* Socket::new, connect, Drop, PortReservation, attach_xdp) and the XDP    *)
(* program that decides, packet by packet, whether a socket or the host's  *)
(* own network stack gets it (xskip.bpf.c).                                *)
(*                                                                         *)
(* What sockets share lives in the kernel: config_map (the flows to        *)
(* redirect), xsks_map (the socket of each queue), the AF_XDP pool of each *)
(* interface queue, and the host's port allocator.  Every system call on   *)
(* one of them is a step; other sockets and the host's own processes act   *)
(* between any two.  The host has one address, our_ip, so a flow is a      *)
(* remote endpoint and a local port.                                       *)
(***************************************************************************)
EXTENDS Naturals, FiniteSets

CONSTANTS
  Sock,         \* Socket values a program may construct
  Iface,        \* interfaces, all served by the one skeleton
  Queue,        \* RX queue ids, numbers
  Port,         \* local ports
  Remote,       \* remote endpoints
  Unaddressable,\* those among them with port 0 or address 0.0.0.0
  Protos,       \* the protocols in use on this host
  MAX_FLOWS,    \* max_entries of config_map
  MAX_XSKS,     \* max_entries of xsks_map: the queue ids it has a slot for
  MAX_CONNECTS, \* bound: calls of connect in the life of one socket
  None

ASSUME ConstantsAssumption ==
  /\ Queue \subseteq Nat
  /\ Protos \subseteq {"tcp", "udp"} /\ Unaddressable \subseteq Remote
  /\ MAX_FLOWS \in Nat /\ MAX_XSKS \in Nat /\ MAX_CONNECTS \in Nat
  /\ None \notin Sock \cup Remote \cup Port \cup Iface

VARIABLES
  at,         \* where each socket is in its life
  cfg,        \* its Config and protocol
  port,       \* the port number it was given
  fd,         \* does it hold the port's AF_INET descriptor?
  remote,     \* Socket.remote
  target,     \* the remote of a connect under way
  tcp_open,   \* is its smoltcp socket open (neither Closed nor TimeWait)?
  connects,   \* calls of connect so far
  config_map, \* the flows to redirect
  stray,      \* auxiliary: flows a connect inserted and no Socket.remote names
  xsks_map,   \* the socket of each queue id
  pool,       \* kernel: the AF_XDP socket bound to each interface queue
  attached,   \* the interfaces running the XDP program
  host        \* kernel: connections of the host's own sockets

own  == <<at, cfg, port, fd, remote, target, tcp_open, connects>>
vars == <<own, config_map, stray, xsks_map, pool, attached, host>>

Config == [iface : Iface, queue : Queue, proto : Protos]

\* Mutant: a key of the remote endpoint alone.
flow_key_RemoteOnly(r, n) == [remote |-> r, port |-> None]

flow_key(r, n) == [remote |-> r, port |-> n]
Flows == {flow_key(r, n) : r \in Remote, n \in Port}
HostConns == [proto : Protos, remote : Remote, port : Port]

\* Ports the allocator of protocol p will not give away again.
Reserved(p) ==
  {port[s] : s \in {t \in Sock : fd[t] /\ cfg[t].proto = p}}
    \cup {c.port : c \in {d \in host : d.proto = p}}

Init ==
  /\ at = [s \in Sock |-> "none"]
  /\ cfg \in [Sock -> Config]
  /\ port = [s \in Sock |-> None] /\ fd = [s \in Sock |-> FALSE]
  /\ remote = [s \in Sock |-> None] /\ target = [s \in Sock |-> None]
  /\ tcp_open = [s \in Sock |-> FALSE] /\ connects = [s \in Sock |-> 0]
  /\ config_map = {} /\ stray = {}
  /\ xsks_map = [q \in Queue |-> None]
  /\ pool = [iq \in Iface \X Queue |-> None]
  /\ attached = {} /\ host = {}

-----------------------------------------------------------------------------
(* Socket::new *)

\* Xsk::new: the bind fails EBUSY when the queue has an AF_XDP socket; then
\* the half-built Xsk is dropped and nothing of it is left.
Bind(s) ==
  LET iq == <<cfg[s].iface, cfg[s].queue>> IN
  /\ at[s] = "none"
  /\ pool[iq] = None
  /\ pool' = [pool EXCEPT ![iq] = s]
  /\ at' = [at EXCEPT ![s] = "bound"]
  /\ UNCHANGED <<cfg, port, fd, remote, target, tcp_open, connects,
                 config_map, xsks_map, attached, host, stray>>

\* Closing the AF_XDP descriptor unbinds the queue, and the kernel takes the
\* socket out of every map it is still in.
CloseXsk(s) ==
  /\ pool' = [iq \in DOMAIN pool |-> IF pool[iq] = s THEN None ELSE pool[iq]]
  /\ xsks_map' = [q \in Queue |-> IF xsks_map[q] = s THEN None ELSE xsks_map[q]]

\* Mutant: the socket is registered before it is bound.
Register_Unbound(s) ==
  /\ at[s] = "none" /\ cfg[s].queue < MAX_XSKS
  /\ xsks_map' = [xsks_map EXCEPT ![cfg[s].queue] = s]
  /\ at' = [at EXCEPT ![s] = "registered"]
  /\ UNCHANGED <<cfg, port, fd, remote, target, tcp_open, connects,
                 config_map, pool, attached, host, stray>>

\* xsks_map.update(queue_id, fd, ANY), which fails for a queue id the map has
\* no slot for; the error path drops the Xsk.
Register(s) ==
  LET q == cfg[s].queue IN
  /\ at[s] = "bound"
  /\ \/ /\ q < MAX_XSKS
        /\ xsks_map' = [xsks_map EXCEPT ![q] = s]
        /\ at' = [at EXCEPT ![s] = "registered"]
        /\ UNCHANGED pool
     \/ /\ q >= MAX_XSKS
        /\ CloseXsk(s)
        /\ at' = [at EXCEPT ![s] = "none"]
  /\ UNCHANGED <<cfg, port, fd, remote, target, tcp_open, connects,
                 config_map, attached, host, stray>>

\* Mutant: the port is never read back from the bound descriptor.
Reserve_Unread(s) ==
  /\ at[s] = "registered"
  /\ Port \ Reserved(cfg[s].proto) # {}
  /\ fd' = [fd EXCEPT ![s] = TRUE]
  /\ at' = [at EXCEPT ![s] = "open"]
  /\ UNCHANGED <<cfg, port, remote, target, tcp_open, connects, config_map,
                 xsks_map, pool, attached, host, stray>>

\* PortReservation::take: any port the kernel has free, of the socket's own
\* protocol; without one Socket::new fails and drops the Xsk.
Reserve(s) ==
  LET free == Port \ Reserved(cfg[s].proto) IN
  /\ at[s] = "registered"
  /\ \/ \E n \in free :
          /\ port' = [port EXCEPT ![s] = n] /\ fd' = [fd EXCEPT ![s] = TRUE]
          /\ at' = [at EXCEPT ![s] = "open"]
          /\ UNCHANGED <<xsks_map, pool>>
     \/ /\ free = {}
        /\ CloseXsk(s)
        /\ at' = [at EXCEPT ![s] = "none"]
        /\ UNCHANGED <<port, fd>>
  /\ UNCHANGED <<cfg, remote, target, tcp_open, connects, config_map,
                 attached, host, stray>>

-----------------------------------------------------------------------------
(* Socket::connect *)

\* add_flow_to_ebpf_tracking: a new key needs a free entry; on a full map
\* connect returns the error and has changed nothing.
AddFlow(s, r) ==
  LET key == flow_key(r, port[s]) IN
  /\ at[s] = "open" /\ connects[s] < MAX_CONNECTS
  /\ connects' = [connects EXCEPT ![s] = @ + 1]
  /\ \/ /\ key \in config_map \/ Cardinality(config_map) < MAX_FLOWS
        /\ config_map' = config_map \cup {key}
        /\ target' = [target EXCEPT ![s] = r]
        /\ at' = [at EXCEPT ![s] = "connecting"]
     \/ /\ key \notin config_map /\ Cardinality(config_map) >= MAX_FLOWS
        /\ UNCHANGED <<config_map, target, at>>
  /\ UNCHANGED <<cfg, port, fd, remote, tcp_open, xsks_map, pool, attached, host, stray>>

\* The rest of connect.  smoltcp refuses while its socket is open, and a remote
\* it cannot address; then connect returns with Socket.remote as it was, None
\* perhaps, and the flow in the map.
StartConnect(s) ==
  LET refused == /\ cfg[s].proto = "tcp"
                 /\ tcp_open[s] \/ target[s] \in Unaddressable
  IN
  /\ at[s] = "connecting"
  /\ IF refused
     THEN UNCHANGED <<remote, tcp_open>>
     ELSE /\ remote' = [remote EXCEPT ![s] = target[s]]
          /\ tcp_open' = [tcp_open EXCEPT ![s] = cfg[s].proto = "tcp"]
  /\ stray' = (stray \cup {flow_key(r, port[s]) : r \in {remote[s], target[s]} \ {None}})
                \ {flow_key(remote'[s], port[s])}
  /\ target' = [target EXCEPT ![s] = None]
  /\ at' = [at EXCEPT ![s] = "open"]
  /\ UNCHANGED <<cfg, port, fd, connects, config_map, xsks_map, pool,
                 attached, host>>

\* The TCP connection ends: an RST, or both sides closed.
TcpOver(s) ==
  /\ at[s] = "open" /\ tcp_open[s]
  /\ tcp_open' = [tcp_open EXCEPT ![s] = FALSE]
  /\ UNCHANGED <<at, cfg, port, fd, remote, target, connects, config_map,
                 xsks_map, pool, attached, host, stray>>

-----------------------------------------------------------------------------
(* Drop: Socket::drop, then its fields in the order they are declared, the *)
(* port reservation before the plane with its Xsk.                         *)

\* Mutant: Drop takes the socket out of xsks_map only.
DropFlow_Forgotten(s) ==
  /\ at[s] = "open"
  /\ at' = [at EXCEPT ![s] = "drop_slot"]
  /\ UNCHANGED <<cfg, port, fd, remote, target, tcp_open, connects,
                 config_map, xsks_map, pool, attached, host, stray>>

DropFlow(s) ==
  /\ at[s] = "open"
  /\ config_map' = IF remote[s] = None THEN config_map
                   ELSE config_map \ {flow_key(remote[s], port[s])}
  /\ at' = [at EXCEPT ![s] = "drop_slot"]
  /\ UNCHANGED <<cfg, port, fd, remote, target, tcp_open, connects, xsks_map,
                 pool, attached, host, stray>>

DropSlot(s) ==
  /\ at[s] = "drop_slot"
  /\ xsks_map' = [xsks_map EXCEPT ![cfg[s].queue] = None]
  /\ at' = [at EXCEPT ![s] = "drop_port"]
  /\ UNCHANGED <<cfg, port, fd, remote, target, tcp_open, connects,
                 config_map, pool, attached, host, stray>>

DropPort(s) ==
  /\ at[s] = "drop_port"
  /\ fd' = [fd EXCEPT ![s] = FALSE]
  /\ at' = [at EXCEPT ![s] = "drop_xsk"]
  /\ UNCHANGED <<cfg, port, remote, target, tcp_open, connects, config_map,
                 xsks_map, pool, attached, host, stray>>

\* The plane is dropped; s may then stand for a later socket.
DropXsk(s) ==
  /\ at[s] = "drop_xsk"
  /\ CloseXsk(s)
  /\ at' = [at EXCEPT ![s] = "none"]
  /\ port' = [port EXCEPT ![s] = None]
  /\ remote' = [remote EXCEPT ![s] = None]
  /\ tcp_open' = [tcp_open EXCEPT ![s] = FALSE]
  /\ connects' = [connects EXCEPT ![s] = 0]
  /\ UNCHANGED <<cfg, fd, target, config_map, attached, host, stray>>

-----------------------------------------------------------------------------
(* attach_xdp and XdpAttachment's Drop, in the caller's hands. *)

Attach(i) ==
  /\ i \notin attached
  /\ attached' = attached \cup {i}
  /\ UNCHANGED <<own, config_map, xsks_map, pool, host, stray>>

Detach(i) ==
  /\ i \in attached
  /\ attached' = attached \ {i}
  /\ UNCHANGED <<own, config_map, xsks_map, pool, host, stray>>

-----------------------------------------------------------------------------
(* The host's own sockets (external): the kernel gives them ports nobody   *)
(* has reserved.                                                           *)

HostConnect(c) ==
  /\ c.port \notin Reserved(c.proto)
  /\ host' = host \cup {c}
  /\ UNCHANGED <<own, config_map, xsks_map, pool, attached, stray>>

HostClose(c) ==
  /\ c \in host
  /\ host' = host \ {c}
  /\ UNCHANGED <<own, config_map, xsks_map, pool, attached, stray>>

-----------------------------------------------------------------------------
SocketStep(s) ==
  \/ Bind(s) \/ Register(s) \/ Reserve(s)
  \/ StartConnect(s) \/ TcpOver(s)
  \/ DropFlow(s) \/ DropSlot(s) \/ DropPort(s) \/ DropXsk(s)
  \/ \E r \in Remote : AddFlow(s, r)

Next ==
  \/ \E s \in Sock : SocketStep(s)
  \/ \E i \in Iface : Attach(i) \/ Detach(i)
  \/ \E c \in HostConns : HostConnect(c) \/ HostClose(c)

Spec == Init /\ [][Next]_vars

-----------------------------------------------------------------------------
(* The XDP program. *)

\* flow_tracked: the key is built from addresses and ports alone.
flow_tracked(p) == flow_key(p.remote, p.port) \in config_map

\* Who gets packet p, arriving on queue q of interface i: the socket it is
\* redirected to, or None for XDP_PASS.  Anything that is not a complete IPv4
\* TCP or UDP packet has proto "other".
xdp_redirect_flow(p, i, q) ==
  IF i \in attached /\ p.proto \in {"tcp", "udp"} /\ flow_tracked(p)
  THEN xsks_map[q]
  ELSE None

-----------------------------------------------------------------------------
(* Properties. *)

Stages == {"none", "bound", "registered", "open", "connecting", "drop_slot",
           "drop_port", "drop_xsk"}

TypeOK ==
  /\ at \in [Sock -> Stages]
  /\ cfg \in [Sock -> Config]
  /\ port \in [Sock -> Port \cup {None}] /\ fd \in [Sock -> BOOLEAN]
  /\ remote \in [Sock -> Remote \cup {None}]
  /\ target \in [Sock -> Remote \cup {None}]
  /\ tcp_open \in [Sock -> BOOLEAN] /\ connects \in [Sock -> 0 .. MAX_CONNECTS]
  /\ config_map \subseteq Flows /\ stray \subseteq Flows
  /\ xsks_map \in [Queue -> Sock \cup {None}]
  /\ pool \in [Iface \X Queue -> Sock \cup {None}]
  /\ attached \subseteq Iface
  /\ host \subseteq HostConns

\* A packet of the socket's own connection.
Inbound(s) == [proto |-> cfg[s].proto, remote |-> remote[s], port |-> port[s]]

\* Whatever other sockets do, fail at or are dropped by, the packets of a
\* connected socket's flow on its queue reach that socket.
Delivered ==
  \A s \in Sock :
    at[s] \in {"open", "connecting"} /\ remote[s] # None
      /\ cfg[s].iface \in attached =>
        xdp_redirect_flow(Inbound(s), cfg[s].iface, cfg[s].queue) = s

\* A redirect never goes to a socket that is not bound to the queue the
\* packet came in on: not to one whose construction failed, nor to one gone.
RedirectLands ==
  \A q \in Queue : xsks_map[q] # None =>
    \E i \in Iface : pool[<<i, q>>] = xsks_map[q]

\* "nothing else on the host can be handed the same 4-tuple" (socket.rs:241):
\* no packet of a connection of the host's own is taken from its stack.
HostUntouched ==
  \A c \in host, i \in Iface, q \in Queue : xdp_redirect_flow(c, i, q) = None

\* "Drop on the socket removes exactly what it registered" (spec.md:120): a
\* flow is tracked only while the socket whose port it names is not dropped.
NoOrphanFlow ==
  \A key \in config_map : \E s \in Sock :
    at[s] \in {"open", "connecting"} /\ key.port = port[s]

\* What Drop does remove: a flow outlives its socket only if the socket had no
\* record of it, because its connect was refused after the insert or because a
\* later connect replaced it (connect and Drop, socket.rs:282-288 and 376-382).
OrphansAreStray ==
  \A key \in config_map \ stray : \E s \in Sock :
    at[s] \in {"open", "connecting"} /\ key.port = port[s]

\* The host gets a port that a socket gave back, before that socket's Drop is
\* over, and connects to the same remote: it loses packets only to a flow that
\* the socket had no record of (the order of Drop, socket.rs:188 and 376).
HostLosesToStraysOnly ==
  \A c \in host, i \in Iface, q \in Queue :
    flow_key(c.remote, c.port) \notin stray => xdp_redirect_flow(c, i, q) = None

=============================================================================
