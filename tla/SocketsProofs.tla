---------------------------- MODULE SocketsProofs ----------------------------
(***************************************************************************)
(* Proofs about Sockets, for any number of sockets, queues, ports, remotes *)
(* and entries of the maps.                                                *)
(*                                                                         *)
(*   1. The inductive invariants: Life (what a socket has at each stage),  *)
(*      Slots (queues and xsks_map), Ports and Hosts (who has which port), *)
(*      Tracked and Owned (which flows are in config_map, and whose).      *)
(*   2. Every step preserves each of them.                                 *)
(*   3. The theorems, each under the conditions it needs.                  *)
(***************************************************************************)
EXTENDS Sockets, TLAPS

-----------------------------------------------------------------------------
(* 1. Conditions and invariants *)

\* xsks_map is keyed by the queue alone and config_map by a key without the
\* protocol; Drop removes the flow of the last remote only, and a refused
\* connect leaves one that Drop does not know: the promises below hold where
\* that makes no difference.
OneInterface == \A i, j \in Iface : i = j
OneProtocol  == \A p, q \in Protos : p = q
OneFlowEach  == (\A r, q \in Remote : r = q) \/ MAX_CONNECTS <= 1
Addressable  == Unaddressable = {} \/ "tcp" \notin Protos

Live == {"open", "connecting"}

Life ==
  \A s \in Sock :
    /\ fd[s] <=> at[s] \in Live \cup {"drop_slot", "drop_port"}
    /\ fd[s] => port[s] \in Port
    /\ at[s] \in {"none", "bound", "registered"} =>
         remote[s] = None /\ ~tcp_open[s] /\ connects[s] = 0
    /\ at[s] = "connecting" => target[s] \in Remote /\ connects[s] > 0
    /\ tcp_open[s] => remote[s] # None
    /\ connects[s] = 0 => remote[s] = None
    /\ at[s] = "connecting" /\ connects[s] <= 1 => remote[s] = None

\* A queue's AF_XDP socket is the one that was built for it, and only such a
\* socket is in xsks_map.
Slots ==
  /\ \A s \in Sock : at[s] # "none" => pool[<<cfg[s].iface, cfg[s].queue>>] = s
  /\ \A i \in Iface, q \in Queue : pool[<<i, q>>] # None =>
       /\ at[pool[<<i, q>>]] # "none"
       /\ cfg[pool[<<i, q>>]].iface = i /\ cfg[pool[<<i, q>>]].queue = q
  /\ \A q \in Queue : xsks_map[q] # None =>
       at[xsks_map[q]] # "none" /\ cfg[xsks_map[q]].queue = q

\* With one interface a registered socket keeps its slot of xsks_map.
Registered ==
  \A s \in Sock : at[s] \in Live \cup {"registered", "drop_slot"} =>
    xsks_map[cfg[s].queue] = s

\* Two sockets of a protocol have different ports, and none has one of the
\* host's.
Ports ==
  \A s, t \in Sock : fd[s] /\ fd[t] /\ cfg[s].proto = cfg[t].proto
                       /\ port[s] = port[t] => s = t

Hosts ==
  \A c \in host, s \in Sock :
    fd[s] /\ cfg[s].proto = c.proto => port[s] # c.port

\* A connected socket's flow is in config_map, and so is the one it connects.
Tracked ==
  \A s \in Sock :
    /\ at[s] \in Live /\ remote[s] # None =>
         flow_key(remote[s], port[s]) \in config_map
    /\ at[s] = "connecting" => flow_key(target[s], port[s]) \in config_map

\* A flow in config_map that is no stray is that of a live socket, or one it is
\* about to have.
Owned ==
  \A key \in config_map \ stray : \E s \in Sock :
    /\ at[s] \in Live /\ key.port = port[s]
    /\ key.remote = remote[s] \/ (at[s] = "connecting" /\ key.remote = target[s])

-----------------------------------------------------------------------------
(* 2. Steps *)

LEMMA CloseType ==
  ASSUME TypeOK, NEW s \in Sock, CloseXsk(s)
  PROVE  /\ xsks_map' \in [Queue -> Sock \cup {None}]
         /\ pool' \in [Iface \X Queue -> Sock \cup {None}]
BY DEF TypeOK, CloseXsk

LEMMA NextType ==
  ASSUME TypeOK, Life, [Next]_vars
  PROVE  TypeOK'
<1> USE ConstantsAssumption DEF TypeOK, Stages, Config
<1>1. ASSUME NEW s \in Sock, Bind(s) PROVE TypeOK'
  BY <1>1 DEF Bind
<1>2. ASSUME NEW s \in Sock, Register(s) PROVE TypeOK'
  <2>1. CASE xsks_map' = [xsks_map EXCEPT ![cfg[s].queue] = s] /\ UNCHANGED pool
                /\ at' = [at EXCEPT ![s] = "registered"]
    BY <1>2, <2>1 DEF Register
  <2>2. CASE CloseXsk(s) /\ at' = [at EXCEPT ![s] = "none"]
    BY <1>2, <2>2, CloseType DEF Register
  <2> QED BY <1>2, <2>1, <2>2 DEF Register
<1>3. ASSUME NEW s \in Sock, Reserve(s) PROVE TypeOK'
  <2>1. CASE \E n \in Port \ Reserved(cfg[s].proto) :
               /\ port' = [port EXCEPT ![s] = n] /\ fd' = [fd EXCEPT ![s] = TRUE]
               /\ at' = [at EXCEPT ![s] = "open"] /\ UNCHANGED <<xsks_map, pool>>
    BY <1>3, <2>1 DEF Reserve
  <2>2. CASE CloseXsk(s) /\ at' = [at EXCEPT ![s] = "none"]
               /\ UNCHANGED <<port, fd>>
    BY <1>3, <2>2, CloseType DEF Reserve
  <2> QED BY <1>3, <2>1, <2>2 DEF Reserve
<1>4. ASSUME NEW s \in Sock, NEW r \in Remote, AddFlow(s, r) PROVE TypeOK'
  <2>1. connects[s] + 1 \in 0 .. MAX_CONNECTS
    BY <1>4 DEF AddFlow
  <2>2. connects' \in [Sock -> 0 .. MAX_CONNECTS]
    BY <1>4, <2>1 DEF AddFlow
  <2>3. port[s] \in Port
    BY <1>4 DEF AddFlow, Life, Live
  <2>4. config_map' \subseteq Flows
    BY <1>4, <2>3 DEF AddFlow, Flows
  <2>5. at' \in [Sock -> Stages] /\ target' \in [Sock -> Remote \cup {None}]
    <3>1. CASE target' = [target EXCEPT ![s] = r] /\ at' = [at EXCEPT ![s] = "connecting"]
      BY <3>1
    <3>2. CASE UNCHANGED <<target, at>>
      BY <3>2
    <3> QED BY <1>4, <3>1, <3>2 DEF AddFlow
  <2>6. UNCHANGED <<cfg, port, fd, remote, tcp_open, xsks_map, pool, attached, host, stray>>
    BY <1>4 DEF AddFlow
  <2> QED BY <2>2, <2>4, <2>5, <2>6
<1>5. ASSUME NEW s \in Sock, StartConnect(s) PROVE TypeOK'
  <2>1. tcp_open' \in [Sock -> BOOLEAN]
    <3>1. CASE UNCHANGED tcp_open
      BY <3>1
    <3>2. CASE tcp_open' = [tcp_open EXCEPT ![s] = cfg[s].proto = "tcp"]
      BY <3>2
    <3> QED BY <1>5, <3>1, <3>2 DEF StartConnect
  <2>2. at' \in [Sock -> Stages] /\ target' \in [Sock -> Remote \cup {None}]
    BY <1>5 DEF StartConnect
  <2>3. remote' \in [Sock -> Remote \cup {None}]
    BY <1>5 DEF StartConnect
  <2>4. UNCHANGED <<cfg, port, fd, connects, config_map, xsks_map, pool, attached,
                    host>>
    BY <1>5 DEF StartConnect
  <2>5. port[s] \in Port
    BY <1>5 DEF StartConnect, Life, Live
  <2>6. stray' \subseteq Flows
    <3>1. \A q \in {remote[s], target[s]} \ {None} : flow_key(q, port[s]) \in Flows
      BY <2>5 DEF Flows
    <3> QED BY <1>5, <3>1 DEF StartConnect
  <2> QED BY <2>1, <2>2, <2>3, <2>4, <2>6
<1>6. ASSUME NEW s \in Sock, TcpOver(s) PROVE TypeOK'
  BY <1>6 DEF TcpOver
<1>7. ASSUME NEW s \in Sock, DropFlow(s) PROVE TypeOK'
  BY <1>7 DEF DropFlow
<1>8. ASSUME NEW s \in Sock, DropSlot(s) PROVE TypeOK'
  BY <1>8 DEF DropSlot
<1>9. ASSUME NEW s \in Sock, DropPort(s) PROVE TypeOK'
  BY <1>9 DEF DropPort
<1>10. ASSUME NEW s \in Sock, DropXsk(s) PROVE TypeOK'
  BY <1>10 DEF DropXsk, CloseXsk
<1>11. ASSUME NEW i \in Iface, Attach(i) \/ Detach(i) PROVE TypeOK'
  BY <1>11 DEF Attach, Detach, own
<1>12. ASSUME NEW c \in HostConns, HostConnect(c) \/ HostClose(c) PROVE TypeOK'
  BY <1>12 DEF HostConnect, HostClose, own
<1>13. CASE UNCHANGED vars
  BY <1>13 DEF vars, own
<1> QED BY <1>1, <1>2, <1>3, <1>4, <1>5, <1>6, <1>7, <1>8,
           <1>9, <1>10, <1>11, <1>12, <1>13
        DEF Next, SocketStep

LEMMA NextLife ==
  ASSUME TypeOK, Life, [Next]_vars
  PROVE  Life'
<1> USE ConstantsAssumption DEF TypeOK, Life, Live
<1>1. ASSUME NEW s \in Sock, Bind(s) PROVE Life'
  BY <1>1 DEF Bind
<1>2. ASSUME NEW s \in Sock, Register(s) PROVE Life'
  BY <1>2 DEF Register, CloseXsk
<1>3. ASSUME NEW s \in Sock, Reserve(s) PROVE Life'
  BY <1>3 DEF Reserve, CloseXsk
<1>4. ASSUME NEW s \in Sock, NEW r \in Remote, AddFlow(s, r) PROVE Life'
  BY <1>4 DEF AddFlow
<1>5. ASSUME NEW s \in Sock, StartConnect(s) PROVE Life'
  BY <1>5 DEF StartConnect
<1>6. ASSUME NEW s \in Sock, TcpOver(s) PROVE Life'
  BY <1>6 DEF TcpOver
<1>7. ASSUME NEW s \in Sock, DropFlow(s) PROVE Life'
  BY <1>7 DEF DropFlow
<1>8. ASSUME NEW s \in Sock, DropSlot(s) PROVE Life'
  BY <1>8 DEF DropSlot
<1>9. ASSUME NEW s \in Sock, DropPort(s) PROVE Life'
  BY <1>9 DEF DropPort
<1>10. ASSUME NEW s \in Sock, DropXsk(s) PROVE Life'
  BY <1>10 DEF DropXsk, CloseXsk
<1>11. ASSUME NEW i \in Iface, Attach(i) \/ Detach(i) PROVE Life'
  BY <1>11 DEF Attach, Detach, own
<1>12. ASSUME NEW c \in HostConns, HostConnect(c) \/ HostClose(c) PROVE Life'
  BY <1>12 DEF HostConnect, HostClose, own
<1>13. CASE UNCHANGED vars
  BY <1>13 DEF vars, own
<1> QED BY <1>1, <1>2, <1>3, <1>4, <1>5, <1>6, <1>7, <1>8,
           <1>9, <1>10, <1>11, <1>12, <1>13
        DEF Next, SocketStep

LEMMA NextSlots ==
  ASSUME TypeOK, Slots, [Next]_vars
  PROVE  Slots'
<1> USE ConstantsAssumption DEF TypeOK, Slots, Config
<1>1. ASSUME NEW s \in Sock, Bind(s) PROVE Slots'
  BY <1>1 DEF Bind
<1>2. ASSUME NEW s \in Sock, Register(s) PROVE Slots'
  <2>1. CASE xsks_map' = [xsks_map EXCEPT ![cfg[s].queue] = s] /\ UNCHANGED pool
                /\ at' = [at EXCEPT ![s] = "registered"]
    BY <1>2, <2>1 DEF Register
  <2>2. CASE CloseXsk(s) /\ at' = [at EXCEPT ![s] = "none"]
    BY <1>2, <2>2 DEF Register, CloseXsk
  <2> QED BY <1>2, <2>1, <2>2 DEF Register
<1>3. ASSUME NEW s \in Sock, Reserve(s) PROVE Slots'
  BY <1>3 DEF Reserve, CloseXsk
<1>4. ASSUME NEW s \in Sock, NEW r \in Remote, AddFlow(s, r) PROVE Slots'
  BY <1>4 DEF AddFlow
<1>5. ASSUME NEW s \in Sock, StartConnect(s) PROVE Slots'
  BY <1>5 DEF StartConnect
<1>6. ASSUME NEW s \in Sock, TcpOver(s) PROVE Slots'
  BY <1>6 DEF TcpOver
<1>7. ASSUME NEW s \in Sock, DropFlow(s) PROVE Slots'
  BY <1>7 DEF DropFlow
<1>8. ASSUME NEW s \in Sock, DropSlot(s) PROVE Slots'
  BY <1>8 DEF DropSlot
<1>9. ASSUME NEW s \in Sock, DropPort(s) PROVE Slots'
  BY <1>9 DEF DropPort
<1>10. ASSUME NEW s \in Sock, DropXsk(s) PROVE Slots'
  BY <1>10 DEF DropXsk, CloseXsk
<1>11. ASSUME NEW i \in Iface, Attach(i) \/ Detach(i) PROVE Slots'
  BY <1>11 DEF Attach, Detach, own
<1>12. ASSUME NEW c \in HostConns, HostConnect(c) \/ HostClose(c) PROVE Slots'
  BY <1>12 DEF HostConnect, HostClose, own
<1>13. CASE UNCHANGED vars
  BY <1>13 DEF vars, own
<1> QED BY <1>1, <1>2, <1>3, <1>4, <1>5, <1>6, <1>7, <1>8,
           <1>9, <1>10, <1>11, <1>12, <1>13
        DEF Next, SocketStep

\* With one interface a queue number has one socket.
LEMMA QueueAlone ==
  ASSUME OneInterface, TypeOK, Slots, NEW s \in Sock, NEW t \in Sock,
         at[s] # "none", at[t] # "none", cfg[s].queue = cfg[t].queue
  PROVE  s = t
<1>1. cfg[s].iface = cfg[t].iface
  BY DEF OneInterface, TypeOK, Config
<1>2. pool[<<cfg[s].iface, cfg[s].queue>>] = s
  BY DEF Slots
<1>3. pool[<<cfg[t].iface, cfg[t].queue>>] = t
  BY DEF Slots
<1> QED BY <1>1, <1>2, <1>3

LEMMA NextRegistered ==
  ASSUME OneInterface, TypeOK, Slots, Registered, [Next]_vars
  PROVE  Registered'
<1> USE ConstantsAssumption DEF TypeOK, Slots, Registered, OneInterface, Config, Live
<1>1. ASSUME NEW s \in Sock, Bind(s) PROVE Registered'
  BY <1>1 DEF Bind
<1>2. ASSUME NEW s \in Sock, Register(s) PROVE Registered'
  <2>1. CASE xsks_map' = [xsks_map EXCEPT ![cfg[s].queue] = s]
                /\ at' = [at EXCEPT ![s] = "registered"]
    <3> SUFFICES ASSUME NEW t \in Sock,
                        at'[t] \in Live \cup {"registered", "drop_slot"}
                 PROVE  xsks_map'[cfg[t].queue] = t
      BY <1>2 DEF Register
    <3>1. CASE t = s
      BY <2>1, <3>1
    <3>2. CASE t # s
      <4>1. at[t] = at'[t] /\ at[t] # "none" /\ at[s] # "none"
        BY <1>2, <2>1, <3>2 DEF Register
      <4>2. cfg[t].queue # cfg[s].queue
        BY QueueAlone, <3>2, <4>1
      <4> QED BY <2>1, <4>1, <4>2
    <3> QED BY <3>1, <3>2
  <2>2. CASE CloseXsk(s) /\ at' = [at EXCEPT ![s] = "none"]
    BY <1>2, <2>2 DEF Register, CloseXsk
  <2> QED BY <1>2, <2>1, <2>2 DEF Register
<1>3. ASSUME NEW s \in Sock, Reserve(s) PROVE Registered'
  <2>1. CASE at' = [at EXCEPT ![s] = "open"] /\ UNCHANGED <<xsks_map, pool>>
    BY <1>3, <2>1 DEF Reserve
  <2>2. CASE CloseXsk(s) /\ at' = [at EXCEPT ![s] = "none"]
    BY <1>3, <2>2 DEF Reserve, CloseXsk
  <2> QED BY <1>3, <2>1, <2>2 DEF Reserve
<1>4. ASSUME NEW s \in Sock, NEW r \in Remote, AddFlow(s, r) PROVE Registered'
  BY <1>4 DEF AddFlow
<1>5. ASSUME NEW s \in Sock, StartConnect(s) PROVE Registered'
  BY <1>5 DEF StartConnect
<1>6. ASSUME NEW s \in Sock, TcpOver(s) PROVE Registered'
  BY <1>6 DEF TcpOver
<1>7. ASSUME NEW s \in Sock, DropFlow(s) PROVE Registered'
  BY <1>7 DEF DropFlow
<1>8. ASSUME NEW s \in Sock, DropSlot(s) PROVE Registered'
  BY <1>8 DEF DropSlot
<1>9. ASSUME NEW s \in Sock, DropPort(s) PROVE Registered'
  BY <1>9 DEF DropPort
<1>10. ASSUME NEW s \in Sock, DropXsk(s) PROVE Registered'
  BY <1>10 DEF DropXsk, CloseXsk
<1>11. ASSUME NEW i \in Iface, Attach(i) \/ Detach(i) PROVE Registered'
  BY <1>11 DEF Attach, Detach, own
<1>12. ASSUME NEW c \in HostConns, HostConnect(c) \/ HostClose(c) PROVE Registered'
  BY <1>12 DEF HostConnect, HostClose, own
<1>13. CASE UNCHANGED vars
  BY <1>13 DEF vars, own
<1> QED BY <1>1, <1>2, <1>3, <1>4, <1>5, <1>6, <1>7, <1>8,
           <1>9, <1>10, <1>11, <1>12, <1>13
        DEF Next, SocketStep

LEMMA NextPorts ==
  ASSUME TypeOK, Life, Ports, [Next]_vars
  PROVE  Ports'
<1> USE ConstantsAssumption DEF TypeOK, Ports, Config
<1>1. ASSUME NEW s \in Sock, Bind(s) PROVE Ports'
  BY <1>1 DEF Bind
<1>2. ASSUME NEW s \in Sock, Register(s) PROVE Ports'
  BY <1>2 DEF Register, CloseXsk
<1>3. ASSUME NEW s \in Sock, Reserve(s) PROVE Ports'
  <2>1. CASE \E n \in Port \ Reserved(cfg[s].proto) :
               port' = [port EXCEPT ![s] = n] /\ fd' = [fd EXCEPT ![s] = TRUE]
    <3>1. PICK n \in Port \ Reserved(cfg[s].proto) :
            port' = [port EXCEPT ![s] = n] /\ fd' = [fd EXCEPT ![s] = TRUE]
      BY <2>1
    <3>2. \A t \in Sock : fd[t] /\ cfg[t].proto = cfg[s].proto => port[t] # n
      BY DEF Reserved
    <3>3. cfg' = cfg
      BY <1>3 DEF Reserve
    <3> QED BY <3>1, <3>2, <3>3
  <2>2. CASE UNCHANGED <<port, fd>>
    BY <1>3, <2>2 DEF Reserve
  <2> QED BY <1>3, <2>1, <2>2 DEF Reserve
<1>4. ASSUME NEW s \in Sock, NEW r \in Remote, AddFlow(s, r) PROVE Ports'
  BY <1>4 DEF AddFlow
<1>5. ASSUME NEW s \in Sock, StartConnect(s) PROVE Ports'
  BY <1>5 DEF StartConnect
<1>6. ASSUME NEW s \in Sock, TcpOver(s) PROVE Ports'
  BY <1>6 DEF TcpOver
<1>7. ASSUME NEW s \in Sock, DropFlow(s) PROVE Ports'
  BY <1>7 DEF DropFlow
<1>8. ASSUME NEW s \in Sock, DropSlot(s) PROVE Ports'
  BY <1>8 DEF DropSlot
<1>9. ASSUME NEW s \in Sock, DropPort(s) PROVE Ports'
  BY <1>9 DEF DropPort
<1>10. ASSUME NEW s \in Sock, DropXsk(s) PROVE Ports'
  BY <1>10 DEF DropXsk, CloseXsk, Life, Live
<1>11. ASSUME NEW i \in Iface, Attach(i) \/ Detach(i) PROVE Ports'
  BY <1>11 DEF Attach, Detach, own
<1>12. ASSUME NEW c \in HostConns, HostConnect(c) \/ HostClose(c) PROVE Ports'
  BY <1>12 DEF HostConnect, HostClose, own
<1>13. CASE UNCHANGED vars
  BY <1>13 DEF vars, own
<1> QED BY <1>1, <1>2, <1>3, <1>4, <1>5, <1>6, <1>7, <1>8,
           <1>9, <1>10, <1>11, <1>12, <1>13
        DEF Next, SocketStep

LEMMA NextHosts ==
  ASSUME TypeOK, Life, Hosts, [Next]_vars
  PROVE  Hosts'
<1> USE ConstantsAssumption DEF TypeOK, Hosts, Config
<1>1. ASSUME NEW s \in Sock, Bind(s) PROVE Hosts'
  BY <1>1 DEF Bind
<1>2. ASSUME NEW s \in Sock, Register(s) PROVE Hosts'
  BY <1>2 DEF Register, CloseXsk
<1>3. ASSUME NEW s \in Sock, Reserve(s) PROVE Hosts'
  BY <1>3 DEF Reserve, CloseXsk, Reserved
<1>4. ASSUME NEW s \in Sock, NEW r \in Remote, AddFlow(s, r) PROVE Hosts'
  BY <1>4 DEF AddFlow
<1>5. ASSUME NEW s \in Sock, StartConnect(s) PROVE Hosts'
  BY <1>5 DEF StartConnect
<1>6. ASSUME NEW s \in Sock, TcpOver(s) PROVE Hosts'
  BY <1>6 DEF TcpOver
<1>7. ASSUME NEW s \in Sock, DropFlow(s) PROVE Hosts'
  BY <1>7 DEF DropFlow
<1>8. ASSUME NEW s \in Sock, DropSlot(s) PROVE Hosts'
  BY <1>8 DEF DropSlot
<1>9. ASSUME NEW s \in Sock, DropPort(s) PROVE Hosts'
  BY <1>9 DEF DropPort
<1>10. ASSUME NEW s \in Sock, DropXsk(s) PROVE Hosts'
  BY <1>10 DEF DropXsk, CloseXsk, Life, Live
<1>11. ASSUME NEW i \in Iface, Attach(i) \/ Detach(i) PROVE Hosts'
  BY <1>11 DEF Attach, Detach, own
<1>12. ASSUME NEW c \in HostConns, HostConnect(c) \/ HostClose(c) PROVE Hosts'
  <2>1. CASE HostConnect(c)
    BY <1>12, <2>1 DEF HostConnect, Reserved, own
  <2>2. CASE HostClose(c)
    BY <1>12, <2>2 DEF HostClose, own
  <2> QED BY <1>12, <2>1, <2>2
<1>13. CASE UNCHANGED vars
  BY <1>13 DEF vars, own
<1> QED BY <1>1, <1>2, <1>3, <1>4, <1>5, <1>6, <1>7, <1>8,
           <1>9, <1>10, <1>11, <1>12, <1>13
        DEF Next, SocketStep

LEMMA NextTracked ==
  ASSUME OneProtocol, TypeOK, Life, Ports, Tracked, [Next]_vars
  PROVE  Tracked'
<1> USE ConstantsAssumption DEF TypeOK, Tracked, Life, Live, Config, flow_key
<1>1. ASSUME NEW s \in Sock, Bind(s) PROVE Tracked'
  BY <1>1 DEF Bind
<1>2. ASSUME NEW s \in Sock, Register(s) PROVE Tracked'
  BY <1>2 DEF Register, CloseXsk
<1>3. ASSUME NEW s \in Sock, Reserve(s) PROVE Tracked'
  BY <1>3 DEF Reserve, CloseXsk
<1>4. ASSUME NEW s \in Sock, NEW r \in Remote, AddFlow(s, r) PROVE Tracked'
  <2>1. CASE /\ config_map' = config_map \cup {flow_key(r, port[s])}
             /\ target' = [target EXCEPT ![s] = r]
             /\ at' = [at EXCEPT ![s] = "connecting"]
    <3>1. config_map \subseteq config_map' /\ flow_key(r, port[s]) \in config_map'
      BY <2>1
    <3>2. UNCHANGED <<remote, port>> /\ at[s] = "open"
      BY <1>4 DEF AddFlow
    <3> QED BY <2>1, <3>1, <3>2
  <2>2. CASE UNCHANGED <<config_map, target, at>>
    BY <1>4, <2>2 DEF AddFlow
  <2> QED BY <1>4, <2>1, <2>2 DEF AddFlow
<1>5. ASSUME NEW s \in Sock, StartConnect(s) PROVE Tracked'
  BY <1>5 DEF StartConnect
<1>6. ASSUME NEW s \in Sock, TcpOver(s) PROVE Tracked'
  BY <1>6 DEF TcpOver
<1>7. ASSUME NEW s \in Sock, DropFlow(s) PROVE Tracked'
  <2> SUFFICES ASSUME NEW t \in Sock, NEW r \in Remote, t # s, at[t] \in Live,
                      flow_key(r, port[t]) \in config_map
               PROVE  flow_key(r, port[t]) \in config_map'
    BY <1>7 DEF DropFlow
  <2>1. cfg[s].proto = cfg[t].proto /\ fd[s] /\ fd[t]
    BY <1>7 DEF DropFlow, OneProtocol
  <2>2. port[t] # port[s]
    BY <2>1 DEF Ports
  <2> QED BY <1>7, <2>2 DEF DropFlow
<1>8. ASSUME NEW s \in Sock, DropSlot(s) PROVE Tracked'
  BY <1>8 DEF DropSlot
<1>9. ASSUME NEW s \in Sock, DropPort(s) PROVE Tracked'
  BY <1>9 DEF DropPort
<1>10. ASSUME NEW s \in Sock, DropXsk(s) PROVE Tracked'
  BY <1>10 DEF DropXsk, CloseXsk
<1>11. ASSUME NEW i \in Iface, Attach(i) \/ Detach(i) PROVE Tracked'
  BY <1>11 DEF Attach, Detach, own
<1>12. ASSUME NEW c \in HostConns, HostConnect(c) \/ HostClose(c) PROVE Tracked'
  BY <1>12 DEF HostConnect, HostClose, own
<1>13. CASE UNCHANGED vars
  BY <1>13 DEF vars, own
<1> QED BY <1>1, <1>2, <1>3, <1>4, <1>5, <1>6, <1>7, <1>8,
           <1>9, <1>10, <1>11, <1>12, <1>13
        DEF Next, SocketStep

LEMMA NextOwned ==
  ASSUME TypeOK, Life, Owned, [Next]_vars
  PROVE  Owned'
<1> USE ConstantsAssumption DEF TypeOK, Owned, Life, Live, Flows, flow_key
<1>1. ASSUME NEW s \in Sock, Bind(s) PROVE Owned'
  BY <1>1 DEF Bind
<1>2. ASSUME NEW s \in Sock, Register(s) PROVE Owned'
  BY <1>2 DEF Register, CloseXsk
<1>3. ASSUME NEW s \in Sock, Reserve(s) PROVE Owned'
  BY <1>3 DEF Reserve, CloseXsk
<1>4. ASSUME NEW s \in Sock, NEW r \in Remote, AddFlow(s, r) PROVE Owned'
  BY <1>4 DEF AddFlow
<1>5. ASSUME NEW s \in Sock, StartConnect(s) PROVE Owned'
  BY <1>5 DEF StartConnect
<1>6. ASSUME NEW s \in Sock, TcpOver(s) PROVE Owned'
  BY <1>6 DEF TcpOver
<1>7. ASSUME NEW s \in Sock, DropFlow(s) PROVE Owned'
  BY <1>7 DEF DropFlow
<1>8. ASSUME NEW s \in Sock, DropSlot(s) PROVE Owned'
  BY <1>8 DEF DropSlot
<1>9. ASSUME NEW s \in Sock, DropPort(s) PROVE Owned'
  BY <1>9 DEF DropPort
<1>10. ASSUME NEW s \in Sock, DropXsk(s) PROVE Owned'
  BY <1>10 DEF DropXsk, CloseXsk
<1>11. ASSUME NEW i \in Iface, Attach(i) \/ Detach(i) PROVE Owned'
  BY <1>11 DEF Attach, Detach, own
<1>12. ASSUME NEW c \in HostConns, HostConnect(c) \/ HostClose(c) PROVE Owned'
  BY <1>12 DEF HostConnect, HostClose, own
<1>13. CASE UNCHANGED vars
  BY <1>13 DEF vars, own
<1> QED BY <1>1, <1>2, <1>3, <1>4, <1>5, <1>6, <1>7, <1>8,
           <1>9, <1>10, <1>11, <1>12, <1>13
        DEF Next, SocketStep

-----------------------------------------------------------------------------
(* 3. Theorems *)

SocketsInv == TypeOK /\ Life /\ Slots /\ Ports /\ Hosts

LEMMA InitInv ==
  ASSUME Init
  PROVE  SocketsInv /\ Registered /\ Tracked /\ Owned
<1> USE ConstantsAssumption
<1>1. TypeOK
  BY DEF Init, TypeOK, Stages, Flows, HostConns
<1>2. Life
  BY DEF Init, Life, Live
<1>3. Slots
  BY DEF Init, Slots
<1>4. Ports /\ Hosts
  BY DEF Init, Ports, Hosts
<1>5. Registered
  BY DEF Init, Registered, Live
<1>6. Tracked /\ Owned
  BY DEF Init, Tracked, Owned, Live
<1> QED BY <1>1, <1>2, <1>3, <1>4, <1>5, <1>6 DEF SocketsInv

LEMMA NextInv ==
  ASSUME SocketsInv, [Next]_vars
  PROVE  SocketsInv'
BY NextType, NextLife, NextSlots, NextPorts, NextHosts DEF SocketsInv

LEMMA AlwaysInv == Spec => []SocketsInv
BY InitInv, NextInv, PTL DEF Spec

\* Every variable keeps its type whatever the sockets, the caller and the
\* host's own processes do: in particular only keys of a port that was read
\* back from its reservation get into config_map.
THEOREM SocketsTypeCorrect == Spec => []TypeOK
<1>1. SocketsInv => TypeOK
  BY DEF SocketsInv
<1> QED BY <1>1, AlwaysInv, PTL

\* A socket that xsks_map names is bound to a queue of that number, through
\* every construction that fails half way and every Drop that is interrupted
\* by other sockets.
THEOREM RedirectsLand == Spec => []RedirectLands
<1>1. ASSUME SocketsInv PROVE RedirectLands
  <2> SUFFICES ASSUME NEW q \in Queue, xsks_map[q] # None
               PROVE  \E i \in Iface : pool[<<i, q>>] = xsks_map[q]
    BY DEF RedirectLands
  <2>1. xsks_map[q] \in Sock
    BY <1>1 DEF SocketsInv, TypeOK
  <2>2. cfg[xsks_map[q]].iface \in Iface
    BY <1>1, <2>1 DEF SocketsInv, TypeOK, Config
  <2>3. cfg[xsks_map[q]].queue = q /\ at[xsks_map[q]] # "none"
    BY <1>1 DEF SocketsInv, Slots
  <2>4. pool[<<cfg[xsks_map[q]].iface, q>>] = xsks_map[q]
    BY <1>1, <2>1, <2>3 DEF SocketsInv, Slots
  <2> QED BY <2>2, <2>4
<1> QED BY <1>1, AlwaysInv, PTL

\* On a host whose sockets share one interface and one protocol, the packets
\* of a connected socket's flow on its queue are redirected to that socket,
\* from the end of its connect to the start of its Drop.
THEOREM FlowsDelivered ==
  ASSUME OneInterface, OneProtocol
  PROVE  Spec => []Delivered
<1> DEFINE Inv == SocketsInv /\ Registered /\ Tracked
<1>1. Init => Inv
  BY InitInv
<1>2. Inv /\ [Next]_vars => Inv'
  BY NextInv, NextRegistered, NextTracked DEF SocketsInv
<1>3. ASSUME Inv PROVE Delivered
  <2> SUFFICES ASSUME NEW s \in Sock, at[s] \in Live, remote[s] # None,
                      cfg[s].iface \in attached
               PROVE  xdp_redirect_flow(Inbound(s), cfg[s].iface, cfg[s].queue) = s
    BY DEF Delivered, Live
  <2>1. cfg[s].proto \in {"tcp", "udp"}
    BY <1>3, ConstantsAssumption DEF SocketsInv, TypeOK, Config
  <2>2. flow_tracked(Inbound(s))
    BY <1>3 DEF Tracked, flow_tracked, Inbound, flow_key
  <2>3. xsks_map[cfg[s].queue] = s
    BY <1>3 DEF Registered
  <2>4. Inbound(s).proto = cfg[s].proto
    BY DEF Inbound
  <2> QED BY <2>1, <2>2, <2>3, <2>4 DEF xdp_redirect_flow
<1> QED BY <1>1, <1>2, <1>3, PTL DEF Spec

\* A flow in config_map names the port of a socket that has not begun its
\* Drop, but for the flows that no Socket.remote ever recorded or that a later
\* connect replaced there: Drop removes everything it can know of.
THEOREM FlowsOwned == Spec => []OrphansAreStray
<1> DEFINE Inv == SocketsInv /\ Owned
<1>1. Init => Inv
  BY InitInv
<1>2. Inv /\ [Next]_vars => Inv'
  BY NextInv, NextOwned DEF SocketsInv
<1>3. Inv => OrphansAreStray
  BY DEF Owned, OrphansAreStray, Live
<1> QED BY <1>1, <1>2, <1>3, PTL DEF Spec

\* The host's own connections keep their packets, for any number of them and
\* whatever ports they are given, when the sockets have one protocol: only a
\* flow that was left behind can take them.
THEOREM HostKeepsItsPackets ==
  ASSUME OneProtocol
  PROVE  Spec => []HostLosesToStraysOnly
<1> DEFINE Inv == SocketsInv /\ Owned
<1>1. Init => Inv
  BY InitInv
<1>2. Inv /\ [Next]_vars => Inv'
  BY NextInv, NextOwned DEF SocketsInv
<1>3. ASSUME Inv PROVE HostLosesToStraysOnly
  <2> SUFFICES ASSUME NEW c \in host, flow_tracked(c),
                      flow_key(c.remote, c.port) \notin stray
               PROVE  FALSE
    BY DEF HostLosesToStraysOnly, xdp_redirect_flow
  <2>1. PICK s \in Sock : at[s] \in Live /\ c.port = port[s]
    BY <1>3 DEF Owned, flow_tracked, flow_key
  <2>2. fd[s]
    BY <1>3, <2>1 DEF SocketsInv, Life
  <2>3. cfg[s].proto \in Protos /\ c.proto \in Protos
    BY <1>3 DEF SocketsInv, TypeOK, Config, HostConns
  <2>4. cfg[s].proto = c.proto
    BY <2>3 DEF OneProtocol
  <2> QED BY <1>3, <2>1, <2>2, <2>4 DEF SocketsInv, Hosts
<1> QED BY <1>1, <1>2, <1>3, PTL DEF Spec

\* Where no socket connects to two remotes and no TCP socket to a remote it
\* cannot address, no flow is ever left behind.
LEMMA NextUnstrayed ==
  ASSUME OneFlowEach, Addressable, SocketsInv, stray = {}, [Next]_vars
  PROVE  stray' = {}
<1>1. ASSUME NEW s \in Sock, StartConnect(s) PROVE stray' = {}
  <2>1. cfg[s].proto \in Protos /\ target[s] \in Remote
    BY <1>1 DEF SocketsInv, TypeOK, Config, Life, StartConnect
  <2>2. connects[s] \in Nat /\ connects[s] <= MAX_CONNECTS
    BY ConstantsAssumption DEF SocketsInv, TypeOK
  <2>3. MAX_CONNECTS <= 1 => connects[s] <= 1
    BY <2>2, ConstantsAssumption
  <2>4. remote[s] \in {None, target[s]}
    <3>1. CASE \A r, q \in Remote : r = q
      BY <2>1, <3>1 DEF SocketsInv, TypeOK
    <3>2. CASE MAX_CONNECTS <= 1
      BY <1>1, <2>3, <3>2 DEF SocketsInv, Life, StartConnect
    <3> QED BY <3>1, <3>2 DEF OneFlowEach
  <2>5. remote'[s] = target[s]
    <3>1. CASE cfg[s].proto = "tcp" /\ (tcp_open[s] \/ target[s] \in Unaddressable)
      <4>1. tcp_open[s]
        BY <2>1, <3>1 DEF Addressable
      <4>2. remote[s] # None
        BY <4>1 DEF SocketsInv, Life
      <4> QED BY <1>1, <2>4, <3>1, <4>2 DEF StartConnect
    <3>2. CASE ~(cfg[s].proto = "tcp" /\ (tcp_open[s] \/ target[s] \in Unaddressable))
      BY <1>1, <3>2 DEF StartConnect, SocketsInv, TypeOK
    <3> QED BY <3>1, <3>2
  <2>6. \A r \in {remote[s], target[s]} \ {None} : r = target[s]
    BY <2>4
  <2> QED BY <1>1, <2>5, <2>6 DEF StartConnect
<1>2. ASSUME NEW s \in Sock, SocketStep(s), ~StartConnect(s) PROVE stray' = {}
  BY <1>2 DEF SocketStep, Bind, Register, Reserve, AddFlow, TcpOver, DropFlow,
              DropSlot, DropPort, DropXsk
<1>3. ASSUME NEW i \in Iface, Attach(i) \/ Detach(i) PROVE stray' = {}
  BY <1>3 DEF Attach, Detach
<1>4. ASSUME NEW c \in HostConns, HostConnect(c) \/ HostClose(c) PROVE stray' = {}
  BY <1>4 DEF HostConnect, HostClose
<1>5. CASE UNCHANGED vars
  BY <1>5 DEF vars
<1> QED BY <1>1, <1>2, <1>3, <1>4, <1>5 DEF Next

LEMMA NeverStray ==
  ASSUME OneFlowEach, Addressable
  PROVE  Spec => [](stray = {})
<1> DEFINE Inv == SocketsInv /\ stray = {}
<1>1. Init => Inv
  BY InitInv DEF Init
<1>2. Inv /\ [Next]_vars => Inv'
  BY NextInv, NextUnstrayed
<1> QED BY <1>1, <1>2, PTL DEF Spec

\* Drop then removes exactly what the socket registered (spec.md:120).
THEOREM DropIsExact ==
  ASSUME OneFlowEach, Addressable
  PROVE  Spec => []NoOrphanFlow
<1>1. OrphansAreStray /\ stray = {} => NoOrphanFlow
  BY DEF OrphansAreStray, NoOrphanFlow
<1>2. Spec => [](stray = {})
  BY NeverStray
<1> QED BY <1>1, <1>2, FlowsOwned, PTL

\* And with one protocol as well, no packet of a connection of the host's own
\* is ever taken from its stack (socket.rs:241).
THEOREM HostIsUntouched ==
  ASSUME OneProtocol, OneFlowEach, Addressable
  PROVE  Spec => []HostUntouched
<1>1. HostLosesToStraysOnly /\ stray = {} => HostUntouched
  BY DEF HostLosesToStraysOnly, HostUntouched
<1>2. Spec => [](stray = {})
  BY NeverStray
<1>3. Spec => []HostLosesToStraysOnly
  BY HostKeepsItsPackets
<1> QED BY <1>1, <1>2, <1>3, PTL

=============================================================================
