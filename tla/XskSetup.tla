------------------------------- MODULE XskSetup -------------------------------
(***************************************************************************)
(* Building an AF_XDP socket on one queue of one interface (socket.rs:     *)
(* attach_xdp, Socket::new, Xsk::new, map_umem, frame_size_for and the     *)
(* Drops of what they make).                                               *)
(*                                                                         *)
(* Construction is a row of system calls and each may fail.  What the      *)
(* process holds by then is released by a Drop, by hand, or not at all.    *)
(* A caller may construct again, and another process may want the queue.   *)
(***************************************************************************)
EXTENDS Naturals

CONSTANTS
  Confs, \* what a socket may be built with: mtu, hugepage and xdp_mode
  Pages, \* page sizes a host may have
  Nics   \* drivers: do they have native XDP, and the zero-copy path?

FRAME_COUNT == 4096
MIN_CHUNK_SIZE == 2048
ETH_HDR_LEN == 14
UDP_OVERHEAD == 28

ASSUME SetupAssumption ==
  /\ Confs \subseteq [mtu : Nat, hugepage : {"Off", "Mb2", "Gb1"},
                      xdp_mode : {"copy", "zerocopy", "auto"}]
  /\ \A c \in Confs : ETH_HDR_LEN + c.mtu <= 2 ^ 30 \* next_power_of_two's range
  /\ Pages \subseteq {2 ^ k : k \in 12 .. 16}         \* 4 to 64 KiB
  /\ Nics \subseteq [native : BOOLEAN, zc : BOOLEAN]
  /\ \A n \in Nics : n.zc => n.native

VARIABLES
  nic,    \* the interface's driver
  page,   \* the host's page size
  xdp,    \* kernel: the mode the program is attached in, or "none"
  guard,  \* the caller's XdpAttachment: the mode it remembers, or "none"
  denied, \* would the native attach have failed, on a driver that has it?
  conf,   \* the Config of the socket
  at,     \* the step of Socket::new that comes next, "none" or "open"
  held,   \* what the construction or the socket owns
  lost,   \* what the last one left allocated with no owner
  failed, \* the step at which the last construction failed, or "no"
  backed, \* the pages under the UMEM
  bound,  \* bind_label, or "no"
  queue   \* kernel: who has the queue: "free", "ours" or "other"

host   == <<nic, page>>
attach == <<xdp, guard, denied>>
build  == <<conf, at, held, lost, failed, backed, bound, queue>>
setup  == <<host, attach, build>>

-----------------------------------------------------------------------------
(* Frame geometry *)

next_power_of_two(n) ==
  CHOOSE p \in {2 ^ k : k \in 0 .. 30} : n <= p /\ (p = 1 \/ p \div 2 < n)

AtLeast(a, b) == IF a > b THEN a ELSE b

\* Mutant: the Ethernet header is forgotten.
frame_size_for_NoHeader(mtu, pg) ==
  LET size == AtLeast(next_power_of_two(mtu), MIN_CHUNK_SIZE)
  IN  IF size > pg THEN 0 ELSE size

\* 0 stands for the error: an aligned chunk cannot be larger than a page.
frame_size_for(mtu, pg) ==
  LET size == AtLeast(next_power_of_two(ETH_HDR_LEN + mtu), MIN_CHUNK_SIZE)
  IN  IF size > pg THEN 0 ELSE size

frame_size == frame_size_for(conf.mtu, page)
umem_len   == frame_size * FRAME_COUNT

\* HugePage::bytes
PageBytes(h) == CASE h = "Off" -> page [] h = "Mb2" -> 2 ^ 21 [] h = "Gb1" -> 2 ^ 30

-----------------------------------------------------------------------------
(* What Drop releases, and how a construction ends. *)

Rings     == {"fill", "comp", "rx", "tx"}
Resources == {"fd", "umem"} \cup Rings

\* Mutant: Drop for Xsk unmaps the UMEM only.
DropXsk_Open == {"umem"}

DropXsk == {"umem", "fd"}

\* Mutant: a ring stays mapped.
DropRing_Mapped == {}

DropRing == Rings

\* The socket lives, and keeps the queue, while its descriptor is open or one
\* of its rings is mapped.
Alive(rest) == rest \cap ({"fd"} \cup Rings) # {}

\* The owner is gone having released freed; the rest is lost.
Ends(why, freed) ==
  /\ at' = "none" /\ held' = {} /\ failed' = why
  /\ lost' = held \ freed
  /\ queue' = IF queue = "ours" /\ ~Alive(held \ freed) THEN "free" ELSE queue
  /\ bound' = "no" /\ backed' = "no"
  /\ UNCHANGED <<host, attach, conf>>

\* The step succeeds and the socket owns what too.
Steps(a, b, what) ==
  /\ at = a /\ at' = b
  /\ held' = held \cup what
  /\ UNCHANGED <<host, attach, conf, lost, failed>>

Fails(a, freed) == at = a /\ Ends(a, freed)

SetupInit ==
  /\ nic \in Nics /\ page \in Pages
  /\ xdp = "none" /\ guard = "none" /\ denied = FALSE
  /\ conf \in Confs /\ at = "none" /\ held = {}
  /\ lost = {} /\ failed = "no" /\ backed = "no" /\ bound = "no"
  /\ queue = "free"

-----------------------------------------------------------------------------
(* attach_xdp, native mode first, and XdpAttachment's Drop. *)

\* Mutant: generic mode first.
attach_modes_Swapped == <<"generic", "native">>

\* The order of the loop.
attach_modes == <<"native", "generic">>

\* The first mode that the kernel accepts, of those that would work this time;
\* any error of the native attach leads to the generic one, and a driver that
\* has native XDP may refuse it all the same.  When both modes fail nothing is
\* attached and nothing changes.
Attach ==
  /\ guard = "none"
  /\ \E works \in SUBSET {"native", "generic"}, i \in DOMAIN attach_modes :
       /\ "native" \in works => nic.native
       /\ attach_modes[i] \in works
       /\ \A j \in 1 .. i - 1 : attach_modes[j] \notin works
       /\ xdp' = attach_modes[i] /\ guard' = attach_modes[i]
       /\ denied' = (nic.native /\ "native" \notin works)
  /\ UNCHANGED <<host, build>>

\* The kernel detaches only what is attached in the mode that is named.
Detach ==
  /\ guard # "none"
  /\ xdp' = IF xdp = guard THEN "none" ELSE xdp
  /\ guard' = "none" /\ denied' = FALSE
  /\ UNCHANGED <<host, build>>

-----------------------------------------------------------------------------
(* Socket::new, up to the xsks_map and the port, which Sockets models. *)

\* The MTU is looked at before anything is made.
New ==
  /\ at = "none"
  /\ conf' \in Confs
  /\ lost' = {}
  /\ IF conf'.mtu <= UDP_OVERHEAD \/ frame_size_for(conf'.mtu, page) = 0
     THEN at' = "none" /\ failed' = "mtu"
     ELSE at' = "socket" /\ failed' = "no"
  /\ UNCHANGED <<host, attach, held, backed, bound, queue>>

OpenFd ==
  \/ Steps("socket", "umem", {"fd"}) /\ UNCHANGED <<backed, bound, queue>>
  \/ Fails("socket", {})

\* Huge pages if the length is a multiple and the pool has them, else normal
\* ones; without either the descriptor is closed by hand.
map_umem ==
  \/ /\ Steps("umem", "options", {"umem"})
     /\ backed' \in {"Off"} \cup
          {h \in {conf.hugepage} : umem_len % PageBytes(h) = 0}
     /\ UNCHANGED <<bound, queue>>
  \/ Fails("umem", {"fd"})

\* XDP_UMEM_REG and the four ring sizes; "?" returns with nothing released.
SetOptions ==
  \/ Steps("options", "offsets", {}) /\ UNCHANGED <<backed, bound, queue>>
  \/ Fails("options", {})

\* XDP_MMAP_OFFSETS: the descriptor is closed by hand, the UMEM stays.
GetOffsets ==
  \/ Steps("offsets", "fill", {}) /\ UNCHANGED <<backed, bound, queue>>
  \/ Fails("offsets", {"fd"})

\* Ring::map: on an error the rings mapped so far are dropped.
MapRing(r, next) ==
  \/ Steps(r, next, {r}) /\ UNCHANGED <<backed, bound, queue>>
  \/ Fails(r, DropRing)

\* XdpMode::attempts: what bind is asked for, in order.
attempts(mode) == CASE mode = "copy" -> <<"copy mode">>
                    [] mode = "zerocopy" -> <<"zero-copy">>
                    [] mode = "auto" -> <<"zero-copy", "copy mode">>

\* The struct is built; the first attempt that takes gives the socket its mode.
\* One fails where the queue is taken or the driver has no zero-copy path, and
\* may fail for other reasons.  A failure from here on drops the Xsk.
Bind ==
  \/ /\ queue = "free"
     /\ \E i \in DOMAIN attempts(conf.xdp_mode) :
          /\ bound' = attempts(conf.xdp_mode)[i]
          /\ bound' = "zero-copy" => nic.zc
     /\ Steps("bind", "register", {})
     /\ queue' = "ours"
     /\ UNCHANGED backed
  \/ Fails("bind", DropXsk \cup DropRing)

\* xsks_map.update and PortReservation::take.
Register ==
  \/ Steps("register", "open", {}) /\ UNCHANGED <<backed, bound, queue>>
  \/ Fails("register", DropXsk \cup DropRing)

Drop == at = "open" /\ Ends("no", DropXsk \cup DropRing)

\* Another process takes the queue, or gives it back.
OtherBinds ==
  /\ queue = "free" /\ queue' = "other"
  /\ UNCHANGED <<host, attach, conf, at, held, lost, failed, backed, bound>>

OtherLeaves ==
  /\ queue = "other" /\ queue' = "free"
  /\ UNCHANGED <<host, attach, conf, at, held, lost, failed, backed, bound>>

\* Everything but Drop and the actions of an open socket.
SetupNext ==
  \/ Attach \/ Detach
  \/ New \/ OpenFd \/ map_umem \/ SetOptions \/ GetOffsets
  \/ MapRing("fill", "comp") \/ MapRing("comp", "rx")
  \/ MapRing("rx", "tx") \/ MapRing("tx", "bind")
  \/ Bind \/ Register
  \/ OtherBinds \/ OtherLeaves

-----------------------------------------------------------------------------

SetupTypeOK ==
  /\ nic \in Nics /\ page \in Pages /\ conf \in Confs
  /\ xdp \in {"none", "native", "generic"}
  /\ guard \in {"none", "native", "generic"} /\ denied \in BOOLEAN
  /\ at \in {"none", "socket", "umem", "options", "offsets", "bind",
             "register", "open"} \cup Rings
  /\ held \subseteq Resources /\ lost \subseteq Resources
  /\ failed \in {"no", "mtu", "socket", "umem", "options", "offsets", "bind",
                 "register"} \cup Rings
  /\ backed \in {"no", "Off", "Mb2", "Gb1"}
  /\ bound \in {"no", "zero-copy", "copy mode"}
  /\ queue \in {"free", "ours", "other"}

\* The queue is ours exactly while an Xsk value is bound to it: no failure and
\* no Drop leaves it taken, so the next bind does not fail EBUSY on our account
\* (Drop for Xsk and Ring, socket.rs:919 and 1212; spec.md:112).
QueueHeld == (queue = "ours") <=> (bound # "no" /\ at \in {"register", "open"})

\* A construction that fails loses nothing, unless it fails between the UMEM's
\* registration and the last ring's mapping (socket.rs:981-1030); then the UMEM
\* is lost, and the descriptor too except where it is closed by hand.  No ring
\* stays mapped, and a socket that got bound is released whole.
LeakBound ==
  lost = CASE failed \in {"options"} \cup Rings -> {"fd", "umem"}
           [] failed = "offsets" -> {"umem"}
           [] OTHER -> {}

\* The attachment's guard knows the mode the kernel runs the program in, so
\* that its Drop detaches it; and a zero-copy socket sits on a generic
\* attachment, which cannot feed it, only where the native one would have
\* failed: it is never passed over (the loop of attach_xdp, socket.rs:447).
Fed ==
  /\ guard = xdp
  /\ bound = "zero-copy" /\ xdp = "generic" => denied

\* A socket under construction or open has frames that hold the largest packet
\* of its link with the Ethernet header, tile the UMEM's pages without one
\* crossing a boundary, are a power of two (frame_base masks with it), and are
\* no larger than they must be; huge pages are used only where they divide the
\* UMEM (frame_size_for, map_umem).
Geometry ==
  at # "none" =>
    /\ ETH_HDR_LEN + conf.mtu <= frame_size
    /\ frame_size \in {2 ^ k : k \in 0 .. 30} /\ page % frame_size = 0
    /\ frame_size > MIN_CHUNK_SIZE => frame_size \div 2 < ETH_HDR_LEN + conf.mtu
    /\ backed # "no" => umem_len % PageBytes(backed) = 0

===============================================================================
