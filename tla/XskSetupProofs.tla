---------------------------- MODULE XskSetupProofs ----------------------------
(***************************************************************************)
(* Lemmas about XskSetup: the frame geometry for every link and page size, *)
(* and what each step of a construction, an attachment or a Drop preserves.*)
(* UdpSocketProofs combines them with the open socket's steps.             *)
(***************************************************************************)
EXTENDS XskSetup, TLAPS

-----------------------------------------------------------------------------
(* Frame geometry *)

\* 2 ^ k under a name: of the operator ^ itself the provers know only what it
\* makes of a literal.
pow(k) == 2 ^ k

Powers ==
  {1, 2, 4, 8, 16, 32, 64, 128, 256, 512, 1024, 2048, 4096, 8192, 16384,
   32768, 65536, 131072, 262144, 524288, 1048576, 2097152, 4194304,
   8388608, 16777216, 33554432, 67108864, 134217728, 268435456, 536870912,
   1073741824}

LEMMA PowerValues ==
  /\ pow(0) = 1 /\ pow(1) = 2 /\ pow(2) = 4 /\ pow(3) = 8 /\ pow(4) = 16
  /\ pow(5) = 32 /\ pow(6) = 64 /\ pow(7) = 128 /\ pow(8) = 256
  /\ pow(9) = 512 /\ pow(10) = 1024 /\ pow(11) = 2048 /\ pow(12) = 4096
  /\ pow(13) = 8192 /\ pow(14) = 16384 /\ pow(15) = 32768 /\ pow(16) = 65536
  /\ pow(17) = 131072 /\ pow(18) = 262144 /\ pow(19) = 524288
  /\ pow(20) = 1048576 /\ pow(21) = 2097152 /\ pow(22) = 4194304
  /\ pow(23) = 8388608 /\ pow(24) = 16777216 /\ pow(25) = 33554432
  /\ pow(26) = 67108864 /\ pow(27) = 134217728 /\ pow(28) = 268435456
  /\ pow(29) = 536870912 /\ pow(30) = 1073741824
BY SMT DEF pow

LEMMA PowersAre == {2 ^ k : k \in 0 .. 30} = Powers
<1>1. {2 ^ k : k \in 0 .. 30} = {pow(k) : k \in 0 .. 30}
  BY DEF pow
<1>2. ASSUME NEW k \in 0 .. 30 PROVE pow(k) \in Powers
  BY PowerValues DEF Powers
<1>3. ASSUME NEW p \in Powers PROVE p \in {pow(k) : k \in 0 .. 30}
  BY PowerValues DEF Powers
<1> QED BY <1>1, <1>2, <1>3

LEMMA PagesAre == Pages \subseteq {4096, 8192, 16384, 32768, 65536}
<1>1. {2 ^ k : k \in 12 .. 16} = {pow(k) : k \in 12 .. 16}
  BY DEF pow
<1>2. ASSUME NEW k \in 12 .. 16 PROVE pow(k) \in {4096, 8192, 16384, 32768, 65536}
  BY PowerValues
<1> QED BY <1>1, <1>2, SetupAssumption

\* The CHOOSE of next_power_of_two finds what it asks for.
LEMMA NextPower ==
  ASSUME NEW n \in Nat, n <= 2 ^ 30
  PROVE  LET p == next_power_of_two(n) IN
         p \in Powers /\ n <= p /\ (p = 1 \/ p \div 2 < n)
<1>1. n <= 1073741824
  BY PowerValues DEF pow
<1>2. \E p \in Powers : n <= p /\ (p = 1 \/ p \div 2 < n)
  BY <1>1 DEF Powers
<1>3. \E p \in {2 ^ k : k \in 0 .. 30} : n <= p /\ (p = 1 \/ p \div 2 < n)
  BY <1>2, PowersAre
<1>4. LET p == next_power_of_two(n) IN
      p \in {2 ^ k : k \in 0 .. 30} /\ n <= p /\ (p = 1 \/ p \div 2 < n)
  BY <1>3, Zenon DEF next_power_of_two
<1> QED BY <1>4, PowersAre

\* What frame_size_for returns, where it does not fail.
LEMMA FrameSize ==
  ASSUME NEW mtu \in Nat, ETH_HDR_LEN + mtu <= 2 ^ 30, NEW pg \in Pages,
         frame_size_for(mtu, pg) # 0
  PROVE  LET size == frame_size_for(mtu, pg) IN
         /\ size \in {2048, 4096, 8192, 16384, 32768, 65536}
         /\ ETH_HDR_LEN + mtu <= size
         /\ size > MIN_CHUNK_SIZE => size \div 2 < ETH_HDR_LEN + mtu
         /\ pg % size = 0
         /\ (size * FRAME_COUNT) % pg = 0
<1> DEFINE n    == ETH_HDR_LEN + mtu
           p    == next_power_of_two(n)
           size == frame_size_for(mtu, pg)
<1>1. n \in Nat
  BY DEF ETH_HDR_LEN
<1>2. p \in Powers /\ n <= p /\ (p = 1 \/ p \div 2 < n)
  BY <1>1, NextPower
<1>3. pg \in {4096, 8192, 16384, 32768, 65536}
  BY PagesAre
<1>4. size = (IF p > 2048 THEN p ELSE 2048) /\ size <= pg
  <2> HIDE DEF p
  <2>1. p \in Nat
    BY <1>2 DEF Powers
  <2> QED BY <1>3, <2>1 DEF frame_size_for, AtLeast, MIN_CHUNK_SIZE, p
<1> HIDE DEF size, p, n
<1>5. size \in {2048, 4096, 8192, 16384, 32768, 65536}
  BY <1>2, <1>3, <1>4 DEF Powers
<1>6. n <= size
  BY <1>1, <1>2, <1>4 DEF Powers
<1>7. size > 2048 => size \div 2 < n
  BY <1>1, <1>2, <1>4 DEF Powers
<1>8. pg % size = 0 /\ (size * 4096) % pg = 0
  BY <1>3, <1>4, <1>5
<1> QED BY <1>5, <1>6, <1>7, <1>8 DEF size, n, MIN_CHUNK_SIZE, FRAME_COUNT

-----------------------------------------------------------------------------
(* The steps *)

\* Every step that changes the setup: construction, attachment, Drop, and the
\* other processes.
SetupStep == SetupNext \/ Drop \/ UNCHANGED setup

\* What a construction owns when step a comes next.
Owns(a) ==
  CASE a \in {"none", "socket"} -> {}
    [] a = "umem" -> {"fd"}
    [] a \in {"options", "offsets", "fill"} -> {"fd", "umem"}
    [] a = "comp" -> {"fd", "umem", "fill"}
    [] a = "rx" -> {"fd", "umem", "fill", "comp"}
    [] a = "tx" -> {"fd", "umem", "fill", "comp", "rx"}
    [] a \in {"bind", "register", "open"} -> Resources

Owned == held = Owns(at)

\* A bound Xsk is past its bind, and then the queue is its own.
BoundAt == bound # "no" => at \in {"register", "open"}

\* Zero-copy is a native driver's, and such a driver's generic attachment is
\* one it forced.
Forced ==
  /\ bound = "zero-copy" => nic.zc
  /\ xdp = "generic" /\ nic.native => denied

\* The MTU was looked at, and the UMEM has pages only while there is one.
Sized ==
  /\ at # "none" => conf.mtu > UDP_OVERHEAD /\ frame_size # 0
  /\ at = "none" => backed = "no"
  /\ backed # "no" => umem_len % PageBytes(backed) = 0

SetupInv ==
  /\ SetupTypeOK /\ Owned /\ BoundAt /\ QueueHeld /\ LeakBound
  /\ Fed /\ Forced /\ Sized

\* SetupTypeOK in three parts: SMT does not do truth values, and sets of
\* resources get in its way.
Places ==
  /\ at \in {"none", "socket", "umem", "options", "offsets", "bind",
             "register", "open"} \cup Rings
  /\ failed \in {"no", "mtu", "socket", "umem", "options", "offsets", "bind",
                 "register"} \cup Rings
  /\ xdp \in {"none", "native", "generic"}
  /\ guard \in {"none", "native", "generic"}

Values ==
  /\ nic \in Nics /\ page \in Pages /\ conf \in Confs
  /\ backed \in {"no", "Off", "Mb2", "Gb1"}
  /\ bound \in {"no", "zero-copy", "copy mode"}
  /\ queue \in {"free", "ours", "other"}

\* An attempt of bind is for one of the two modes.
LEMMA Attempts ==
  ASSUME NEW mode \in {"copy", "zerocopy", "auto"},
         NEW i \in DOMAIN attempts(mode)
  PROVE  attempts(mode)[i] \in {"zero-copy", "copy mode"}
<1>1. CASE mode = "copy"
  <2>1. attempts(mode) = <<"copy mode">>
    BY <1>1 DEF attempts
  <2>2. DOMAIN <<"copy mode">> = {1} /\ <<"copy mode">>[1] = "copy mode"
    OBVIOUS
  <2> QED BY <2>1, <2>2, Zenon
<1>2. CASE mode = "zerocopy"
  <2>1. attempts(mode) = <<"zero-copy">>
    BY <1>2 DEF attempts
  <2>2. DOMAIN <<"zero-copy">> = {1} /\ <<"zero-copy">>[1] = "zero-copy"
    OBVIOUS
  <2> QED BY <2>1, <2>2, Zenon
<1>3. CASE mode = "auto"
  <2>1. attempts(mode) = <<"zero-copy", "copy mode">>
    BY <1>3 DEF attempts
  <2>2. /\ DOMAIN <<"zero-copy", "copy mode">> = {1, 2}
        /\ <<"zero-copy", "copy mode">>[1] = "zero-copy" /\ <<"zero-copy", "copy mode">>[2] = "copy mode"
    OBVIOUS
  <2> QED BY <2>1, <2>2, Zenon
<1> QED BY <1>1, <1>2, <1>3

LEMMA StepPlaces ==
  ASSUME Places, SetupStep
  PROVE  Places'
<1> USE DEF Places, Rings, host, attach
<1>1. CASE Attach
  BY <1>1 DEF Attach, host, build
<1>2. CASE Detach
  BY <1>2 DEF Detach, host, build
<1>3. CASE New
  BY <1>3 DEF New
<1>4. CASE OpenFd
  BY <1>4 DEF OpenFd, Steps, Fails, Ends
<1>5. CASE map_umem
  BY <1>5 DEF map_umem, Steps, Fails, Ends
<1>6. CASE SetOptions
  BY <1>6 DEF SetOptions, Steps, Fails, Ends
<1>7. CASE GetOffsets
  BY <1>7 DEF GetOffsets, Steps, Fails, Ends
<1>8. CASE MapRing("fill", "comp")
  BY <1>8 DEF MapRing, Steps, Fails, Ends, DropRing
<1>9. CASE MapRing("comp", "rx")
  BY <1>9 DEF MapRing, Steps, Fails, Ends, DropRing
<1>10. CASE MapRing("rx", "tx")
  BY <1>10 DEF MapRing, Steps, Fails, Ends, DropRing
<1>11. CASE MapRing("tx", "bind")
  BY <1>11 DEF MapRing, Steps, Fails, Ends, DropRing
<1>12. CASE Bind
  BY <1>12 DEF Bind, Steps, Fails, Ends, DropXsk, DropRing
<1>13. CASE Register
  BY <1>13 DEF Register, Steps, Fails, Ends, DropXsk, DropRing
<1>14. CASE Drop
  BY <1>14 DEF Drop, Ends, DropXsk, DropRing
<1>15. CASE OtherBinds
  BY <1>15 DEF OtherBinds
<1>16. CASE OtherLeaves
  BY <1>16 DEF OtherLeaves
<1>17. CASE UNCHANGED setup
  BY <1>17 DEF setup, host, attach, build
<1> QED BY <1>1, <1>2, <1>3, <1>4, <1>5, <1>6, <1>7, <1>8, <1>9,
           <1>10, <1>11, <1>12, <1>13, <1>14, <1>15, <1>16, <1>17
        DEF SetupStep, SetupNext

LEMMA StepValues ==
  ASSUME Values, SetupStep
  PROVE  Values'
<1> USE DEF Values, host, attach
<1>1. CASE Attach
  BY <1>1 DEF Attach, host, build
<1>2. CASE Detach
  BY <1>2 DEF Detach, host, build
<1>3. CASE New
  BY <1>3 DEF New
<1>4. CASE OpenFd
  BY <1>4 DEF OpenFd, Steps, Fails, Ends
<1>5. CASE map_umem
  <2>1. conf.hugepage \in {"Off", "Mb2", "Gb1"}
    BY SetupAssumption
  <2> QED BY <1>5, <2>1 DEF map_umem, Steps, Fails, Ends
<1>6. CASE SetOptions
  BY <1>6 DEF SetOptions, Steps, Fails, Ends
<1>7. CASE GetOffsets
  BY <1>7 DEF GetOffsets, Steps, Fails, Ends
<1>8. CASE MapRing("fill", "comp")
  BY <1>8 DEF MapRing, Steps, Fails, Ends, DropRing
<1>9. CASE MapRing("comp", "rx")
  BY <1>9 DEF MapRing, Steps, Fails, Ends, DropRing
<1>10. CASE MapRing("rx", "tx")
  BY <1>10 DEF MapRing, Steps, Fails, Ends, DropRing
<1>11. CASE MapRing("tx", "bind")
  BY <1>11 DEF MapRing, Steps, Fails, Ends, DropRing
<1>12. CASE Bind
  <2>1. ASSUME NEW i \in DOMAIN attempts(conf.xdp_mode)
        PROVE  attempts(conf.xdp_mode)[i] \in {"zero-copy", "copy mode"}
    <3>1. conf.xdp_mode \in {"copy", "zerocopy", "auto"}
      BY SetupAssumption
    <3> QED BY <3>1, Attempts
  <2>2. UNCHANGED <<nic, page, conf>>
    BY <1>12 DEF Bind, Steps, Fails, Ends
  <2>3. bound' \in {"no", "zero-copy", "copy mode"}
    BY <1>12, <2>1 DEF Bind, Fails, Ends
  <2>4. backed' \in {backed, "no"} /\ queue' \in {"free", "ours", "other"}
    BY <1>12 DEF Bind, Fails, Ends
  <2> QED BY <2>2, <2>3, <2>4
<1>13. CASE Register
  BY <1>13 DEF Register, Steps, Fails, Ends, DropXsk, DropRing
<1>14. CASE Drop
  BY <1>14 DEF Drop, Ends, DropXsk, DropRing
<1>15. CASE OtherBinds
  BY <1>15 DEF OtherBinds
<1>16. CASE OtherLeaves
  BY <1>16 DEF OtherLeaves
<1>17. CASE UNCHANGED setup
  BY <1>17 DEF setup, host, attach, build
<1> QED BY <1>1, <1>2, <1>3, <1>4, <1>5, <1>6, <1>7, <1>8, <1>9,
           <1>10, <1>11, <1>12, <1>13, <1>14, <1>15, <1>16, <1>17
        DEF SetupStep, SetupNext

LEMMA StepDenied ==
  ASSUME denied \in BOOLEAN, SetupStep
  PROVE  denied' \in BOOLEAN
<1>1. CASE Attach
  BY <1>1, Zenon DEF Attach
<1>2. CASE Detach
  BY <1>2, Zenon DEF Detach
<1>3. CASE UNCHANGED denied
  BY <1>3
<1> QED BY <1>1, <1>2, <1>3
  DEF SetupStep, SetupNext, New, OpenFd, map_umem, SetOptions, GetOffsets,
      MapRing, Bind, Register, Drop, Steps, Fails, Ends, OtherBinds,
      OtherLeaves, setup, attach

LEMMA StepOwned ==
  ASSUME Places, Owned, SetupStep
  PROVE  Owned'
<1> USE DEF Places, Owned, Owns, Resources, Rings
<1>1. CASE Attach
  BY <1>1 DEF Attach, host, build
<1>2. CASE Detach
  BY <1>2 DEF Detach, host, build
<1>3. CASE New
  BY <1>3 DEF New
<1>4. CASE OpenFd
  BY <1>4 DEF OpenFd, Steps, Fails, Ends
<1>5. CASE map_umem
  BY <1>5 DEF map_umem, Steps, Fails, Ends
<1>6. CASE SetOptions
  BY <1>6 DEF SetOptions, Steps, Fails, Ends
<1>7. CASE GetOffsets
  BY <1>7 DEF GetOffsets, Steps, Fails, Ends
<1>8. CASE MapRing("fill", "comp")
  BY <1>8 DEF MapRing, Steps, Fails, Ends, DropRing
<1>9. CASE MapRing("comp", "rx")
  BY <1>9 DEF MapRing, Steps, Fails, Ends, DropRing
<1>10. CASE MapRing("rx", "tx")
  BY <1>10 DEF MapRing, Steps, Fails, Ends, DropRing
<1>11. CASE MapRing("tx", "bind")
  BY <1>11 DEF MapRing, Steps, Fails, Ends, DropRing
<1>12. CASE Bind
  BY <1>12 DEF Bind, Steps, Fails, Ends, DropXsk, DropRing
<1>13. CASE Register
  BY <1>13 DEF Register, Steps, Fails, Ends, DropXsk, DropRing
<1>14. CASE Drop
  BY <1>14 DEF Drop, Ends, DropXsk, DropRing
<1>15. CASE OtherBinds
  BY <1>15 DEF OtherBinds
<1>16. CASE OtherLeaves
  BY <1>16 DEF OtherLeaves
<1>17. CASE UNCHANGED setup
  BY <1>17 DEF setup, host, attach, build
<1> QED BY <1>1, <1>2, <1>3, <1>4, <1>5, <1>6, <1>7, <1>8, <1>9,
           <1>10, <1>11, <1>12, <1>13, <1>14, <1>15, <1>16, <1>17
        DEF SetupStep, SetupNext

LEMMA StepLost ==
  ASSUME held \subseteq Resources, lost \subseteq Resources, SetupStep
  PROVE  lost' \subseteq Resources
<1>1. lost' = lost \/ lost' = {} \/ lost' \subseteq held
  BY DEF SetupStep, SetupNext, Attach, Detach, New, OpenFd, map_umem,
     SetOptions, GetOffsets, MapRing, Bind, Register, Drop, Steps, Fails,
     Ends, OtherBinds, OtherLeaves, setup, build
<1> QED BY <1>1

LEMMA StepType ==
  ASSUME SetupTypeOK, Owned, SetupStep
  PROVE  SetupTypeOK' /\ Owned'
<1>1. /\ Places /\ Values /\ denied \in BOOLEAN
      /\ held \subseteq Resources /\ lost \subseteq Resources
  BY DEF SetupTypeOK, Places, Values
<1>2. /\ Places' /\ Values' /\ denied' \in BOOLEAN
      /\ lost' \subseteq Resources /\ Owned'
  BY <1>1, StepPlaces, StepValues, StepDenied, StepLost, StepOwned
<1>3. held' \subseteq Resources
  BY <1>2 DEF Owned, Owns, Places, Resources, Rings
<1> QED BY <1>2, <1>3 DEF SetupTypeOK, Places, Values

LEMMA StepQueue ==
  ASSUME Places, Values, Owned, BoundAt, QueueHeld, SetupStep
  PROVE  BoundAt' /\ QueueHeld'
<1> USE DEF Places, Owned, Owns, BoundAt, QueueHeld, Alive, Resources, Rings
<1>1. CASE Attach
  BY <1>1 DEF Attach, host, build
<1>2. CASE Detach
  BY <1>2 DEF Detach, host, build
<1>3. CASE New
  BY <1>3 DEF New
<1>4. CASE OpenFd
  BY <1>4 DEF OpenFd, Steps, Fails, Ends
<1>5. CASE map_umem
  BY <1>5 DEF map_umem, Steps, Fails, Ends
<1>6. CASE SetOptions
  BY <1>6 DEF SetOptions, Steps, Fails, Ends
<1>7. CASE GetOffsets
  BY <1>7 DEF GetOffsets, Steps, Fails, Ends
<1>8. CASE MapRing("fill", "comp")
  BY <1>8 DEF MapRing, Steps, Fails, Ends, DropRing
<1>9. CASE MapRing("comp", "rx")
  BY <1>9 DEF MapRing, Steps, Fails, Ends, DropRing
<1>10. CASE MapRing("rx", "tx")
  BY <1>10 DEF MapRing, Steps, Fails, Ends, DropRing
<1>11. CASE MapRing("tx", "bind")
  BY <1>11 DEF MapRing, Steps, Fails, Ends, DropRing
<1>12. CASE Bind
  <2>1. CASE Fails("bind", DropXsk \cup DropRing)
    BY <2>1 DEF Fails, Ends, DropXsk, DropRing
  <2>2. CASE ~Fails("bind", DropXsk \cup DropRing)
    <3>1. /\ \E i \in DOMAIN attempts(conf.xdp_mode) :
               bound' = attempts(conf.xdp_mode)[i]
          /\ at' = "register" /\ queue' = "ours"
      BY <1>12, <2>2 DEF Bind, Steps
    <3>2. conf.xdp_mode \in {"copy", "zerocopy", "auto"}
      BY SetupAssumption DEF Values
    <3>3. bound' \in {"zero-copy", "copy mode"}
      BY <3>1, <3>2, Attempts
    <3> QED BY <3>1, <3>3
  <2> QED BY <2>1, <2>2
<1>13. CASE Register
  BY <1>13 DEF Register, Steps, Fails, Ends, DropXsk, DropRing
<1>14. CASE Drop
  BY <1>14 DEF Drop, Ends, DropXsk, DropRing
<1>15. CASE OtherBinds
  BY <1>15 DEF OtherBinds
<1>16. CASE OtherLeaves
  BY <1>16 DEF OtherLeaves
<1>17. CASE UNCHANGED setup
  BY <1>17 DEF setup, host, attach, build
<1> QED BY <1>1, <1>2, <1>3, <1>4, <1>5, <1>6, <1>7, <1>8, <1>9,
           <1>10, <1>11, <1>12, <1>13, <1>14, <1>15, <1>16, <1>17
        DEF SetupStep, SetupNext

LEMMA StepLeak ==
  ASSUME Places, Owned, LeakBound, SetupStep
  PROVE  LeakBound'
<1> USE DEF Places, Owned, Owns, LeakBound, Resources, Rings
<1>1. CASE Attach
  BY <1>1 DEF Attach, host, build
<1>2. CASE Detach
  BY <1>2 DEF Detach, host, build
<1>3. CASE New
  BY <1>3 DEF New
<1>4. CASE OpenFd
  BY <1>4 DEF OpenFd, Steps, Fails, Ends
<1>5. CASE map_umem
  BY <1>5 DEF map_umem, Steps, Fails, Ends
<1>6. CASE SetOptions
  BY <1>6 DEF SetOptions, Steps, Fails, Ends
<1>7. CASE GetOffsets
  BY <1>7 DEF GetOffsets, Steps, Fails, Ends
<1>8. CASE MapRing("fill", "comp")
  BY <1>8 DEF MapRing, Steps, Fails, Ends, DropRing
<1>9. CASE MapRing("comp", "rx")
  BY <1>9 DEF MapRing, Steps, Fails, Ends, DropRing
<1>10. CASE MapRing("rx", "tx")
  BY <1>10 DEF MapRing, Steps, Fails, Ends, DropRing
<1>11. CASE MapRing("tx", "bind")
  BY <1>11 DEF MapRing, Steps, Fails, Ends, DropRing
<1>12. CASE Bind
  BY <1>12 DEF Bind, Steps, Fails, Ends, DropXsk, DropRing
<1>13. CASE Register
  BY <1>13 DEF Register, Steps, Fails, Ends, DropXsk, DropRing
<1>14. CASE Drop
  BY <1>14 DEF Drop, Ends, DropXsk, DropRing
<1>15. CASE OtherBinds
  BY <1>15 DEF OtherBinds
<1>16. CASE OtherLeaves
  BY <1>16 DEF OtherLeaves
<1>17. CASE UNCHANGED setup
  BY <1>17 DEF setup, host, attach, build
<1> QED BY <1>1, <1>2, <1>3, <1>4, <1>5, <1>6, <1>7, <1>8, <1>9,
           <1>10, <1>11, <1>12, <1>13, <1>14, <1>15, <1>16, <1>17
        DEF SetupStep, SetupNext

\* Native mode is tried first, so generic mode means that it did not work.
LEMMA NativeFirst ==
  ASSUME Attach
  PROVE  /\ guard' = xdp' /\ UNCHANGED <<host, build>>
         /\ xdp' = "generic" /\ nic.native => denied'
<1>1. DOMAIN attach_modes = {1, 2} /\ attach_modes[1] = "native" /\ attach_modes[2] = "generic"
  BY DEF attach_modes
<1>2. PICK works \in SUBSET {"native", "generic"}, i \in DOMAIN attach_modes :
        /\ \A j \in 1 .. i - 1 : attach_modes[j] \notin works
        /\ xdp' = attach_modes[i] /\ guard' = attach_modes[i]
        /\ denied' = (nic.native /\ "native" \notin works)
  BY DEF Attach
<1>3. xdp' = "generic" => i = 2
  BY <1>1, <1>2
<1>4. xdp' = "generic" => "native" \notin works
  <2>1. 1 \in 1 .. 2 - 1
    OBVIOUS
  <2> QED BY <1>1, <1>2, <1>3, <2>1, Zenon
<1> QED BY <1>2, <1>4 DEF Attach

LEMMA StepFed ==
  ASSUME Values, Fed, Forced, SetupStep
  PROVE  Fed' /\ Forced'
<1> USE SetupAssumption DEF Values, Fed, Forced, host, attach
<1>1. CASE Attach
  <2>1. guard' = xdp' /\ (xdp' = "generic" /\ nic.native => denied')
    BY <1>1, NativeFirst
  <2>2. UNCHANGED <<nic, page, conf, at, held, lost, failed, backed, bound, queue>>
    BY <1>1, NativeFirst DEF build
  <2> QED BY <2>1, <2>2
<1>2. CASE Detach
  BY <1>2 DEF Detach, host, build
<1>3. CASE New
  BY <1>3 DEF New
<1>4. CASE OpenFd
  BY <1>4 DEF OpenFd, Steps, Fails, Ends
<1>5. CASE map_umem
  BY <1>5 DEF map_umem, Steps, Fails, Ends
<1>6. CASE SetOptions
  BY <1>6 DEF SetOptions, Steps, Fails, Ends
<1>7. CASE GetOffsets
  BY <1>7 DEF GetOffsets, Steps, Fails, Ends
<1>8. CASE MapRing("fill", "comp")
  BY <1>8 DEF MapRing, Steps, Fails, Ends, DropRing
<1>9. CASE MapRing("comp", "rx")
  BY <1>9 DEF MapRing, Steps, Fails, Ends, DropRing
<1>10. CASE MapRing("rx", "tx")
  BY <1>10 DEF MapRing, Steps, Fails, Ends, DropRing
<1>11. CASE MapRing("tx", "bind")
  BY <1>11 DEF MapRing, Steps, Fails, Ends, DropRing
<1>12. CASE Bind
  BY <1>12 DEF Bind, Steps, Fails, Ends, DropXsk, DropRing
<1>13. CASE Register
  BY <1>13 DEF Register, Steps, Fails, Ends, DropXsk, DropRing
<1>14. CASE Drop
  BY <1>14 DEF Drop, Ends, DropXsk, DropRing
<1>15. CASE OtherBinds
  BY <1>15 DEF OtherBinds
<1>16. CASE OtherLeaves
  BY <1>16 DEF OtherLeaves
<1>17. CASE UNCHANGED setup
  BY <1>17 DEF setup, host, attach, build
<1> QED BY <1>1, <1>2, <1>3, <1>4, <1>5, <1>6, <1>7, <1>8, <1>9,
           <1>10, <1>11, <1>12, <1>13, <1>14, <1>15, <1>16, <1>17
        DEF SetupStep, SetupNext

\* The geometry of the socket at hand.
LEMMA FrameSizeHere ==
  ASSUME Values, Sized, at # "none"
  PROVE  /\ frame_size \in {2048, 4096, 8192, 16384, 32768, 65536}
         /\ ETH_HDR_LEN + conf.mtu <= frame_size
         /\ frame_size > MIN_CHUNK_SIZE =>
              frame_size \div 2 < ETH_HDR_LEN + conf.mtu
         /\ page % frame_size = 0 /\ umem_len % page = 0
<1>1. conf.mtu \in Nat /\ ETH_HDR_LEN + conf.mtu <= 2 ^ 30 /\ page \in Pages
  BY SetupAssumption DEF Values
<1>2. frame_size_for(conf.mtu, page) # 0
  BY DEF Sized, frame_size
<1> QED BY <1>1, <1>2, FrameSize DEF frame_size, umem_len

LEMMA StepSized ==
  ASSUME Values, Sized, SetupStep
  PROVE  Sized'
<1> USE DEF Sized, host, attach
<1>1. CASE Attach
  BY <1>1 DEF Attach, build, frame_size, umem_len, PageBytes
<1>2. CASE Detach
  BY <1>2 DEF Detach, build, frame_size, umem_len, PageBytes
<1>3. CASE New
  <2>1. conf'.mtu \in Nat /\ page' = page /\ at = "none" /\ backed' = backed
    BY <1>3, SetupAssumption DEF New
  <2>2. at' # "none" => /\ ~(conf'.mtu <= UDP_OVERHEAD)
                        /\ frame_size_for(conf'.mtu, page) # 0
    BY <1>3 DEF New
  <2> QED BY <2>1, <2>2 DEF frame_size, UDP_OVERHEAD
<1>4. CASE OpenFd
  BY <1>4 DEF OpenFd, Steps, Fails, Ends, frame_size, umem_len, PageBytes
<1>5. CASE map_umem
  <2>1. CASE Fails("umem", {"fd"})
    BY <2>1 DEF Fails, Ends
  <2>2. CASE ~Fails("umem", {"fd"})
    <3>1. /\ at # "none" /\ at' # "none" /\ UNCHANGED <<nic, page, conf>>
          /\ backed' \in {"Off"} \cup
               {h \in {conf.hugepage} : umem_len % PageBytes(h) = 0}
      BY <1>5, <2>2 DEF map_umem, Steps
    <3>2. umem_len % PageBytes("Off") = 0
      <4>1. PageBytes("Off") = page
        BY DEF PageBytes
      <4>2. umem_len % page = 0
        BY <3>1, FrameSizeHere
      <4> QED BY <4>1, <4>2
    <3>3. umem_len % PageBytes(backed') = 0
      BY <3>1, <3>2
    <3>4. umem_len' = umem_len /\ PageBytes(backed)' = PageBytes(backed')
      BY <3>1 DEF umem_len, frame_size, PageBytes
    <3> QED BY <3>1, <3>3, <3>4 DEF frame_size
  <2> QED BY <2>1, <2>2
<1>6. CASE SetOptions
  BY <1>6 DEF SetOptions, Steps, Fails, Ends, frame_size, umem_len, PageBytes
<1>7. CASE GetOffsets
  BY <1>7 DEF GetOffsets, Steps, Fails, Ends, frame_size, umem_len, PageBytes
<1>8. CASE MapRing("fill", "comp")
  BY <1>8 DEF MapRing, Steps, Fails, Ends, DropRing, frame_size, umem_len, PageBytes
<1>9. CASE MapRing("comp", "rx")
  BY <1>9 DEF MapRing, Steps, Fails, Ends, DropRing, frame_size, umem_len, PageBytes
<1>10. CASE MapRing("rx", "tx")
  BY <1>10 DEF MapRing, Steps, Fails, Ends, DropRing, frame_size, umem_len, PageBytes
<1>11. CASE MapRing("tx", "bind")
  BY <1>11 DEF MapRing, Steps, Fails, Ends, DropRing, frame_size, umem_len, PageBytes
<1>12. CASE Bind
  BY <1>12 DEF Bind, Steps, Fails, Ends, DropXsk, DropRing, frame_size, umem_len, PageBytes
<1>13. CASE Register
  BY <1>13 DEF Register, Steps, Fails, Ends, DropXsk, DropRing, frame_size, umem_len, PageBytes
<1>14. CASE Drop
  BY <1>14 DEF Drop, Ends, DropXsk, DropRing, frame_size, umem_len, PageBytes
<1>15. CASE OtherBinds
  BY <1>15 DEF OtherBinds, frame_size, umem_len, PageBytes
<1>16. CASE OtherLeaves
  BY <1>16 DEF OtherLeaves, frame_size, umem_len, PageBytes
<1>17. CASE UNCHANGED setup
  BY <1>17 DEF setup, build, frame_size, umem_len, PageBytes
<1> QED BY <1>1, <1>2, <1>3, <1>4, <1>5, <1>6, <1>7, <1>8, <1>9,
           <1>10, <1>11, <1>12, <1>13, <1>14, <1>15, <1>16, <1>17
        DEF SetupStep, SetupNext

LEMMA StepSetupInv ==
  ASSUME SetupInv, SetupStep
  PROVE  SetupInv'
<1>1. Places /\ Values
  BY DEF SetupInv, SetupTypeOK, Places, Values
<1> QED BY <1>1, StepType, StepQueue, StepLeak, StepFed, StepSized DEF SetupInv

LEMMA InitSetupInv == SetupInit => SetupInv
<1> SUFFICES ASSUME SetupInit PROVE SetupInv
  OBVIOUS
<1> USE DEF SetupInit
<1>1. denied \in BOOLEAN
  BY Zenon
<1>2. SetupTypeOK
  BY <1>1 DEF SetupTypeOK, Resources
<1>3. Owned /\ BoundAt /\ QueueHeld /\ LeakBound
  BY DEF Owned, Owns, BoundAt, QueueHeld, LeakBound, Rings
<1>4. Fed /\ Forced /\ Sized
  BY DEF Fed, Forced, Sized
<1> QED BY <1>2, <1>3, <1>4 DEF SetupInv

\* Geometry follows: the frame was computed for this link and page.
LEMMA SetupGeometry ==
  ASSUME SetupInv
  PROVE  Geometry
<1> SUFFICES ASSUME at # "none" PROVE Geometry
  BY DEF Geometry
<1>1. Values /\ Sized
  BY DEF SetupInv, SetupTypeOK, Values
<1>2. frame_size \in {2 ^ k : k \in 0 .. 30}
  BY <1>1, FrameSizeHere, PowersAre DEF Powers
<1> QED BY <1>1, <1>2, FrameSizeHere DEF Geometry, Sized

===============================================================================
