--------------------------- MODULE XskPlanesProofs ---------------------------
(***************************************************************************)
(* Proofs about XskWakeup and XskPlanes, for every pool size, batch,       *)
(* window and buffer.                                                      *)
(*                                                                         *)
(*   1. A step of a plane is a step of XskWakeup or leaves it alone.       *)
(*   2. XskWakeup: the type invariant, and Kicked, which makes Handed      *)
(*      inductive.                                                         *)
(*   3. XskPlanes: Marked (where a call may be with the driver not told)   *)
(*      and Budget (what a pass may still emit), one step per action.      *)
(*   4. The theorems.                                                      *)
(***************************************************************************)
EXTENDS XskPlanes, TLAPS

-----------------------------------------------------------------------------
(* 1. Steps *)

\* None of the planes' steps touches a ring except through XskWakeup's
\* operations.
LEMMA PlanesStep ==
  ASSUME [PlanesNext]_all
  PROVE  [Next]_vars
<1>1. CASE UNCHANGED all
  BY <1>1 DEF all
<1>2. CASE Poll
  BY <1>2 DEF Poll, PollStart, Receive, Peek, Answer, GiveBack, Transmit,
     PollKick, PollEnd, KickRx, KickTx, Consume, Next, Kick
<1>3. CASE Udp
  BY <1>3 DEF Udp, SendStart, Chunk, SendKick, RecvStart, RecvEnd, KickRx,
     KickTx, Next, Kick
<1>4. CASE InKick
  BY <1>4 DEF InKick, Next, Kick
<1>5. CASE Arrival
  BY <1>5 DEF Arrival, Next
<1>6. CASE Drain \/ Transmits \/ Completes
  BY <1>6 DEF Drain, Transmits, Completes, Next, Driver
<1> QED BY <1>1, <1>2, <1>3, <1>4, <1>5, <1>6 DEF PlanesNext, User

-----------------------------------------------------------------------------
(* 2. XskWakeup *)

\* The truth values and the counters of TypeOK, apart: no prover does both.
Flags ==
  /\ zerocopy \in Modes
  /\ tx_pending \in BOOLEAN /\ tx_flag \in BOOLEAN /\ starved \in BOOLEAN

Counts ==
  /\ pc \in {"loop", "flag", "sendto"}
  /\ free \in Nat /\ stored \in Nat /\ queued \in Nat /\ wire \in Nat
  /\ free + stored + queued + wire = TxFrames
  /\ driver \in {"running", "parking", "idle"}
  /\ hand \in Nat /\ fstored \in Nat /\ filled \in Nat
  /\ hand + fstored + filled = RxFrames

LEMMA TypeOKParts == TypeOK <=> Flags /\ Counts
BY Zenon DEF TypeOK, Flags, Counts

LEMMA InitTypeOK == Init => TypeOK
<1>1. Init => Flags
  BY Zenon DEF Init, Flags
<1>2. Init => Counts
  BY WakeupAssumption DEF Init, Counts
<1> QED BY <1>1, <1>2, TypeOKParts

\* No frame of either pool is lost or counted twice by any step.
LEMMA NextTypeOK ==
  ASSUME TypeOK, [Next]_vars
  PROVE  TypeOK'
<1>0. Flags /\ Counts
  BY TypeOKParts
<1>1. Flags'
  <2> USE <1>0 DEF Flags
  <2>1. CASE tx_submit
    BY <2>1, Zenon DEF tx_submit, rxv
  <2>2. CASE kick_tx
    BY <2>2, Zenon DEF kick_tx, rxv
  <2>3. CASE needs_wakeup
    BY <2>3, Zenon DEF needs_wakeup, rxv
  <2>4. CASE sendto
    BY <2>4, Zenon DEF sendto
  <2>5. CASE recycle
    BY <2>5, Zenon DEF recycle, txv
  <2>6. CASE kick_rx
    BY <2>6, Zenon DEF kick_rx
  <2>7. CASE DrainTxStore
    BY <2>7, Zenon DEF DrainTxStore, rxv
  <2>8. CASE DrainFillStore
    BY <2>8, Zenon DEF DrainFillStore, txv
  <2>9. CASE DriverTake
    BY <2>9, Zenon DEF DriverTake, rxv
  <2>10. CASE DriverFlag
    BY <2>10, Zenon DEF DriverFlag, rxv
  <2>11. CASE DriverPark
    BY <2>11, Zenon DEF DriverPark, rxv
  <2>12. CASE Complete
    BY <2>12, Zenon DEF Complete, rxv
  <2>13. CASE DriverReceive
    BY <2>13, Zenon DEF DriverReceive, txv
  <2>14. CASE UNCHANGED vars
    BY <2>14, Zenon DEF vars, txv, rxv
  <2> QED BY <2>1, <2>2, <2>3, <2>4, <2>5, <2>6, <2>7,
             <2>8, <2>9, <2>10, <2>11, <2>12, <2>13, <2>14 DEF Next, Kick, Driver
<1>2. Counts'
  <2> USE <1>0, WakeupAssumption DEF Counts
  <2>1. CASE tx_submit
    BY <2>1 DEF tx_submit, rxv
  <2>2. CASE kick_tx
    BY <2>2 DEF kick_tx, rxv
  <2>3. CASE needs_wakeup
    BY <2>3 DEF needs_wakeup, rxv
  <2>4. CASE sendto
    BY <2>4 DEF sendto
  <2>5. CASE recycle
    BY <2>5 DEF recycle, txv
  <2>6. CASE kick_rx
    BY <2>6 DEF kick_rx
  <2>7. CASE DrainTxStore
    BY <2>7 DEF DrainTxStore, rxv
  <2>8. CASE DrainFillStore
    BY <2>8 DEF DrainFillStore, txv
  <2>9. CASE DriverTake
    BY <2>9 DEF DriverTake, rxv
  <2>10. CASE DriverFlag
    BY <2>10 DEF DriverFlag, rxv
  <2>11. CASE DriverPark
    BY <2>11 DEF DriverPark, rxv
  <2>12. CASE Complete
    BY <2>12 DEF Complete, rxv
  <2>13. CASE DriverReceive
    BY <2>13 DEF DriverReceive, txv
  <2>14. CASE UNCHANGED vars
    BY <2>14 DEF vars, txv, rxv
  <2> QED BY <2>1, <2>2, <2>3, <2>4, <2>5, <2>6, <2>7,
             <2>8, <2>9, <2>10, <2>11, <2>12, <2>13, <2>14 DEF Next, Kick, Driver
<1> QED BY <1>1, <1>2, Zenon DEF TypeOK, Flags, Counts

\* The driver does not lower the flag behind the user's back: kick_tx always
\* gets to its system call.
Steady == ~zerocopy \/ ~Lowers

\* What one kick_tx leaves behind.  In zero-copy mode the ring is the woken
\* driver's; in copy mode nothing, or less than a pool by a whole batch.
LeftBehind ==
  pc = "loop" /\ ~tx_pending =>
    /\ stored = 0
    /\ zerocopy /\ queued > 0 => driver # "idle"
    /\ ~zerocopy /\ queued > 0 => queued + BATCH <= TxFrames

\* Handed is not inductive: it says nothing of the flag that kick_tx reads,
\* of a driver thread where there is none, and of stores on their way.
Kicked ==
  Steady => /\ tx_flag
            /\ ~zerocopy => driver = "idle"
            /\ LeftBehind

LEMMA InitKicked == Init => Kicked
BY DEF Init, Kicked, LeftBehind

LEMMA NextKicked ==
  ASSUME TypeOK, Kicked, [Next]_vars
  PROVE  Kicked'
<1> SUFFICES ASSUME Steady' PROVE (tx_flag /\ (~zerocopy => driver = "idle") /\ LeftBehind)'
  BY DEF Kicked
<1> USE WakeupAssumption DEF Steady
<1>0. Counts /\ Flags
  BY TypeOKParts
<1>1. zerocopy' = zerocopy /\ zerocopy \in BOOLEAN
  <2>1. zerocopy \in BOOLEAN
    BY <1>0 DEF Flags
  <2>2. zerocopy' = zerocopy
    BY DEF Next, Kick, Driver, tx_submit, kick_tx, needs_wakeup, sendto,
       recycle, kick_rx, DrainTxStore, DrainFillStore, DriverTake, DriverFlag,
       DriverPark, Complete, DriverReceive, vars
  <2> QED BY <2>1, <2>2
<1>2. tx_flag /\ (~zerocopy => driver = "idle") /\ LeftBehind
  BY <1>1 DEF Kicked
<1>3. tx_flag' /\ (~zerocopy => driver = "idle")'
  <2> USE <1>0, <1>1, <1>2 DEF Flags
  <2>1. CASE tx_submit
    BY <2>1 DEF tx_submit, rxv
  <2>2. CASE kick_tx
    BY <2>2 DEF kick_tx, rxv
  <2>3. CASE needs_wakeup
    BY <2>3 DEF needs_wakeup, rxv
  <2>4. CASE sendto
    <3>1. CASE zerocopy
      BY <2>4, <3>1 DEF sendto
    <3>2. CASE ~zerocopy
      BY <2>4, <3>2 DEF sendto
    <3> QED BY <3>1, <3>2
  <2>5. CASE recycle
    BY <2>5 DEF recycle, txv
  <2>6. CASE kick_rx
    BY <2>6 DEF kick_rx
  <2>7. CASE DrainTxStore
    BY <2>7 DEF DrainTxStore, rxv
  <2>8. CASE DrainFillStore
    BY <2>8 DEF DrainFillStore, txv
  <2>9. CASE DriverTake
    BY <2>9 DEF DriverTake, rxv
  <2>10. CASE DriverFlag
    BY <2>10 DEF DriverFlag, rxv
  <2>11. CASE DriverPark
    BY <2>11 DEF DriverPark, rxv
  <2>12. CASE Complete
    BY <2>12 DEF Complete, rxv
  <2>13. CASE DriverReceive
    BY <2>13 DEF DriverReceive, txv
  <2>14. CASE UNCHANGED vars
    BY <2>14 DEF vars, txv, rxv
  <2> QED BY <2>1, <2>2, <2>3, <2>4, <2>5, <2>6, <2>7,
             <2>8, <2>9, <2>10, <2>11, <2>12, <2>13, <2>14 DEF Next, Kick, Driver
<1>4. LeftBehind'
  <2> USE <1>0, <1>1, <1>2 DEF LeftBehind, Counts
  <2>1. CASE tx_submit
    BY <2>1 DEF tx_submit, rxv
  <2>2. CASE kick_tx
    BY <2>2 DEF kick_tx, rxv
  <2>3. CASE needs_wakeup
    BY <2>3 DEF needs_wakeup, rxv
  <2>4. CASE sendto
    <3>1. CASE zerocopy
      BY <2>4, <3>1 DEF sendto
    <3>2. CASE ~zerocopy
      <4> DEFINE total == queued + stored
      <4>1. /\ stored' = 0
            /\ queued' = total - (IF total < BATCH THEN total ELSE BATCH)
        BY <2>4, <3>2 DEF sendto
      <4>2. total \in Nat /\ total <= TxFrames
        OBVIOUS
      <4>3. queued' > 0 => queued' + BATCH <= TxFrames
        BY <4>1, <4>2
      <4> QED BY <4>1, <4>3, <3>2
    <3> QED BY <3>1, <3>2
  <2>5. CASE recycle
    BY <2>5 DEF recycle, txv
  <2>6. CASE kick_rx
    BY <2>6 DEF kick_rx
  <2>7. CASE DrainTxStore
    BY <2>7 DEF DrainTxStore, rxv
  <2>8. CASE DrainFillStore
    BY <2>8 DEF DrainFillStore, txv
  <2>9. CASE DriverTake
    BY <2>9 DEF DriverTake, rxv
  <2>10. CASE DriverFlag
    BY <2>10 DEF DriverFlag, rxv
  <2>11. CASE DriverPark
    BY <2>11 DEF DriverPark, rxv
  <2>12. CASE Complete
    BY <2>12 DEF Complete, rxv
  <2>13. CASE DriverReceive
    BY <2>13 DEF DriverReceive, txv
  <2>14. CASE UNCHANGED vars
    BY <2>14 DEF vars, txv, rxv
  <2> QED BY <2>1, <2>2, <2>3, <2>4, <2>5, <2>6, <2>7,
             <2>8, <2>9, <2>10, <2>11, <2>12, <2>13, <2>14 DEF Next, Kick, Driver
<1> QED BY <1>3, <1>4

-----------------------------------------------------------------------------
(* 3. XskPlanes *)

TcpCalls == {"receive", "peek", "frame", "answered", "transmit", "poll_rx",
             "panicked"}
UdpCalls == {"chunks", "recv"}

\* The plane's own state; a call is one of the socket's protocol.
PlaneOK ==
  /\ proto \in Protos
  /\ call \in {"idle"} \cup TcpCalls \cup UdpCalls
  /\ todo \in Nat /\ window \in Nat /\ room \in Nat
  /\ call \in TcpCalls => proto = "tcp"
  /\ call \in UdpCalls => proto = "udp"

\* Between calls, and where a call has nothing more to submit, kick_tx has run
\* since the last tx_submit.
Marked == call \in {"idle", "poll_rx", "recv"} => ~tx_pending

\* The frames the peer's window let in that this pass has worked off, or that
\* were never to come in.
Spent == WINDOW - hand - window

\* What a pass has emitted is paid for: answers by segments worked off, the
\* rest by the send buffer.
Budget ==
  proto = "tcp" =>
    /\ hand + window <= WINDOW
    /\ call \in {"frame", "answered"} => hand > 0
    /\ call \in {"receive", "peek", "frame"} => room <= free + Spent
    /\ call = "answered" => room <= free + Spent + 1
    /\ call = "transmit" => room + todo <= free + Spent + SEGS
    /\ call = "panicked" => room < WINDOW + SEGS

\* What the operations of XskWakeup do to the variables Budget and Marked are
\* about.
LEMMA OperationFacts ==
  ASSUME TypeOK
  PROVE  /\ tx_submit => /\ free > 0 /\ free' = free - 1 /\ hand' = hand
         /\ kick_tx => ~tx_pending' /\ free' = free /\ hand' = hand
         /\ kick_rx \/ needs_wakeup \/ sendto \/ DrainTxStore \/ DrainFillStore
              \/ DriverTake \/ DriverFlag \/ DriverPark
              => tx_pending' = tx_pending /\ free' = free /\ hand' = hand
         /\ recycle => /\ tx_pending' = tx_pending /\ free' = free
                       /\ hand > 0 /\ hand' = hand - 1
         /\ Complete => /\ tx_pending' = tx_pending /\ free' = free + 1
                        /\ hand' = hand
         /\ DriverReceive => /\ tx_pending' = tx_pending /\ free' = free
                             /\ hand' \in {hand, hand + 1}
         /\ UNCHANGED vars => /\ tx_pending' = tx_pending /\ free' = free
                              /\ hand' = hand
BY DEF tx_submit, kick_tx, kick_rx, needs_wakeup, sendto, DrainTxStore,
   DrainFillStore, DriverTake, DriverFlag, DriverPark, recycle, Complete,
   DriverReceive, vars, txv, rxv

PlaneInv == TypeOK /\ PlaneOK /\ Marked /\ Budget

LEMMA InitPlaneInv == PlanesInit => PlaneInv
<1> SUFFICES ASSUME PlanesInit PROVE PlaneInv
  OBVIOUS
<1>1. TypeOK
  BY InitTypeOK DEF PlanesInit
<1>2. PlaneOK /\ Marked /\ Budget
  BY WakeupAssumption, PlanesAssumption
     DEF PlanesInit, Init, PlaneOK, TcpCalls, UdpCalls, Marked, Budget, Spent
<1> QED BY <1>1, <1>2 DEF PlaneInv

\* A segment of the peer's window that comes in is one the pass may have to
\* answer; one that finds no frame is not.
LEMMA ArrivalInv ==
  ASSUME TypeOK, PlaneOK, Marked, Budget, Arrival
  PROVE  PlaneOK' /\ Marked' /\ Budget'
<1>1. /\ hand \in Nat /\ free \in Nat /\ window \in Nat /\ room \in Nat
      /\ WINDOW \in Nat /\ SEGS \in Nat /\ todo \in Nat
  BY PlanesAssumption DEF TypeOK, PlaneOK
<1>2. /\ tx_pending' = tx_pending /\ free' = free
      /\ hand' = hand \/ hand' = hand + 1
  BY OperationFacts DEF Arrival
<1>3. UNCHANGED <<proto, call, todo, room>>
  BY DEF Arrival
<1>4. proto = "tcp" => window > 0 /\ window' = window - 1
  BY DEF Arrival
<1>5. proto # "tcp" => window' = window
  BY DEF Arrival
<1>6. PlaneOK'
  BY <1>1, <1>3, <1>4, <1>5 DEF PlaneOK
<1>7. Marked'
  BY <1>2, <1>3 DEF Marked
<1>8. Budget'
  <2> SUFFICES ASSUME proto = "tcp" PROVE Budget'
    BY <1>3 DEF Budget
  <2>1. window' = window - 1 /\ window > 0
    BY <1>4
  <2>2. CASE hand' = hand
    BY <1>1, <1>2, <1>3, <2>1, <2>2 DEF Budget, Spent
  <2>3. CASE hand' = hand + 1
    BY <1>1, <1>2, <1>3, <2>1, <2>3 DEF Budget, Spent
  <2> QED BY <1>2, <2>2, <2>3
<1> QED BY <1>6, <1>7, <1>8

LEMMA NextPlaneInv ==
  ASSUME PlaneInv, [PlanesNext]_all
  PROVE  PlaneInv'
<1>0. /\ TypeOK /\ PlaneOK /\ Marked /\ Budget
      /\ free \in Nat /\ hand \in Nat
  BY DEF PlaneInv, TypeOK
<1>1. TypeOK'
  BY <1>0, PlanesStep, NextTypeOK
<1>2. free' \in Nat /\ hand' \in Nat
  BY <1>1 DEF TypeOK
<1>3. PlaneOK' /\ Marked' /\ Budget'
  <2> USE <1>0, <1>2, OperationFacts, PlanesAssumption
      DEF PlaneOK, Marked, Budget, Spent, TcpCalls, UdpCalls, Goes
  <2>1. CASE PollStart
    BY <2>1 DEF PollStart
  <2>2. CASE Receive
    BY <2>2 DEF Receive, KickRx
  <2>3. CASE Peek
    BY <2>3 DEF Peek
  <2>4. CASE Answer
    <3>1. CASE tx_submit /\ Goes("frame", "answered")
      BY <2>4, <3>1 DEF Answer
    <3>2. CASE UNCHANGED vars /\ free = 0 /\ Goes("frame", "panicked")
      BY <2>4, <3>2 DEF Answer
    <3> QED BY <2>4, <3>1, <3>2 DEF Answer, Consume
  <2>5. CASE GiveBack
    BY <2>5 DEF GiveBack
  <2>6. CASE Transmit
    <3>1. CASE tx_submit /\ Goes("transmit", "transmit")
      BY <2>6, <3>1 DEF Transmit
    <3>2. CASE UNCHANGED vars /\ free = 0 /\ Goes("transmit", "panicked")
      BY <2>6, <3>2 DEF Transmit
    <3> QED BY <2>6, <3>1, <3>2 DEF Transmit, Consume
  <2>7. CASE PollKick
    <3>1. ~tx_pending' /\ free' = free /\ hand' = hand
      BY <2>7 DEF PollKick, KickTx
    <3> QED BY <2>7, <3>1 DEF PollKick, KickTx
  <2>8. CASE PollEnd
    <3>1. tx_pending' = tx_pending /\ free' = free /\ hand' = hand
      BY <2>8 DEF PollEnd, KickRx
    <3> QED BY <2>8, <3>1 DEF PollEnd, KickRx
  <2>9. CASE SendStart
    BY <2>9 DEF SendStart
  <2>10. CASE Chunk
    BY <2>10 DEF Chunk
  <2>11. CASE SendKick
    BY <2>11 DEF SendKick, KickTx
  <2>12. CASE RecvStart
    BY <2>12 DEF RecvStart, KickRx
  <2>13. CASE RecvEnd
    BY <2>13 DEF RecvEnd
  <2>14. CASE InKick \/ Drain \/ Transmits \/ Completes
    BY <2>14 DEF InKick, Drain, Transmits, Completes, plane
  <2>15. CASE Arrival
    BY <2>15, ArrivalInv
  <2>16. CASE UNCHANGED all
    BY <2>16 DEF all, plane
  <2> QED BY <2>1, <2>2, <2>3, <2>4, <2>5, <2>6, <2>7, <2>8, <2>9, <2>10,
             <2>11, <2>12, <2>13, <2>14, <2>15, <2>16
          DEF PlanesNext, User, Poll, Udp
<1> QED BY <1>1, <1>3 DEF PlaneInv

-----------------------------------------------------------------------------
(* 4. Theorems *)

LEMMA PlanesInvariant == PlanesSpec => [](PlaneInv /\ Kicked)
<1>1. PlanesInit => PlaneInv /\ Kicked
  BY InitPlaneInv, InitKicked DEF PlanesInit
<1>2. PlaneInv /\ Kicked /\ [PlanesNext]_all => (PlaneInv /\ Kicked)'
  <2> SUFFICES ASSUME PlaneInv, Kicked, [PlanesNext]_all
               PROVE  (PlaneInv /\ Kicked)'
    OBVIOUS
  <2>1. PlaneInv'
    BY NextPlaneInv
  <2>2. Kicked'
    BY PlanesStep, NextKicked DEF PlaneInv
  <2> QED BY <2>1, <2>2
<1> QED BY <1>1, <1>2, PTL DEF PlanesSpec

\* Every TX frame is in exactly one of the pool, the store buffer, the ring and
\* the driver's hands, every RX frame in the user's hand or on its way to or on
\* FILL, whatever the planes and the driver do (tx_submit, kick_tx, kick_rx,
\* recycle).
THEOREM WakeupTypeCorrect == PlanesSpec => []TypeOK
<1>1. PlaneInv => TypeOK
  BY DEF PlaneInv
<1> QED BY <1>1, PlanesInvariant, PTL

\* The conditions under which one system call is enough: no driver that lowers
\* the flag, and in copy mode a batch that takes the whole pool.
OneCallIsEnough ==
  ~Lowers /\ (FALSE \in Modes => BATCH >= TxFrames)

LEMMA EnoughHanded ==
  ASSUME PlaneInv, Kicked, OneCallIsEnough
  PROVE  Handed
<1> USE DEF PlaneInv
<1>1. stored \in Nat /\ queued \in Nat /\ zerocopy \in BOOLEAN /\ zerocopy \in Modes
  BY WakeupAssumption DEF TypeOK
<1>2. LeftBehind
  BY DEF Kicked, Steady, OneCallIsEnough
<1>3. CASE zerocopy
  BY <1>1, <1>2, <1>3 DEF Handed, LeftBehind
<1>4. CASE ~zerocopy
  <2>1. BATCH >= TxFrames
    BY <1>1, <1>4 DEF OneCallIsEnough
  <2> QED BY <1>1, <1>2, <1>4, <2>1, WakeupAssumption DEF Handed, LeftBehind
<1> QED BY <1>3, <1>4

\* "one syscall covers every descriptor published so far" (socket.rs:1165) is
\* true under these conditions: once kick_tx has run, no published frame waits
\* for a driver that was not told of it, stores on their way included.
THEOREM KickHandsOver ==
  ASSUME OneCallIsEnough
  PROVE  PlanesSpec => []Handed
<1>1. PlaneInv /\ Kicked => Handed
  BY EnoughHanded
<1> QED BY <1>1, PlanesInvariant, PTL

\* Under the same conditions both planes return with the driver told: between
\* two calls nothing waits on the TX ring for a driver that sleeps ("Mandatory
\* after tx_submit", socket.rs:1180).
THEOREM PlanesHandOver ==
  ASSUME OneCallIsEnough
  PROVE  PlanesSpec => []HandedOver
<1>1. PlaneInv /\ Kicked => HandedOver
  BY EnoughHanded DEF PlaneInv, Marked, Handed, HandedOver
<1> QED BY <1>1, PlanesInvariant, PTL

\* What a copy-mode kick_tx leaves behind with a batch smaller than the pool, as
\* the kernel's is: at most the pool less a batch, and no store on its way.
CopyRemainder ==
  ~zerocopy /\ pc = "loop" /\ ~tx_pending /\ stored + queued > 0 =>
    stored = 0 /\ queued + BATCH <= TxFrames

\* For every BATCH, and whatever the driver does with the flag (kick_tx and the
\* one sendto behind it, socket.rs:1183).
THEOREM CopyModeRemainder == PlanesSpec => []CopyRemainder
<1>1. PlaneInv /\ Kicked => CopyRemainder
  <2> SUFFICES ASSUME PlaneInv, Kicked PROVE CopyRemainder
    OBVIOUS
  <2>1. stored \in Nat /\ queued \in Nat
    BY DEF PlaneInv, TypeOK
  <2> QED BY <2>1 DEF CopyRemainder, Kicked, Steady, LeftBehind
<1> QED BY <1>1, PlanesInvariant, PTL

\* TxToken::consume panics only in a pass that began with fewer free frames
\* than a window of segments and a send buffer can make smoltcp emit
\* (XskDevice and TcpPlane::poll), for every pool, window and buffer and in
\* every interleaving with the driver.
THEOREM PanicOnlyWhenShort == PlanesSpec => []PanicBound
<1>1. PlaneInv => PanicBound
  BY DEF PlaneInv, PlaneOK, TcpCalls, Budget, PanicBound
<1> QED BY <1>1, PlanesInvariant, PTL

=============================================================================
