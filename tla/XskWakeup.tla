------------------------------ MODULE XskWakeup ------------------------------
(***************************************************************************)
(* How the driver is told that there is work on the TX and FILL rings      *)
(* (socket.rs: tx_submit's tx_pending, kick_tx, kick_rx): the need-wakeup  *)
(* flags, the system calls behind them and the driver that parks itself.   *)
(*                                                                         *)
(* Frames are only counted here; XskRings is about which is which, and     *)
(* XskPlanes about who calls these operations when.                        *)
(*                                                                         *)
(* tx_submit stores the producer index with Release and kick_tx then loads *)
(* the flags word with Acquire.  Neither orders a store before a later     *)
(* load of another word, so an index store may sit in the core's store     *)
(* buffer while the flag is read: the counters "stored" and "fstored".     *)
(* A system call empties the buffer.                                       *)
(***************************************************************************)
EXTENDS Naturals

CONSTANTS
  TxFrames,   \* frames of the TX pool
  RxFrames,   \* frames of the RX pool
  Modes,      \* bind modes that may be taken: TRUE is zero-copy
  BATCH,      \* copy mode: frames one sendto takes at most
  Lowers      \* the driver lowers TX's need-wakeup flag while it runs

ASSUME WakeupAssumption ==
  /\ TxFrames \in Nat \ {0} /\ RxFrames \in Nat \ {0} /\ BATCH \in Nat
  /\ Modes \subseteq BOOLEAN /\ Lowers \in BOOLEAN

VARIABLES
  zerocopy,   \* TRUE: a driver thread drains TX; FALSE: sendto itself does
  pc,         \* user: "loop", or where in kick_tx
  tx_pending, \* user: frames published that the driver was not told of
  free,       \* TX frames in the pool, or completed and there to reclaim
  stored,     \* TX frames published by a store not yet visible
  queued,     \* TX frames visible on the ring
  wire,       \* TX frames the driver has taken
  tx_flag,    \* need-wakeup flag of TX
  driver,     \* the TX side of the driver: "running", "parking" or "idle"
  hand,       \* RX frames the user has
  fstored,    \* RX frames given to FILL by a store not yet visible
  filled,     \* RX frames visible on FILL
  starved     \* the driver waits for a wakeup of FILL, and its flag is up

txv  == <<pc, tx_pending, free, stored, queued, wire, tx_flag, driver>>
rxv  == <<hand, fstored, filled, starved>>
vars == <<zerocopy, txv, rxv>>

Init ==
  /\ zerocopy \in Modes
  /\ pc = "loop" /\ tx_pending = FALSE
  /\ free = TxFrames /\ stored = 0 /\ queued = 0 /\ wire = 0
  /\ tx_flag = TRUE /\ driver = "idle"
  /\ hand = 0 /\ fstored = 0 /\ filled = RxFrames /\ starved = FALSE

-----------------------------------------------------------------------------
(* The user's loop *)

\* Mutant: the frame is still in the pool.
tx_submit_Kept ==
  /\ pc = "loop" /\ free > 0
  /\ stored' = stored + 1
  /\ tx_pending' = TRUE
  /\ UNCHANGED <<zerocopy, pc, free, queued, wire, tx_flag, driver, rxv>>

\* Mutant: tx_pending is not set.
tx_submit_Unmarked ==
  /\ pc = "loop" /\ free > 0
  /\ free' = free - 1 /\ stored' = stored + 1
  /\ UNCHANGED <<zerocopy, pc, tx_pending, queued, wire, tx_flag, driver, rxv>>

\* tx_submit, after tx_alloc found a frame.
tx_submit ==
  /\ pc = "loop" /\ free > 0
  /\ free' = free - 1 /\ stored' = stored + 1
  /\ tx_pending' = TRUE
  /\ UNCHANGED <<zerocopy, pc, queued, wire, tx_flag, driver, rxv>>

\* kick_tx: nothing to do unless something was queued; the mark is cleared
\* before the driver is told.
kick_tx ==
  /\ pc = "loop" /\ tx_pending
  /\ tx_pending' = FALSE
  /\ pc' = "flag"
  /\ UNCHANGED <<zerocopy, free, stored, queued, wire, tx_flag, driver, rxv>>

\* Mutant: the test of the flag negated.
needs_wakeup_Negated ==
  /\ pc = "flag"
  /\ pc' = IF tx_flag THEN "loop" ELSE "sendto"
  /\ UNCHANGED <<zerocopy, tx_pending, free, stored, queued, wire, tx_flag,
                 driver, rxv>>

needs_wakeup ==
  /\ pc = "flag"
  /\ pc' = IF tx_flag THEN "sendto" ELSE "loop"
  /\ UNCHANGED <<zerocopy, tx_pending, free, stored, queued, wire, tx_flag,
                 driver, rxv>>

\* sendto(MSG_DONTWAIT).  In zero-copy mode it wakes the driver; in copy mode
\* it sends a batch itself.  Its result is not looked at.
sendto ==
  LET all == queued + stored
      n   == IF all < BATCH THEN all ELSE BATCH
  IN  /\ pc = "sendto"
      /\ stored' = 0
      /\ \/ /\ zerocopy
            /\ driver' = "running" /\ tx_flag' = ~Lowers
            /\ queued' = all /\ UNCHANGED wire
         \/ /\ ~zerocopy
            /\ queued' = all - n /\ wire' = wire + n
            /\ UNCHANGED <<driver, tx_flag>>
      /\ fstored' = 0 /\ filled' = filled + fstored
      /\ pc' = "loop"
      /\ UNCHANGED <<zerocopy, tx_pending, free, hand, starved>>

\* recycle, seen from FILL.
recycle ==
  /\ pc = "loop" /\ hand > 0
  /\ hand' = hand - 1 /\ fstored' = fstored + 1
  /\ UNCHANGED <<zerocopy, txv, filled, starved>>

\* kick_rx: on every pass of the loop, whatever was done before, the flag is
\* read and recvfrom wakes the driver if it is up.
kick_rx ==
  /\ pc = "loop" /\ starved
  /\ starved' = FALSE
  /\ stored' = 0 /\ queued' = queued + stored
  /\ fstored' = 0 /\ filled' = filled + fstored
  /\ UNCHANGED <<zerocopy, pc, tx_pending, free, wire, tx_flag, driver, hand>>

-----------------------------------------------------------------------------
(* The hardware and the driver (external) *)

DrainTxStore ==
  /\ stored > 0
  /\ stored' = 0 /\ queued' = queued + stored
  /\ UNCHANGED <<zerocopy, pc, tx_pending, free, wire, tx_flag, driver, rxv>>

DrainFillStore ==
  /\ fstored > 0
  /\ fstored' = 0 /\ filled' = filled + fstored
  /\ UNCHANGED <<zerocopy, txv, hand, starved>>

DriverTake ==
  /\ driver = "running" /\ queued > 0
  /\ queued' = queued - 1 /\ wire' = wire + 1
  /\ UNCHANGED <<zerocopy, pc, tx_pending, free, stored, tx_flag, driver, rxv>>

\* Out of work: raise the flag first, then look once more before parking.
DriverFlag ==
  /\ driver = "running" /\ queued = 0
  /\ tx_flag' = TRUE /\ driver' = "parking"
  /\ UNCHANGED <<zerocopy, pc, tx_pending, free, stored, queued, wire, rxv>>

DriverPark ==
  /\ driver = "parking"
  /\ driver' = IF queued > 0 THEN "running" ELSE "idle"
  /\ tx_flag' = (queued = 0 \/ ~Lowers)
  /\ UNCHANGED <<zerocopy, pc, tx_pending, free, stored, queued, wire, rxv>>

Complete ==
  /\ wire > 0
  /\ wire' = wire - 1 /\ free' = free + 1
  /\ UNCHANGED <<zerocopy, pc, tx_pending, stored, queued, tx_flag, driver, rxv>>

\* A packet arrives and takes a frame of FILL to the user's hand; with none
\* there the driver asks to be woken.
DriverReceive ==
  /\ ~starved
  /\ \/ /\ filled > 0
        /\ filled' = filled - 1 /\ hand' = hand + 1 /\ UNCHANGED starved
     \/ /\ filled = 0
        /\ starved' = TRUE /\ UNCHANGED <<filled, hand>>
  /\ UNCHANGED <<zerocopy, txv, fstored>>

-----------------------------------------------------------------------------
Kick == kick_tx \/ needs_wakeup \/ sendto
Driver == DriverTake \/ DriverFlag \/ DriverPark \/ Complete
Next ==
  \/ tx_submit \/ Kick \/ recycle \/ kick_rx
  \/ DrainTxStore \/ DrainFillStore \/ Driver \/ DriverReceive

Spec == Init /\ [][Next]_vars

-----------------------------------------------------------------------------
TypeOK ==
  /\ zerocopy \in Modes
  /\ pc \in {"loop", "flag", "sendto"} /\ tx_pending \in BOOLEAN
  /\ free \in Nat /\ stored \in Nat /\ queued \in Nat /\ wire \in Nat
  /\ free + stored + queued + wire = TxFrames
  /\ tx_flag \in BOOLEAN /\ driver \in {"running", "parking", "idle"}
  /\ hand \in Nat /\ fstored \in Nat /\ filled \in Nat
  /\ hand + fstored + filled = RxFrames
  /\ starved \in BOOLEAN

\* "one syscall covers every descriptor published so far" (socket.rs:1165):
\* once kick_tx has run, no published frame waits for a driver that has not
\* been told of it.
Handed ==
  pc = "loop" /\ ~tx_pending /\ stored + queued > 0 => driver # "idle"

=============================================================================
