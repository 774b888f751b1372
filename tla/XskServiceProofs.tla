-------------------------- MODULE XskServiceProofs --------------------------
(***************************************************************************)
(* XskRings implements XskService, for every ring size, UMEM and index     *)
(* width: Spec => Service.                                                 *)
(*                                                                         *)
(*   1. The payloads behind the window of a ring, as a sequence.           *)
(*   2. Carried: what the user has read and what is on the wire.           *)
(*   3. One lemma per action: it preserves Carried and is a step of the    *)
(*      service or changes nothing of it.                                  *)
(*   4. The theorem.                                                       *)
(***************************************************************************)
EXTENDS XskRingsProofs

-----------------------------------------------------------------------------
(* 1. Contents of a ring *)

\* The k-th index from c on, as rx_peek meets them.
At(c, k) == (c + k - 1) % W

LEMMA AtFacts ==
  ASSUME NEW c \in Index, NEW k \in 1 .. W
  PROVE  /\ At(c, k) = IF c + k - 1 < W THEN c + k - 1 ELSE c + k - 1 - W
         /\ At(c, k) \in Index
         /\ Dist(c, At(c, k)) = k - 1
<1>1. W \in Nat \ {0} /\ c \in 0 .. W - 1
  BY IndexRange DEF Index
<1>2. CASE c + k - 1 < W
  <2>1. c + k - 1 \in 0 .. W - 1 /\ 0 \in Nat
    BY <1>1, <1>2
  <2>2. (0 * W + (c + k - 1)) % W = c + k - 1
    BY <1>1, <2>1, ModUnique
  <2>3. 0 * W + (c + k - 1) = c + k - 1
    BY <1>1, <2>1
  <2>4. At(c, k) = c + k - 1
    BY <2>2, <2>3 DEF At
  <2> QED BY <1>1, <1>2, <2>4 DEF Dist, Index
<1>3. CASE ~(c + k - 1 < W)
  <2>1. c + k - 1 - W \in 0 .. W - 1 /\ 1 \in Nat
    BY <1>1, <1>3
  <2>2. (1 * W + (c + k - 1 - W)) % W = c + k - 1 - W
    BY <1>1, <2>1, ModUnique
  <2>3. 1 * W + (c + k - 1 - W) = c + k - 1
    BY <1>1, <2>1
  <2>4. At(c, k) = c + k - 1 - W
    BY <2>2, <2>3 DEF At
  <2> QED BY <1>1, <1>3, <2>1, <2>4 DEF Dist, Index
<1> QED BY <1>2, <1>3

\* The window of a ring is its first Used(r) indices; the next is producer.
LEMMA WindowAt ==
  ASSUME NEW size \in Sizes, NEW r \in Ring(size)
  PROVE  /\ \A k \in 1 .. Used(r) : At(r.consumer, k) \in Window(r)
         /\ At(r.consumer, Used(r) + 1) = r.producer
         /\ At(r.consumer, 1) = r.consumer
         /\ Used(r) \in 0 .. W - 1
<1>1. W \in Nat /\ W > 1 /\ r.consumer \in Index /\ r.producer \in Index
  BY IndexRange DEF Ring
<1>2. Used(r) \in 0 .. W - 1
  BY <1>1, DistFacts DEF Used
<1>3. ASSUME NEW k \in 1 .. Used(r) PROVE At(r.consumer, k) \in Window(r)
  <2>1. k \in 1 .. W /\ k - 1 < Used(r)
    BY <1>1, <1>2
  <2> QED BY <1>1, <2>1, AtFacts DEF Window
<1>4. At(r.consumer, Used(r) + 1) = r.producer
  <2> DEFINE u == Used(r) + 1
             i == At(r.consumer, u)
  <2>1. u \in 1 .. W /\ u - 1 = Used(r)
    BY <1>1, <1>2
  <2> HIDE DEF u
  <2>2. i \in Index /\ Dist(r.consumer, i) = u - 1
    BY <1>1, <2>1, AtFacts
  <2>3. Dist(r.consumer, i) = Dist(r.consumer, r.producer)
    BY <2>1, <2>2 DEF Used
  <2> HIDE DEF i
  <2>4. i = r.producer
    BY <1>1, <2>2, <2>3 DEF Dist, Index
  <2> QED BY <2>4 DEF i, u
<1>5. At(r.consumer, 1) = r.consumer
  <2>1. 1 \in 1 .. W /\ r.consumer \in 0 .. W - 1
    BY <1>1 DEF Index
  <2> QED BY <1>1, <2>1, AtFacts
<1> QED BY <1>2, <1>3, <1>4, <1>5

\* The frame of the k-th entry is an RX frame, one of those queued.
LEMMA Behind ==
  ASSUME IInv, NEW k \in 1 .. Used(rx)
  PROVE  LET f == frame_base(rx.desc[Slot(At(rx.consumer, k), RX_SIZE)])
         IN  f \in RxFrames /\ f \in RxQueued
<1> DEFINE i == At(rx.consumer, k)
<1>1. i \in Window(rx)
  BY RingSizes, WindowAt DEF IInv, TypeOK
<1> HIDE DEF i
<1>2. PICK f \in RxFrames : rx.desc[Slot(i, RX_SIZE)] = f + Headroom
  BY <1>1 DEF IInv, Control
<1>3. frame_base(f + Headroom) = f
  BY FrameFacts DEF Frames
<1>4. rx.desc[Slot(i, RX_SIZE)] \in Entries(rx, RX_SIZE)
  BY <1>1 DEF Entries
<1>5. f \in RxQueued
  BY <1>2, <1>3, <1>4 DEF RxQueued
<1> QED BY <1>2, <1>3, <1>5 DEF i

\* Writes elsewhere than into the queued frames do not show.
LEMMA WaitingSame ==
  ASSUME IInv, rx' = rx, \A f \in RxQueued : umem'[f] = umem[f]
  PROVE  Waiting' = Waiting
<1>1. \A k \in 1 .. Used(rx) :
        umem'[frame_base(rx.desc[Slot(At(rx.consumer, k), RX_SIZE)])]
          = umem[frame_base(rx.desc[Slot(At(rx.consumer, k), RX_SIZE)])]
  BY Behind
<1> QED BY <1>1 DEF Waiting, At, Used

\* A push appends.
LEMMA WaitingPush ==
  ASSUME IInv, NEW f \in krx, NEW p \in Payload, Used(rx) < RX_SIZE,
         umem' = [umem EXCEPT ![f] = p],
         rx' = KernelProduce(rx, RX_SIZE, f + Headroom)
  PROVE  Waiting' = Append(Waiting, p)
<1>1. rx \in Ring(RX_SIZE) /\ f \in RxFrames /\ f \in Frames /\ f + Headroom \in Addr
  BY FrameFacts DEF IInv, TypeOK, Frames
<1>2. /\ rx' \in Ring(RX_SIZE) /\ rx'.consumer = rx.consumer
      /\ rx'.producer = Inc(rx.producer)
      /\ rx'.desc[Slot(rx.producer, RX_SIZE)] = f + Headroom
      /\ \A s \in 0 .. RX_SIZE - 1 : s # Slot(rx.producer, RX_SIZE) =>
           rx'.desc[s] = rx.desc[s]
  BY <1>1, RingSizes, ProduceFields
<1>3. /\ Used(rx') = Used(rx) + 1
      /\ \A i \in Window(rx) :
           rx'.desc[Slot(i, RX_SIZE)] = rx.desc[Slot(i, RX_SIZE)]
  BY <1>1, <1>2, RingSizes, Push
<1>4. Used(rx) \in Nat
  BY Numbers DEF IInv
<1>5. f \notin RxQueued
  BY DEF IInv, FrameOwnership, RxOwnership, Split4
<1> DEFINE a(k) == At(rx.consumer, k)
           b(k) == frame_base(rx.desc[Slot(a(k), RX_SIZE)])
<1>6. ASSUME NEW k \in 1 .. Used(rx)
      PROVE  Waiting'[k] = Waiting[k]
  <2>1. a(k) \in Window(rx) /\ b(k) \in RxFrames /\ b(k) \in RxQueued
    BY <1>1, RingSizes, WindowAt, Behind
  <2>2. frame_base(rx'.desc[Slot(a(k), RX_SIZE)]) = b(k)
    BY <1>3, <2>1
  <2>3. umem'[b(k)] = umem[b(k)]
    BY <1>1, <1>5, <2>1 DEF IInv, TypeOK, Frames
  <2>4. k \in 1 .. Used(rx')
    BY <1>3, <1>4
  <2>5. Waiting[k] = umem[b(k)]
    BY DEF Waiting, At
  <2>6. Waiting'[k] = umem'[frame_base(rx'.desc[Slot(At(rx'.consumer, k), RX_SIZE)])]
    BY <2>4 DEF Waiting, At
  <2> QED BY <1>2, <2>2, <2>3, <2>5, <2>6
<1>7. Waiting'[Used(rx) + 1] = p
  <2>1. Used(rx) + 1 \in 1 .. Used(rx')
    BY <1>3, <1>4
  <2>2. At(rx.consumer, Used(rx) + 1) = rx.producer
    BY <1>1, RingSizes, WindowAt
  <2>3. frame_base(f + Headroom) = f
    BY <1>1, FrameFacts
  <2>4. umem'[f] = p
    BY <1>1 DEF IInv, TypeOK
  <2>5. Waiting'[Used(rx) + 1]
          = umem'[frame_base(rx'.desc[Slot(At(rx'.consumer, Used(rx) + 1), RX_SIZE)])]
    BY <2>1 DEF Waiting, At
  <2> QED BY <1>2, <2>2, <2>3, <2>4, <2>5
<1>8. Waiting' = [k \in 1 .. Used(rx) + 1 |-> Waiting'[k]]
  BY <1>3 DEF Waiting
<1>9. Waiting = [k \in 1 .. Used(rx) |-> Waiting[k]] /\ Len(Waiting) = Used(rx)
  BY <1>4 DEF Waiting
<1>10. Append(Waiting, p) = [k \in 1 .. Used(rx) + 1 |->
                               IF k = Used(rx) + 1 THEN p ELSE Waiting[k]]
  BY <1>4, <1>9
<1> HIDE DEF a, b
<1> QED BY <1>4, <1>6, <1>7, <1>8, <1>10

\* A pop takes the first.
LEMMA WaitingPop ==
  ASSUME IInv, rx.consumer # rx.producer, rx' = Consume(rx), umem' = umem
  PROVE  /\ Waiting = <<umem[frame_base(Peek(rx, RX_SIZE))]>> \o Waiting'
         /\ Used(rx) >= 1
<1>1. rx \in Ring(RX_SIZE) /\ Used(rx) \in Nat
  BY Numbers DEF IInv, TypeOK
<1>2. /\ rx' \in Ring(RX_SIZE) /\ rx'.consumer = Inc(rx.consumer)
      /\ rx'.producer = rx.producer /\ rx'.desc = rx.desc
  BY <1>1, RingSizes, ConsumeFields
<1>3. Used(rx') = Used(rx) - 1 /\ Used(rx) \in Nat \ {0}
  BY <1>1, <1>2, RingSizes, Pop DEF IInv, FrameOwnership, RxOwnership
<1> DEFINE n == Used(rx') 
           x == umem[frame_base(Peek(rx, RX_SIZE))]
<1>4. n \in Nat /\ Used(rx) = n + 1
  BY <1>3
<1>5. ASSUME NEW k \in 1 .. n
      PROVE  At(rx'.consumer, k) = At(rx.consumer, k + 1)
  <2>1. Used(rx) \in 0 .. W - 1 /\ W \in Nat /\ W > 1 /\ rx.consumer \in 0 .. W - 1
    BY <1>1, RingSizes, WindowAt, IndexRange DEF Ring, Index
  <2>2. k \in 1 .. W /\ k + 1 \in 1 .. W
    BY <1>4, <2>1
  <2>3. rx.consumer \in Index /\ Inc(rx.consumer) \in Index
    BY <2>1 DEF Index, Inc
  <2>4. At(Inc(rx.consumer), k) = IF Inc(rx.consumer) + k - 1 < W
          THEN Inc(rx.consumer) + k - 1 ELSE Inc(rx.consumer) + k - 1 - W
    BY <2>2, <2>3, AtFacts
  <2>5. At(rx.consumer, k + 1) = IF rx.consumer + (k + 1) - 1 < W
          THEN rx.consumer + (k + 1) - 1 ELSE rx.consumer + (k + 1) - 1 - W
    BY <2>2, <2>3, AtFacts
  <2> QED BY <1>2, <2>1, <2>2, <2>4, <2>5 DEF Inc
<1>6. ASSUME NEW k \in 1 .. n
      PROVE  Waiting'[k] = Waiting[k + 1]
  <2>1. k + 1 \in 1 .. Used(rx)
    BY <1>4
  <2>2. Waiting[k + 1] = umem[frame_base(rx.desc[Slot(At(rx.consumer, k + 1), RX_SIZE)])]
    BY <2>1 DEF Waiting, At
  <2>3. Waiting'[k] = umem'[frame_base(rx'.desc[Slot(At(rx'.consumer, k), RX_SIZE)])]
    BY DEF Waiting, At
  <2> QED BY <1>2, <1>5, <2>2, <2>3
<1>7. Waiting[1] = x
  <2>1. 1 \in 1 .. Used(rx)
    BY <1>4
  <2>2. Waiting[1] = umem[frame_base(rx.desc[Slot(At(rx.consumer, 1), RX_SIZE)])]
    BY <2>1 DEF Waiting, At
  <2>3. At(rx.consumer, 1) = rx.consumer
    BY <1>1, RingSizes, WindowAt
  <2> QED BY <2>2, <2>3 DEF Peek
<1>8. Waiting = [k \in 1 .. n + 1 |-> Waiting[k]]
  BY <1>4 DEF Waiting
<1>9. Waiting' = [k \in 1 .. n |-> Waiting'[k]] /\ Len(Waiting') = n
  BY <1>4 DEF Waiting
<1> HIDE DEF n, x
<1>10. <<x>> \o Waiting' = [k \in 1 .. n + 1 |->
                              IF k = 1 THEN x ELSE Waiting'[k - 1]]
  BY <1>4, <1>9
<1>11. \A k \in 1 .. n + 1 : k # 1 => k - 1 \in 1 .. n /\ k - 1 + 1 = k
  BY <1>4
<1>12. ASSUME NEW k \in 1 .. n + 1
       PROVE  Waiting[k] = IF k = 1 THEN x ELSE Waiting'[k - 1]
  <2>1. CASE k # 1
    <3>1. Waiting'[k - 1] = Waiting[(k - 1) + 1]
      BY <1>6, <1>11, <2>1
    <3> QED BY <1>11, <2>1, <3>1
  <2> QED BY <1>7, <2>1
<1>13. Waiting = <<x>> \o Waiting'
  BY <1>8, <1>10, <1>12
<1> QED BY <1>4, <1>13 DEF x

-----------------------------------------------------------------------------
(* 2. What the user holds and what is on the wire *)

\* The user has a payload only with a frame in hand, and what is on the wire
\* or about to be was built.
Carried ==
  /\ held = None \/ pc \in {"rx_release", "read"} => got = NoPayload
  /\ pc \in {"submit", "tx_publish"} => umem[txaddr] \in Payload
  /\ \A f \in OnTheWire : umem[f] \in Payload

ServiceStep == [Queues!Next]_(Queues!svars)

LEMMA Stutter ==
  ASSUME UNCHANGED <<InboxBar, got, OutboxBar>>
  PROVE  ServiceStep
BY DEF ServiceStep, Queues!svars

\* The frame being read is an RX frame and nobody else's.
LEMMA ReadOwned ==
  ASSUME IInv, pc = "read"
  PROVE  /\ frame_base(held) \in RxFrames
         /\ frame_base(held) \notin krx
<1>1. HasRx /\ UserRx = {frame_base(held)}
  BY DEF IInv, Control, HasRx, UserRx
<1> QED BY <1>1 DEF IInv, FrameOwnership, RxOwnership, Split4

LEMMA InboxSame ==
  ASSUME IInv, rx' = rx, \A f \in RxFrames : umem'[f] = umem[f],
         pc' = "read" <=> pc = "read", pc = "read" => held' = held
  PROVE  InboxBar' = InboxBar
<1>1. RxQueued \subseteq RxFrames
  BY DEF IInv, FrameOwnership, RxOwnership, Split4
<1>2. Waiting' = Waiting
  BY <1>1, WaitingSame
<1>3. CASE pc = "read"
  BY <1>2, <1>3, ReadOwned DEF InboxBar
<1>4. CASE pc # "read"
  BY <1>2, <1>4 DEF InboxBar
<1> QED BY <1>3, <1>4

LEMMA OutboxSame ==
  ASSUME OnTheWire' = OnTheWire, \A f \in OnTheWire : umem'[f] = umem[f]
  PROVE  OutboxBar' = OutboxBar
BY DEF OutboxBar

\* Steps that touch neither packets nor the rings that carry them.
LEMMA Unseen ==
  ASSUME IInv, Carried, UNCHANGED <<rx, tx, ktx, umem, got>>,
         pc' = "read" <=> pc = "read", pc = "read" => held' = held
  PROVE  /\ ServiceStep
         /\ OnTheWire' = OnTheWire
<1>1. OnTheWire' = OnTheWire
  BY DEF OnTheWire, Entries, Window, Used
<1> QED BY <1>1, InboxSame, OutboxSame, Stutter

-----------------------------------------------------------------------------
(* 3. Steps *)

LEMMA QuietSteps ==
  ASSUME IInv, Carried,
         \/ RxPeek \/ Recycle \/ TxAlloc \/ ReclaimLoad \/ ReclaimOne
         \/ ReclaimStore \/ PopReclaimed \/ KernelFill
  PROVE  Carried' /\ ServiceStep
<1> USE DEF Carried
<1>1. CASE RxPeek
  BY <1>1, Unseen DEF RxPeek, IInv, Control
<1>2. CASE Recycle
  BY <1>2, Unseen DEF Recycle
<1>3. CASE TxAlloc
  BY <1>3, Unseen DEF TxAlloc, MaySend
<1>4. CASE ReclaimLoad
  BY <1>4, Unseen DEF ReclaimLoad, MaySend
<1>5. CASE ReclaimOne
  BY <1>5, Unseen DEF ReclaimOne
<1>6. CASE ReclaimStore
  BY <1>6, Unseen DEF ReclaimStore
<1>7. CASE PopReclaimed
  BY <1>7, Unseen DEF PopReclaimed, Resume
<1>8. CASE KernelFill
  BY <1>8, Unseen DEF KernelFill, user
<1> QED BY <1>1, <1>2, <1>3, <1>4, <1>5, <1>6, <1>7, <1>8

\* rx_peek's index store: the packet is still the next one to be given.
LEMMA RxReleaseStep ==
  ASSUME IInv, Carried, RxRelease PROVE Carried' /\ ServiceStep
<1>1. /\ rx' = Consume(rx) /\ pc = "rx_release" /\ pc' = "read"
      /\ UNCHANGED <<tx, umem, held, got, txaddr, ktx>>
  BY DEF RxRelease
<1>2. rx.consumer # rx.producer /\ held = Peek(rx, RX_SIZE)
  BY <1>1 DEF IInv, Control
<1>3. Waiting = <<umem[frame_base(held)]>> \o Waiting'
  BY <1>1, <1>2, WaitingPop
<1>4. InboxBar' = InboxBar
  BY <1>1, <1>3 DEF InboxBar
<1>5. OnTheWire' = OnTheWire
  BY <1>1 DEF OnTheWire, Entries, Window, Used
<1> QED BY <1>1, <1>4, <1>5, OutboxSame, Stutter DEF Carried

\* The read of the frame is the service's Take.
LEMMA ReadFrameStep ==
  ASSUME IInv, Carried, ReadFrame PROVE Carried' /\ ServiceStep
<1>1. /\ pc = "read" /\ pc' = "consumed" /\ got' = umem[frame_base(held)]
      /\ UNCHANGED <<rx, tx, umem, held, txaddr, ktx>>
  BY DEF ReadFrame
<1>2. OnTheWire' = OnTheWire /\ held # None
  BY <1>1 DEF OnTheWire, Entries, Window, Used, IInv, Control
<1>3. OutboxBar' = OutboxBar
  BY <1>1, <1>2, OutboxSame
<1>4. Waiting' = Waiting
  BY <1>1, WaitingSame
<1> DEFINE x == umem[frame_base(held)]
<1>5. InboxBar = <<x>> \o Waiting /\ InboxBar' = Waiting /\ got' = x
  BY <1>1, <1>4 DEF InboxBar
<1>6. \E n \in Nat : Waiting = [k \in 1 .. n |-> Waiting[k]]
  BY Numbers DEF Waiting, IInv
<1> HIDE DEF x
<1>7. /\ <<x>> \o Waiting # <<>> /\ Head(<<x>> \o Waiting) = x
      /\ Tail(<<x>> \o Waiting) = Waiting
  BY <1>6
<1>8. Queues!Take
  BY <1>1, <1>3, <1>5, <1>7 DEF Queues!Take, Carried
<1> QED BY <1>1, <1>2, <1>8 DEF Carried, ServiceStep, Queues!Next

LEMMA FillPublishStep ==
  ASSUME IInv, Carried, FillPublish PROVE Carried' /\ ServiceStep
<1>1. /\ pc = "fill_publish" /\ pc' = "idle" /\ got' = NoPayload
      /\ UNCHANGED <<rx, tx, umem, txaddr, ktx>>
  BY DEF FillPublish
<1>2. OnTheWire' = OnTheWire
  BY <1>1 DEF OnTheWire, Entries, Window, Used
<1>3. OutboxBar' = OutboxBar /\ InboxBar' = InboxBar
  BY <1>1, <1>2, OutboxSame, InboxSame
<1>4. ServiceStep
  BY <1>1, <1>3 DEF ServiceStep, Queues!Next, Queues!Done, Queues!svars
<1> QED BY <1>1, <1>2, <1>4 DEF Carried

\* Frames on the wire are TX frames, and not the one in the user's hand.
LEMMA WireFrames ==
  ASSUME IInv
  PROVE  /\ OnTheWire \subseteq TxFrames
         /\ txaddr \notin OnTheWire
         /\ Entries(tx, TX_SIZE) \cap ktx = {}
<1>1. Split5(TxFrames, Free, UserTx, Entries(tx, TX_SIZE), ktx,
             Entries(CompLeft, TX_SIZE))
  BY DEF IInv, FrameOwnership, TxOwnership
<1>2. OnTheWire \subseteq TxFrames /\ Entries(tx, TX_SIZE) \cap ktx = {}
  BY <1>1 DEF Split5, OnTheWire
<1>3. None \notin TxFrames
  BY FrameFacts DEF Frames
<1>4. txaddr \notin OnTheWire
  BY <1>1, <1>2, <1>3 DEF Split5, OnTheWire, UserTx
<1> QED BY <1>2, <1>4

LEMMA BuildStep ==
  ASSUME IInv, Carried, Build PROVE Carried' /\ ServiceStep
<1>1. /\ pc = "build" /\ pc' = "submit"
      /\ UNCHANGED <<rx, tx, held, got, txaddr, ktx>>
  BY DEF Build
<1>2. PICK p \in Payload : umem' = [umem EXCEPT ![txaddr] = p]
  BY DEF Build
<1>3. txaddr \in TxFrames /\ txaddr \in Frames /\ txaddr \notin RxFrames
  BY <1>1, FrameFacts DEF IInv, TypeOK, Control, Frames
<1>4. /\ umem'[txaddr] = p
      /\ \A f \in Frames : f # txaddr => umem'[f] = umem[f]
  BY <1>2, <1>3 DEF IInv, TypeOK
<1>5. OnTheWire' = OnTheWire
  BY <1>1 DEF OnTheWire, Entries, Window, Used
<1>6. \A f \in OnTheWire : umem'[f] = umem[f]
  BY <1>4, WireFrames DEF Frames
<1>7. \A f \in RxFrames : umem'[f] = umem[f]
  BY <1>3, <1>4 DEF Frames
<1>8. ServiceStep
  BY <1>1, <1>5, <1>6, <1>7, InboxSame, OutboxSame, Stutter
<1> QED BY <1>1, <1>4, <1>5, <1>6, <1>8 DEF Carried

LEMMA TxSubmitStep ==
  ASSUME IInv, Carried, TxSubmit PROVE Carried' /\ ServiceStep
<1>1. /\ pc = "submit" /\ pc' = "tx_publish" /\ tx' = WriteDesc(tx, TX_SIZE, txaddr)
      /\ UNCHANGED <<rx, umem, held, got, txaddr, ktx>>
  BY DEF TxSubmit
<1>2. /\ tx \in Ring(TX_SIZE) /\ txaddr \in Addr
      /\ txaddr # None /\ tx.cached = tx.producer
  BY <1>1, FrameFacts DEF IInv, TypeOK, Control, Frames, PrivateTx
<1>3. Used(tx) < TX_SIZE
  BY <1>2, Numbers, PoolAssumption DEF IInv, TxCount, One
<1>4. /\ tx' \in Ring(TX_SIZE) /\ tx'.consumer = tx.consumer
      /\ tx'.producer = tx.producer
      /\ \A s \in 0 .. TX_SIZE - 1 : s # Slot(tx.producer, TX_SIZE) =>
           tx'.desc[s] = tx.desc[s]
  BY <1>1, <1>2, RingSizes, WriteFields
<1>5. Entries(tx', TX_SIZE) = Entries(tx, TX_SIZE)
  BY <1>2, <1>3, <1>4, RingSizes, Quiet
<1>6. OnTheWire' = OnTheWire
  BY <1>1, <1>5 DEF OnTheWire
<1>7. ServiceStep
  BY <1>1, <1>6, InboxSame, OutboxSame, Stutter
<1> QED BY <1>1, <1>6, <1>7 DEF Carried

\* tx_submit's producer store is the service's Submit.
LEMMA TxPublishStep ==
  ASSUME IInv, Carried, TxPublish PROVE Carried' /\ ServiceStep
<1>1. /\ pc = "tx_publish" /\ pc' = Resume /\ tx' = Publish(tx)
      /\ UNCHANGED <<rx, umem, held, got, ktx>>
  BY DEF TxPublish
<1>2. /\ tx \in Ring(TX_SIZE) /\ tx.cached = Inc(tx.producer)
      /\ tx.desc[Slot(tx.producer, TX_SIZE)] = txaddr
      /\ txaddr # None /\ txaddr \in TxFrames
  BY <1>1 DEF IInv, TypeOK, PrivateTx, Control
<1>3. Used(tx) < TX_SIZE
  BY <1>2, Numbers, PoolAssumption DEF IInv, TxCount, One
<1>4. /\ tx' \in Ring(TX_SIZE) /\ tx'.consumer = tx.consumer
      /\ tx'.producer = Inc(tx.producer) /\ tx'.desc = tx.desc
  BY <1>1, <1>2, RingSizes, PublishFields
<1>5. Entries(tx', TX_SIZE) = Entries(tx, TX_SIZE) \cup {txaddr}
  BY <1>2, <1>3, <1>4, RingSizes, Push
<1>6. OnTheWire' = OnTheWire \cup {txaddr}
  BY <1>1, <1>5 DEF OnTheWire
<1>7. umem[txaddr] \in Payload /\ txaddr \notin OnTheWire
  BY <1>1, WireFrames DEF Carried
<1>8. InboxBar' = InboxBar
  BY <1>1, InboxSame DEF Resume
<1>9. /\ OutboxBar[txaddr] = NoPayload
      /\ OutboxBar' = [OutboxBar EXCEPT ![txaddr] = umem[txaddr]]
  BY <1>1, <1>2, <1>6, <1>7 DEF OutboxBar
<1>10. Queues!Submit
  BY <1>1, <1>2, <1>7, <1>8, <1>9 DEF Queues!Submit
<1>11. Carried'
  BY <1>1, <1>6, <1>7 DEF Carried, Resume
<1> QED BY <1>10, <1>11 DEF ServiceStep, Queues!Next

\* The driver's production into RX is the service's Arrive.
LEMMA KernelReceiveStep ==
  ASSUME IInv, Carried, KernelReceive PROVE Carried' /\ ServiceStep
<1>1. PICK f \in krx, p \in Payload :
        /\ Used(rx) < RX_SIZE
        /\ umem' = [umem EXCEPT ![f] = p]
        /\ rx' = KernelProduce(rx, RX_SIZE, f + Headroom)
        /\ UNCHANGED <<tx, user, ktx>>
  BY DEF KernelReceive
<1>2. UNCHANGED <<pc, held, got, txaddr>>
  BY <1>1 DEF user
<1>3. f \in RxFrames /\ f \in Frames /\ f \notin TxFrames
  BY FrameFacts DEF IInv, TypeOK, Frames
<1>4. \A g \in Frames : g # f => umem'[g] = umem[g]
  BY <1>1, <1>3 DEF IInv, TypeOK
<1>5. OnTheWire' = OnTheWire
  BY <1>1 DEF OnTheWire, Entries, Window, Used
<1>6. \A g \in OnTheWire : umem'[g] = umem[g]
  BY <1>3, <1>4, WireFrames DEF Frames
<1>7. OutboxBar' = OutboxBar
  BY <1>5, <1>6, OutboxSame
<1>8. Waiting' = Append(Waiting, p)
  BY <1>1, WaitingPush
<1>9. \E n \in 0 .. RX_SIZE - 1 : Waiting = [k \in 1 .. n |-> Waiting[k]]
  BY <1>1, Numbers, SizesAssumption DEF Waiting, IInv
<1>10. InboxBar' = Append(InboxBar, p) /\ Len(InboxBar) < RX_SIZE + 1
  <2>1. CASE pc = "read"
    <3> DEFINE x == umem[frame_base(held)]
    <3>1. frame_base(held) # f /\ frame_base(held) \in Frames
      BY <2>1, ReadOwned DEF Frames
    <3>2. InboxBar = <<x>> \o Waiting /\ InboxBar' = <<x>> \o Append(Waiting, p)
      BY <1>2, <1>4, <1>8, <2>1, <3>1 DEF InboxBar
    <3> HIDE DEF x
    <3>3. PICK n \in 0 .. RX_SIZE - 1 : Waiting = [k \in 1 .. n |-> Waiting[k]]
      BY <1>9
    <3>4. Len(<<x>> \o Waiting) = n + 1
      BY <3>3, SizesAssumption
    <3>5. <<x>> \o Append(Waiting, p) = Append(<<x>> \o Waiting, p)
      BY <3>3, SizesAssumption
    <3> QED BY <3>2, <3>3, <3>4, <3>5, SizesAssumption
  <2>2. CASE pc # "read"
    BY <1>2, <1>8, <1>9, <2>2, SizesAssumption DEF InboxBar
  <2> QED BY <2>1, <2>2
<1>11. Queues!Arrive
  BY <1>2, <1>7, <1>10 DEF Queues!Arrive
<1>12. Carried'
  <2>1. pc \in {"submit", "tx_publish"} => umem'[txaddr] = umem[txaddr]
    BY <1>3, <1>4 DEF IInv, TypeOK, Control, Frames
  <2> QED BY <1>2, <1>5, <1>6, <2>1 DEF Carried
<1> QED BY <1>11, <1>12 DEF ServiceStep, Queues!Next

LEMMA KernelTakeStep ==
  ASSUME IInv, Carried, KernelTake PROVE Carried' /\ ServiceStep
<1>1. /\ tx.consumer # tx.producer /\ ktx' = ktx \cup {Peek(tx, TX_SIZE)}
      /\ tx' = Consume(tx) /\ UNCHANGED <<rx, umem, user>>
  BY DEF KernelTake
<1>2. tx \in Ring(TX_SIZE) /\ NoTwice(tx, TX_SIZE)
  BY DEF IInv, TypeOK, FrameOwnership, TxOwnership
<1>3. /\ tx' \in Ring(TX_SIZE) /\ tx'.consumer = Inc(tx.consumer)
      /\ tx'.producer = tx.producer /\ tx'.desc = tx.desc
  BY <1>1, <1>2, RingSizes, ConsumeFields
<1>4. /\ Peek(tx, TX_SIZE) \in Entries(tx, TX_SIZE)
      /\ Entries(tx', TX_SIZE) = Entries(tx, TX_SIZE) \ {Peek(tx, TX_SIZE)}
  BY <1>1, <1>2, <1>3, RingSizes, Pop
<1>5. OnTheWire' = OnTheWire
  BY <1>1, <1>4 DEF OnTheWire
<1>6. UNCHANGED <<pc, held, got, txaddr>>
  BY <1>1 DEF user
<1>7. ServiceStep
  BY <1>1, <1>5, <1>6, InboxSame, OutboxSame, Stutter
<1> QED BY <1>1, <1>5, <1>6, <1>7 DEF Carried

\* The driver's completion is the service's Transmit.
LEMMA KernelCompleteStep ==
  ASSUME IInv, Carried, KernelComplete PROVE Carried' /\ ServiceStep
<1>1. PICK f \in ktx : ktx' = ktx \ {f} /\ UNCHANGED <<rx, tx, umem, user>>
  BY DEF KernelComplete
<1>2. UNCHANGED <<pc, held, got, txaddr>>
  BY <1>1 DEF user
<1>3. f \in OnTheWire /\ f \in TxFrames /\ f \notin Entries(tx, TX_SIZE)
  BY WireFrames DEF OnTheWire
<1>4. Entries(tx', TX_SIZE) = Entries(tx, TX_SIZE)
  BY <1>1 DEF Entries, Window, Used
<1>5. OnTheWire' = OnTheWire \ {f}
  BY <1>1, <1>3, <1>4 DEF OnTheWire
<1>6. umem[f] \in Payload /\ NoPayload \notin Payload
  BY <1>3, PayloadAssumption DEF Carried
<1>7. InboxBar' = InboxBar
  BY <1>1, <1>2, InboxSame
<1>8. /\ OutboxBar[f] # NoPayload
      /\ OutboxBar' = [OutboxBar EXCEPT ![f] = NoPayload]
  BY <1>1, <1>3, <1>5, <1>6 DEF OutboxBar
<1>9. Queues!Transmit
  BY <1>2, <1>3, <1>7, <1>8 DEF Queues!Transmit
<1>10. Carried'
  BY <1>1, <1>2, <1>5 DEF Carried
<1> QED BY <1>9, <1>10 DEF ServiceStep, Queues!Next

-----------------------------------------------------------------------------
(* 4. The theorem *)

LEMMA InitMaps == ASSUME Init PROVE Carried /\ Queues!Init
<1>1. IInv
  BY InitInv
<1>2. Used(rx) = 0 /\ Entries(tx, TX_SIZE) = {}
  BY RingSizes, EmptyRing DEF Init
<1>3. OnTheWire = {}
  BY <1>2 DEF OnTheWire, Init
<1>4. InboxBar = <<>>
  BY <1>2 DEF InboxBar, Waiting, Init
<1>5. OutboxBar = [f \in TxFrames |-> NoPayload]
  BY <1>3 DEF OutboxBar
<1>6. pc = "idle" /\ got = NoPayload
  BY DEF Init
<1>7. Carried
  BY <1>3, <1>6 DEF Carried
<1> QED BY <1>4, <1>5, <1>6, <1>7 DEF Queues!Init

LEMMA NextMaps ==
  ASSUME IInv, Carried, [Next]_vars PROVE Carried' /\ ServiceStep
<1>1. CASE Receive
  BY <1>1, QuietSteps, RxReleaseStep, ReadFrameStep, FillPublishStep DEF Receive
<1>2. CASE Send
  BY <1>2, QuietSteps, BuildStep, TxSubmitStep, TxPublishStep DEF Send
<1>3. CASE Kernel
  BY <1>3, QuietSteps, KernelReceiveStep, KernelTakeStep, KernelCompleteStep
     DEF Kernel
<1>4. CASE UNCHANGED vars
  <2>1. UNCHANGED <<rx, tx, umem, pc, held, got, txaddr, ktx>>
    BY <1>4 DEF vars, user
  <2> QED BY <2>1, Unseen DEF Carried
<1> QED BY <1>1, <1>2, <1>3, <1>4 DEF Next

\* The rings are the two queues that the code above them takes them for: what
\* the driver accepted comes out of rx_peek once, in order and intact, and what
\* tx_submit was given leaves as it was built, for every size of the rings and
\* in every interleaving with the driver.
THEOREM RingsImplementService == Spec => Service
<1>1. IInv /\ Carried /\ [Next]_vars => (IInv /\ Carried)'
  BY NextInv, NextMaps
<1>2. Init => IInv /\ Carried /\ Queues!Init
  BY InitInv, InitMaps
<1>3. IInv /\ Carried /\ [Next]_vars => [Queues!Next]_(Queues!svars)
  BY NextMaps DEF ServiceStep
<1> QED BY <1>1, <1>2, <1>3, PTL DEF Spec, Service, Queues!Spec

=============================================================================
