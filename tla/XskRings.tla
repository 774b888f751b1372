------------------------------ MODULE XskRings ------------------------------
(***************************************************************************)
(* The raw AF_XDP layer of src/socket.rs: one UMEM and the four rings FILL,*)
(* RX, TX and COMPLETION that userspace and the kernel share.              *)
(*                                                                         *)
(* Userspace is one thread; the kernel (driver or copy path) runs at any   *)
(* moment between two of its memory accesses that the other side can see.  *)
(* A user function is therefore split exactly at its shared accesses: the  *)
(* descriptor is read or written in one step and the index store that      *)
(* publishes it (Ordering::Release) is the next one.                       *)
(*                                                                         *)
(* Indices are free running u32 counters that wrap (W is 2^32 in the code, *)
(* a small multiple of the ring sizes in the model), slots are             *)
(* index & mask.  No producer on the user side looks at the consumer index *)
(* after bootstrap: that no descriptor is ever overwritten rests entirely  *)
(* on how the frames are partitioned and recycled.                         *)
(*                                                                         *)
(* Left to other modules: the wakeup flags and tx_pending (XskWakeup).     *)
(***************************************************************************)
EXTENDS Integers, Sequences, FiniteSets

CONSTANTS
  proto,        \* the plane above: "tcp" (smoltcp) or "udp"
  FRAME_COUNT,  \* frames in the UMEM
  FILL_SIZE,    \* entries of the FILL ring; frames below it are for RX
  RX_SIZE,      \* entries of the RX ring
  TX_SIZE,      \* entries of the TX and of the COMPLETION ring
  frame_size,   \* bytes of a frame
  Headroom,     \* where in a frame the kernel puts a received packet
  W,            \* the indices count modulo W
  Payload,      \* packet contents
  NoPayload     \* no packet

ASSUME SizesAssumption ==
  /\ FILL_SIZE \in Nat \ {0}
  /\ RX_SIZE \in Nat \ {0}
  /\ TX_SIZE \in Nat \ {0}
  /\ FRAME_COUNT \in Nat

\* Every TX frame fits the TX ring and the COMPLETION ring at once.
ASSUME PoolAssumption ==
  /\ FILL_SIZE < FRAME_COUNT
  /\ FRAME_COUNT - FILL_SIZE <= TX_SIZE

\* Ring sizes are powers of two, so they divide the range of the indices
\* more than once.
ASSUME WrapAssumption ==
  /\ W \in Nat
  /\ \A n \in {FILL_SIZE, RX_SIZE, TX_SIZE} :
       \E m \in 2 .. W : W = n * m

ASSUME FrameAssumption ==
  /\ frame_size \in Nat \ {0}
  /\ Headroom \in 0 .. frame_size - 1

ASSUME PayloadAssumption == NoPayload \notin Payload

ASSUME ProtoAssumption == proto \in {"tcp", "udp"}

None == -1   \* Option::None where an address is expected

-----------------------------------------------------------------------------
(* Frames and addresses. *)

\* Frame i of the UMEM starts at byte i * frame_size.
RxFrames == {i * frame_size : i \in 0 .. FILL_SIZE - 1}
TxFrames == {i * frame_size : i \in FILL_SIZE .. FRAME_COUNT - 1}
Frames == RxFrames \cup TxFrames

Addr == 0 .. FRAME_COUNT * frame_size - 1

frame_base(addr) == addr - (addr % frame_size)

-----------------------------------------------------------------------------
(* Rings.  A ring is the record of its shared and private words.           *)

Index == 0 .. W - 1

Inc(i) == IF i = W - 1 THEN 0 ELSE i + 1      \* wrapping_add(1)
Dist(a, b) == IF a <= b THEN b - a ELSE b - a + W   \* b.wrapping_sub(a)
Slot(i, size) == i % size                     \* i & mask

Ring(size) == [producer : Index, consumer : Index, cached : Index,
               desc : [0 .. size - 1 -> Addr]]

NewRing(size) == [producer |-> 0, consumer |-> 0, cached |-> 0,
                  desc |-> [s \in 0 .. size - 1 |-> 0]]

\* A user-side producer writes at its private index, then publishes it.
WriteDesc(r, size, addr) ==
  [r EXCEPT !.desc[Slot(r.cached, size)] = addr, !.cached = Inc(r.cached)]
Publish(r) == [r EXCEPT !.producer = r.cached]

\* The kernel side of a ring it produces into: descriptor and index.
KernelProduce(r, size, addr) ==
  [r EXCEPT !.desc[Slot(r.producer, size)] = addr,
            !.producer = Inc(r.producer)]

Peek(r, size) == r.desc[Slot(r.consumer, size)]
Consume(r) == [r EXCEPT !.consumer = Inc(r.consumer)]

Used(r) == Dist(r.consumer, r.producer)
Window(r) == {i \in Index : Dist(r.consumer, i) < Used(r)}
Entries(r, size) == {r.desc[Slot(i, size)] : i \in Window(r)}

-----------------------------------------------------------------------------
VARIABLES
  fill, rx, tx, comp,  \* the four rings
  tx_free,             \* user: frames free for transmission, a stack
  umem,                \* what each frame holds
  pc,                  \* user: which shared access comes next
  held,                \* user: the RX descriptor address in hand, or None
  got,                 \* user: the payload read from it, or NoPayload
  txaddr,              \* user: the TX frame in hand, or None
  prod, cons,          \* user: reclaim_comp's local copies of COMP's indices
  krx,                 \* kernel: frames taken from FILL, no packet in them yet
  ktx                  \* kernel: frames taken from TX, being transmitted

user == <<pc, held, got, txaddr, prod, cons>>
vars == <<fill, rx, tx, comp, tx_free, umem, user, krx, ktx>>

-----------------------------------------------------------------------------
(* Bootstrap: Xsk::new before bind. *)

\* Up to n frame addresses into the new FILL ring r (its indices are 0).
fill_frames(r, n) ==
  LET free == FILL_SIZE - Dist(r.consumer, r.cached)
      m    == IF n < free THEN n ELSE free
  IN  [r EXCEPT
         !.desc = [s \in 0 .. FILL_SIZE - 1 |->
                     IF s < m THEN s * frame_size ELSE r.desc[s]],
         !.cached = m,
         !.producer = m]

\* Mutant: the loop bounds shifted by one frame.
FreePool_Shifted == [k \in 1 .. FRAME_COUNT - FILL_SIZE |->
                       (FILL_SIZE + k) * frame_size]

\* The frames above the RX ones, pushed in ascending order.
FreePool == [k \in 1 .. FRAME_COUNT - FILL_SIZE |->
               (FILL_SIZE + k - 1) * frame_size]

Init ==
  /\ fill = fill_frames(NewRing(FILL_SIZE), FILL_SIZE)
  /\ rx = NewRing(RX_SIZE)
  /\ tx = NewRing(TX_SIZE)
  /\ comp = NewRing(TX_SIZE)
  /\ tx_free = FreePool
  /\ umem = [f \in Frames |-> NoPayload]
  /\ pc = "idle"
  /\ held = None /\ got = NoPayload /\ txaddr = None
  /\ prod = 0 /\ cons = 0
  /\ krx = {} /\ ktx = {}

-----------------------------------------------------------------------------
(* Receiving: rx_peek, the read of the frame, recycle. *)

\* rx_peek: load both indices, copy the descriptor out.
RxPeek ==
  /\ pc = "idle"
  /\ rx.consumer # rx.producer
  /\ held' = Peek(rx, RX_SIZE)
  /\ pc' = "rx_release"
  /\ UNCHANGED <<fill, rx, tx, comp, tx_free, umem, got, txaddr, prod, cons,
                 krx, ktx>>

\* Mutant: the consumer index is never stored.
RxRelease_Kept ==
  /\ pc = "rx_release"
  /\ pc' = "read"
  /\ UNCHANGED <<fill, rx, tx, comp, tx_free, umem, held, got, txaddr, prod,
                 cons, krx, ktx>>

\* Mutant: the consumer index goes to the producer, as if one pass drained
\* the ring.
RxRelease_Drains ==
  /\ pc = "rx_release"
  /\ rx' = [rx EXCEPT !.consumer = rx.producer]
  /\ pc' = "read"
  /\ UNCHANGED <<fill, tx, comp, tx_free, umem, held, got, txaddr, prod, cons,
                 krx, ktx>>

\* rx_peek: give the ring entry back; the frame itself stays ours.
RxRelease ==
  /\ pc = "rx_release"
  /\ rx' = Consume(rx)
  /\ pc' = "read"
  /\ UNCHANGED <<fill, tx, comp, tx_free, umem, held, got, txaddr, prod, cons,
                 krx, ktx>>

\* The caller (Framing::parse, or smoltcp inside RxToken::consume) reads the
\* packet straight out of the UMEM.
ReadFrame ==
  /\ pc = "read"
  /\ got' = umem[frame_base(held)]
  /\ pc' = "consumed"
  /\ UNCHANGED <<fill, rx, tx, comp, tx_free, umem, held, txaddr, prod, cons,
                 krx, ktx>>

\* Mutant: recycle without frame_base.
Recycle_Raw ==
  /\ pc \in {"consumed", "recycle"}
  /\ fill' = WriteDesc(fill, FILL_SIZE, held)
  /\ pc' = "fill_publish"
  /\ UNCHANGED <<rx, tx, comp, tx_free, umem, held, got, txaddr, prod, cons,
                 krx, ktx>>

\* recycle: the frame's base into the next FILL slot, whatever is there.
Recycle ==
  /\ pc \in {"consumed", "recycle"}
  /\ fill' = WriteDesc(fill, FILL_SIZE, frame_base(held))
  /\ pc' = "fill_publish"
  /\ UNCHANGED <<rx, tx, comp, tx_free, umem, held, got, txaddr, prod, cons,
                 krx, ktx>>

\* Mutant: the private index advances but is never published.
FillPublish_Forgotten ==
  /\ pc = "fill_publish"
  /\ held' = None /\ got' = NoPayload
  /\ pc' = "idle"
  /\ UNCHANGED <<fill, rx, tx, comp, tx_free, umem, txaddr, prod, cons, krx,
                 ktx>>

FillPublish ==
  /\ pc = "fill_publish"
  /\ fill' = Publish(fill)
  /\ held' = None /\ got' = NoPayload
  /\ pc' = "idle"
  /\ UNCHANGED <<rx, tx, comp, tx_free, umem, txaddr, prod, cons, krx, ktx>>

-----------------------------------------------------------------------------
(* Sending: tx_alloc with reclaim_comp, the write of the frame, tx_submit. *)
(* With TCP one packet may be sent while an RX frame is in hand: smoltcp   *)
(* answers from inside RxToken::consume.                                   *)

\* The caller asks for a frame.
MaySend == pc = "idle" \/ (pc = "consumed" /\ proto = "tcp")

\* Back to the caller, or to the RX frame whose packet was being answered.
Resume == IF held = None THEN "idle" ELSE "recycle"

\* Mutant: the frame is read off the pool but stays on it.
TxAlloc_Peeks ==
  /\ MaySend
  /\ tx_free # <<>>
  /\ txaddr' = tx_free[Len(tx_free)]
  /\ pc' = "build"
  /\ UNCHANGED <<fill, rx, tx, comp, tx_free, umem, held, got, prod, cons, krx,
                 ktx>>

\* tx_alloc, pool not empty.
TxAlloc ==
  /\ MaySend
  /\ tx_free # <<>>
  /\ txaddr' = tx_free[Len(tx_free)]
  /\ tx_free' = SubSeq(tx_free, 1, Len(tx_free) - 1)
  /\ pc' = "build"
  /\ UNCHANGED <<fill, rx, tx, comp, umem, held, got, prod, cons, krx, ktx>>

\* tx_alloc, pool empty: reclaim_comp loads the COMPLETION indices.
ReclaimLoad ==
  /\ MaySend
  /\ tx_free = <<>>
  /\ prod' = comp.producer
  /\ cons' = comp.consumer
  /\ pc' = "reclaim"
  /\ UNCHANGED <<fill, rx, tx, comp, tx_free, umem, held, got, txaddr, krx,
                 ktx>>

\* One turn of reclaim_comp's loop.
ReclaimOne ==
  /\ pc = "reclaim" /\ cons # prod
  /\ tx_free' = Append(tx_free,
                       frame_base(comp.desc[Slot(cons, TX_SIZE)]))
  /\ cons' = Inc(cons)
  /\ UNCHANGED <<fill, rx, tx, comp, umem, pc, held, got, txaddr, prod, krx,
                 ktx>>

\* Mutant: reclaim_comp returns without storing the consumer index.
ReclaimStore_Forgotten ==
  /\ pc = "reclaim" /\ cons = prod
  /\ prod' = 0 /\ cons' = 0
  /\ pc' = "pop"
  /\ UNCHANGED <<fill, rx, tx, comp, tx_free, umem, held, got, txaddr, krx,
                 ktx>>

\* The end of reclaim_comp: store the consumer index; the locals die.
ReclaimStore ==
  /\ pc = "reclaim" /\ cons = prod
  /\ comp' = [comp EXCEPT !.consumer = cons]
  /\ prod' = 0 /\ cons' = 0
  /\ pc' = "pop"
  /\ UNCHANGED <<fill, rx, tx, tx_free, umem, held, got, txaddr, krx, ktx>>

\* tx_alloc's pop after the reclaim.  On None the UDP plane drops the
\* datagram and the TCP plane panics ("TX frame pool exhausted").
PopReclaimed ==
  /\ pc = "pop"
  /\ \/ /\ tx_free # <<>>
        /\ txaddr' = tx_free[Len(tx_free)]
        /\ tx_free' = SubSeq(tx_free, 1, Len(tx_free) - 1)
        /\ pc' = "build"
     \/ /\ tx_free = <<>>
        /\ pc' = IF proto = "udp" THEN Resume ELSE "panicked"
        /\ UNCHANGED <<tx_free, txaddr>>
  /\ UNCHANGED <<fill, rx, tx, comp, umem, held, got, prod, cons, krx, ktx>>

\* Framing::build or TxToken::consume writes the packet into the frame.
Build ==
  /\ pc = "build"
  /\ \E p \in Payload : umem' = [umem EXCEPT ![txaddr] = p]
  /\ pc' = "submit"
  /\ UNCHANGED <<fill, rx, tx, comp, tx_free, held, got, txaddr, prod, cons,
                 krx, ktx>>

\* tx_submit: the descriptor into the next TX slot, whatever is there.
TxSubmit ==
  /\ pc = "submit"
  /\ tx' = WriteDesc(tx, TX_SIZE, txaddr)
  /\ pc' = "tx_publish"
  /\ UNCHANGED <<fill, rx, comp, tx_free, umem, held, got, txaddr, prod, cons,
                 krx, ktx>>

TxPublish ==
  /\ pc = "tx_publish"
  /\ tx' = Publish(tx)
  /\ txaddr' = None
  /\ pc' = Resume
  /\ UNCHANGED <<fill, rx, comp, tx_free, umem, held, got, prod, cons, krx,
                 ktx>>

-----------------------------------------------------------------------------
(* The kernel side, as the rings' users need it to be (external). *)

\* The driver takes a frame from FILL to receive into.
KernelFill ==
  /\ fill.consumer # fill.producer
  /\ krx' = krx \cup {Peek(fill, FILL_SIZE)}
  /\ fill' = Consume(fill)
  /\ UNCHANGED <<rx, tx, comp, tx_free, umem, user, ktx>>

\* A packet arrives in one of those frames and its descriptor goes to RX.
\* With RX full the packet is dropped and the driver keeps the frame.
KernelReceive ==
  \E f \in krx, p \in Payload :
    /\ Used(rx) < RX_SIZE
    /\ umem' = [umem EXCEPT ![f] = p]
    /\ rx' = KernelProduce(rx, RX_SIZE, f + Headroom)
    /\ krx' = krx \ {f}
    /\ UNCHANGED <<fill, tx, comp, tx_free, user, ktx>>

\* The driver takes a descriptor from TX.
KernelTake ==
  /\ tx.consumer # tx.producer
  /\ ktx' = ktx \cup {Peek(tx, TX_SIZE)}
  /\ tx' = Consume(tx)
  /\ UNCHANGED <<fill, rx, comp, tx_free, umem, user, krx>>

\* The packet has left the machine; completions come in any order.
KernelComplete ==
  \E f \in ktx :
    /\ Used(comp) < TX_SIZE
    /\ comp' = KernelProduce(comp, TX_SIZE, f)
    /\ ktx' = ktx \ {f}
    /\ UNCHANGED <<fill, rx, tx, tx_free, umem, user, krx>>

-----------------------------------------------------------------------------
Receive == RxPeek \/ RxRelease \/ ReadFrame \/ Recycle \/ FillPublish
Send == \/ TxAlloc \/ ReclaimLoad \/ ReclaimOne \/ ReclaimStore
        \/ PopReclaimed \/ Build \/ TxSubmit \/ TxPublish
Kernel == KernelFill \/ KernelReceive \/ KernelTake \/ KernelComplete

Next == Receive \/ Send \/ Kernel

Spec == Init /\ [][Next]_vars

\* The user thread does not stop inside a call and its loop keeps coming
\* back to recv; nothing is assumed of the driver.
FairSpec == Spec /\ WF_vars(Receive \/ Send) /\ SF_vars(RxPeek)

-----------------------------------------------------------------------------
(* Where every frame is. *)

PCs == {"idle", "rx_release", "read", "consumed", "recycle", "fill_publish",
        "reclaim", "pop", "build", "submit", "tx_publish", "panicked"}

\* The RX frame the user owns: from the moment RX's consumer index has moved
\* past its descriptor until FILL's producer index moves past its new one.
HasRx == held # None /\ pc # "rx_release"
UserRx == IF HasRx THEN {frame_base(held)} ELSE {}
UserTx == IF txaddr # None THEN {txaddr} ELSE {}
Free == {tx_free[i] : i \in 1 .. Len(tx_free)}

\* COMPLETION without the entries a running reclaim_comp already copied.
CompLeft == IF pc = "reclaim" THEN [comp EXCEPT !.consumer = cons] ELSE comp

\* Frames behind the descriptors of RX, which point past the headroom.
RxQueued == {frame_base(a) : a \in Entries(rx, RX_SIZE)}

\* S is split into the given places: together they are S, and none shares
\* anything with the places before it.
Split4(S, A, B, C, D) ==
  /\ A \cup B \cup C \cup D = S
  /\ A \cap B = {}
  /\ (A \cup B) \cap C = {}
  /\ (A \cup B \cup C) \cap D = {}

Split5(S, A, B, C, D, E) ==
  /\ A \cup B \cup C \cup D \cup E = S
  /\ A \cap B = {}
  /\ (A \cup B) \cap C = {}
  /\ (A \cup B \cup C) \cap D = {}
  /\ (A \cup B \cup C \cup D) \cap E = {}

\* No index of the ring's window names the same frame as another.
NoTwice(r, size) ==
  \A i, j \in Window(r) :
    r.desc[Slot(i, size)] = r.desc[Slot(j, size)] => i = j

-----------------------------------------------------------------------------
(* Properties. *)

TypeOK ==
  /\ fill \in Ring(FILL_SIZE)
  /\ rx \in Ring(RX_SIZE)
  /\ tx \in Ring(TX_SIZE)
  /\ comp \in Ring(TX_SIZE)
  /\ tx_free \in Seq(TxFrames)
  /\ umem \in [Frames -> Payload \cup {NoPayload}]
  /\ pc \in PCs
  /\ held \in Addr \cup {None}
  /\ got \in Payload \cup {NoPayload}
  /\ txaddr \in TxFrames \cup {None}
  /\ prod \in Index /\ cons \in Index
  /\ krx \in SUBSET RxFrames
  /\ ktx \in SUBSET TxFrames

\* The RX frames, on the cycle FILL, kernel, RX, user.
RxOwnership ==
  /\ Split4(RxFrames, Entries(fill, FILL_SIZE), krx, RxQueued, UserRx)
  /\ NoTwice(fill, FILL_SIZE) /\ NoTwice(rx, RX_SIZE)

\* The TX frames, on the cycle pool, user, TX, kernel, COMPLETION.
TxOwnership ==
  /\ Split5(TxFrames, Free, UserTx, Entries(tx, TX_SIZE), ktx,
                      Entries(CompLeft, TX_SIZE))
  /\ NoTwice(tx, TX_SIZE) /\ NoTwice(CompLeft, TX_SIZE)
  /\ \A i, j \in 1 .. Len(tx_free) : tx_free[i] = tx_free[j] => i = j

\* Every frame is in exactly one place of its cycle at every moment: no
\* frame is lost, none is handed out twice, and "RX and TX never contend
\* for a frame" (socket.rs:24).
FrameOwnership == RxOwnership /\ TxOwnership /\ RxFrames \cap TxFrames = {}

\* recycle and tx_submit write the next slot without looking at the consumer
\* index: whenever they run, the descriptor there has been consumed.
NoOverwrite ==
  /\ Dist(fill.consumer, fill.cached) <= FILL_SIZE
  /\ Dist(tx.consumer, tx.cached) <= TX_SIZE
  /\ pc \in {"consumed", "recycle"} => Used(fill) < FILL_SIZE
  /\ pc = "submit" => Used(tx) < TX_SIZE

\* COMPLETION always has room for every frame in flight, although it is
\* emptied only when the pool runs dry (tx_alloc): the driver never stalls
\* on it.
CompletionRoom == Used(comp) + Used(tx) + Cardinality(ktx) <= TX_SIZE

\* Nothing overwrites the bytes of a frame from tx_submit's publication
\* until the driver has completed it.
OnTheWire == Entries(tx, TX_SIZE) \cup ktx
WireStable ==
  [][\A f \in OnTheWire : f \in OnTheWire' => umem'[f] = umem[f]]_vars

\* A frame the driver has filled is received, recycled and available to the
\* driver again: the RX path does not leak frames while the consumer polls.
RxFrameReturns ==
  \A f \in RxFrames : f \in RxQueued ~> f \in Entries(fill, FILL_SIZE)

-----------------------------------------------------------------------------
(* The inductive invariant behind the safety properties. *)

\* What the user's program counter says about its hands and the rings.
Control ==
  /\ pc = "idle" => held = None
  /\ pc \in {"rx_release", "read", "consumed", "recycle", "fill_publish"}
       => held # None
  /\ held # None => \E f \in RxFrames : held = f + Headroom
  /\ pc = "rx_release" => rx.consumer # rx.producer
                           /\ held = Peek(rx, RX_SIZE)
  /\ txaddr # None <=> pc \in {"build", "submit", "tx_publish"}
  /\ \A i \in Window(rx) : \E f \in RxFrames :
       rx.desc[Slot(i, RX_SIZE)] = f + Headroom

\* The private producer index runs ahead of the published one only between
\* the descriptor write and the index store.
PrivateFill ==
  IF pc = "fill_publish"
  THEN /\ fill.cached = Inc(fill.producer)
       /\ fill.desc[Slot(fill.producer, FILL_SIZE)] = frame_base(held)
  ELSE fill.cached = fill.producer

PrivateTx ==
  IF pc = "tx_publish"
  THEN /\ tx.cached = Inc(tx.producer)
       /\ tx.desc[Slot(tx.producer, TX_SIZE)] = txaddr
  ELSE tx.cached = tx.producer

\* reclaim_comp's locals lie between COMPLETION's indices, and the pool holds
\* exactly what it has copied: it was empty when the reclaim began.
Reclaiming ==
  pc = "reclaim" =>
    /\ Dist(comp.consumer, cons) + Dist(cons, comp.producer) = Used(comp)
    /\ Dist(cons, prod) <= Dist(cons, comp.producer)
    /\ Len(tx_free) = Dist(comp.consumer, cons)

One(b) == IF b THEN 1 ELSE 0

\* Frames are conserved: counted over the places of its cycle, each kind
\* always comes to the same number.
RxCount ==
  /\ Used(fill) + Cardinality(krx) + Used(rx) + One(HasRx) = FILL_SIZE
  /\ Used(rx) <= RX_SIZE

TxCount ==
  /\ Len(tx_free) + One(txaddr # None) + Used(tx) + Cardinality(ktx)
       + Used(CompLeft) = FRAME_COUNT - FILL_SIZE
  /\ Used(comp) <= TX_SIZE

\* The safety properties together with what makes them inductive.
IInv ==
  /\ TypeOK /\ Control
  /\ PrivateFill /\ PrivateTx /\ Reclaiming
  /\ RxCount /\ TxCount
  /\ FrameOwnership

-----------------------------------------------------------------------------
(* The refinement: the rings as a pair of queues. *)

\* Payloads behind the RX window, oldest first.
Waiting ==
  [k \in 1 .. Used(rx) |->
     umem[frame_base(rx.desc[Slot((rx.consumer + k - 1) % W, RX_SIZE)])]]

\* A packet whose RX entry is released counts as waiting until it is read.
InboxBar ==
  IF pc = "read" THEN <<umem[frame_base(held)]>> \o Waiting ELSE Waiting

OutboxBar ==
  [f \in TxFrames |-> IF f \in OnTheWire THEN umem[f] ELSE NoPayload]

Queues == INSTANCE XskService WITH
  Buffers <- TxFrames, InboxLimit <- RX_SIZE + 1,
  inbox <- InboxBar, outbox <- OutboxBar

\* The rings implement XskService: received packets are delivered once, in
\* order and intact, and a submitted packet leaves as it was built.
Service == Queues!Spec

=============================================================================
