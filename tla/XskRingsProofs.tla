--------------------------- MODULE XskRingsProofs ---------------------------
(***************************************************************************)
(* Proofs about XskRings, for every ring size, UMEM and index width its    *)
(* assumptions allow (the code's 4096 frames, 2048 entries and 2^32 among  *)
(* them).                                                                  *)
(*                                                                         *)
(*   1. Indices and slots: wrapping distances, two live indices never      *)
(*      share a slot.                                                      *)
(*   2. Rings: what a push, a pop and a private write do to the entries.   *)
(*   3. Frames: frame_base, the RX / TX partition, counting.               *)
(*   4. One lemma per action: it preserves IInv.                           *)
(*   5. Init, Next and the theorems.                                       *)
(***************************************************************************)
EXTENDS XskRings, FiniteSetTheorems, SequenceTheorems, TLAPS

\* A positive multiple of n is at least n.
LEMMA MultiplePositive ==
  ASSUME NEW n \in Nat \ {0}, NEW k \in Int, n * k > 0
  PROVE  n <= n * k
<1>1. k >= 1
  <2>1. SUFFICES ASSUME k <= 0 PROVE FALSE
    OBVIOUS
  <2>2. n * k <= 0
    BY <2>1
  <2> QED BY <2>2
<1> QED BY <1>1

\* Division with remainder: what Slot and frame_base compute with.
LEMMA DivMod ==
  ASSUME NEW n \in Nat \ {0}, NEW i \in Nat
  PROVE  /\ i % n \in 0 .. n - 1
         /\ i \div n \in Nat
         /\ i = n * (i \div n) + (i % n)
OBVIOUS

Sizes == {FILL_SIZE, RX_SIZE, TX_SIZE}

\* A ring is smaller than the range of the u32 indices and divides it.
LEMMA SizeFacts ==
  ASSUME NEW size \in Sizes
  PROVE  /\ size \in Nat \ {0}
         /\ size < W
         /\ W \in Nat
         /\ \E m \in Nat : W = size * m
<1>1. size \in Nat \ {0}
  BY SizesAssumption DEF Sizes
<1>2. PICK m \in 2 .. W : W = size * m
  BY WrapAssumption DEF Sizes
<1>3. W \in Nat
  BY WrapAssumption
<1>4. size < size * m
  BY <1>1, <1>2, <1>3
<1> QED BY <1>1, <1>2, <1>3, <1>4

\* index & mask is a slot of the ring.
LEMMA SlotType ==
  ASSUME NEW size \in Sizes, NEW i \in Index
  PROVE  Slot(i, size) \in 0 .. size - 1
<1>1. i \in Nat
  BY SizeFacts DEF Index
<1> QED BY <1>1, SizeFacts, DivMod DEF Slot

\* Two indices on the same slot are at least a whole ring apart, also
\* across the wrap of the u32 index.
LEMMA SlotsDistinct ==
  ASSUME NEW size \in Sizes, NEW i \in Index, NEW j \in Index,
         i # j, Slot(i, size) = Slot(j, size)
  PROVE  size <= Dist(i, j)
<1>0. size \in Nat \ {0} /\ W \in Nat /\ i \in Nat /\ j \in Nat /\ i < W /\ j < W
  BY SizeFacts DEF Index
<1>1. PICK m \in Nat : W = size * m
  BY SizeFacts
<1> DEFINE p == i \div size
           q == j \div size
           s == Slot(i, size)
<1>2. /\ p \in Nat /\ q \in Nat /\ s \in Nat
      /\ i = size * p + s
      /\ j = size * q + s
  <2>1. /\ i % size \in 0 .. size - 1 /\ i \div size \in Nat
        /\ i = size * (i \div size) + (i % size)
    BY <1>0, DivMod
  <2>2. /\ j % size \in 0 .. size - 1 /\ j \div size \in Nat
        /\ j = size * (j \div size) + (j % size)
    BY <1>0, DivMod
  <2>3. i % size = j % size
    BY DEF Slot
  <2> QED BY <1>0, <2>1, <2>2, <2>3 DEF Slot
<1> HIDE DEF p, q, s
<1>3. CASE i <= j
  <2>1. Dist(i, j) = size * (q - p)
    BY <1>0, <1>2, <1>3 DEF Dist
  <2>2. size * (q - p) > 0
    BY <1>0, <2>1, <1>3 DEF Dist
  <2> QED BY <1>0, <1>2, <2>1, <2>2, MultiplePositive
<1>4. CASE ~(i <= j)
  <2>1. Dist(i, j) = size * (q - p + m)
    BY <1>0, <1>1, <1>2, <1>4 DEF Dist
  <2>2. size * (q - p + m) > 0
    BY <1>0, <2>1, <1>4 DEF Dist
  <2> QED BY <1>0, <1>1, <1>2, <2>1, <2>2, MultiplePositive
<1> QED BY <1>3, <1>4

\* wrapping_add and wrapping_sub on indices.
LEMMA DistFacts ==
  ASSUME W \in Nat, W > 1,
         NEW a \in Index, NEW b \in Index, NEW c \in Index
  PROVE  /\ Inc(a) \in Index
         /\ Dist(a, b) \in 0 .. W - 1
         /\ Dist(a, b) = 0 <=> a = b
         /\ Dist(a, b) < W - 1 => Dist(a, Inc(b)) = Dist(a, b) + 1
         /\ a # b => Dist(Inc(a), b) = Dist(a, b) - 1
         /\ Dist(a, b) = Dist(a, c) => b = c
         /\ Dist(a, b) <= Dist(a, c) => Dist(b, c) = Dist(a, c) - Dist(a, b)
BY DEF Index, Inc, Dist

\* The indices have a range.
LEMMA IndexRange == W \in Nat /\ W > 1
<1>1. FILL_SIZE \in Sizes
  BY DEF Sizes
<1> QED BY <1>1, SizeFacts

\* The producer's slot is none of the slots of a window with room.
LEMMA SlotsOutside ==
  ASSUME NEW size \in Sizes, NEW r \in Ring(size), Used(r) < size,
         NEW i \in Window(r)
  PROVE  /\ i \in Index
         /\ Slot(i, size) \in 0 .. size - 1
         /\ Slot(i, size) # Slot(r.producer, size)
<1> DEFINE c == r.consumer
           p == r.producer
<1>1. /\ c \in Index /\ p \in Index /\ i \in Index
      /\ Dist(c, i) < Dist(c, p)
  BY DEF Ring, Window, Used
<1>2. size \in Nat /\ W \in Nat
  BY SizeFacts
<1> HIDE DEF c, p
<1>3. i # p /\ Dist(i, p) <= Dist(c, p)
  BY <1>1, <1>2 DEF Dist, Index
<1>4. Dist(c, p) < size /\ Dist(c, p) \in Int /\ Dist(i, p) \in Int
  BY <1>1, <1>2 DEF Used, Dist, Index, c, p
<1>5. Slot(i, size) # Slot(p, size)
  BY <1>1, <1>2, <1>3, <1>4, SlotsDistinct
<1> QED BY <1>1, <1>5, SlotType DEF p

\* A descriptor that enters a ring with room adds itself to its entries.
LEMMA Push ==
  ASSUME NEW size \in Sizes, NEW r \in Ring(size), NEW r2 \in Ring(size),
         NEW a,
         Used(r) < size,
         r2.consumer = r.consumer,
         r2.producer = Inc(r.producer),
         r2.desc[Slot(r.producer, size)] = a,
         \A s \in 0 .. size - 1 :
           s # Slot(r.producer, size) => r2.desc[s] = r.desc[s]
  PROVE  /\ Entries(r2, size) = Entries(r, size) \cup {a}
         /\ Used(r2) = Used(r) + 1
         /\ NoTwice(r, size) /\ a \notin Entries(r, size) => NoTwice(r2, size)
         /\ Window(r2) = Window(r) \cup {r.producer}
         /\ \A i \in Window(r) :
              r2.desc[Slot(i, size)] = r.desc[Slot(i, size)]
<1> DEFINE c == r.consumer
           p == r.producer
<1>1. c \in Index /\ p \in Index /\ Inc(p) \in Index
  BY IndexRange, DistFacts DEF Ring
<1>2. size \in Nat /\ size < W /\ W \in Nat
  BY SizeFacts
<1>3. Used(r2) = Used(r) + 1
  <2>1. Dist(c, p) < W - 1 /\ Dist(c, p) \in Nat
    BY <1>1, <1>2 DEF Used, Dist, Index
  <2>2. Dist(c, Inc(p)) = Dist(c, p) + 1
    BY <1>1, <1>2, <2>1 DEF Dist, Inc, Index
  <2> QED BY <2>2 DEF Used
<1>4. \A i \in Index : Dist(c, i) \in Nat /\ (Dist(c, i) = Dist(c, p) => i = p)
  BY <1>1, IndexRange, DistFacts
<1>5. Window(r2) = Window(r) \cup {p}
  BY <1>1, <1>3, <1>4 DEF Window, Used
<1>6. \A i \in Window(r) : i \in Index /\ Slot(i, size) \in 0 .. size - 1
                            /\ Slot(i, size) # Slot(p, size)
  BY SlotsOutside
<1>7. \A i \in Window(r) : r2.desc[Slot(i, size)] = r.desc[Slot(i, size)]
  BY <1>6
<1>8. Entries(r2, size) = Entries(r, size) \cup {a}
  BY <1>5, <1>7 DEF Entries
<1>9. ASSUME NoTwice(r, size), a \notin Entries(r, size)
      PROVE  NoTwice(r2, size)
  BY <1>5, <1>7, <1>9 DEF NoTwice, Entries
<1> QED BY <1>3, <1>5, <1>7, <1>8, <1>9

\* A consumer that moves past the oldest descriptor removes just that one.
LEMMA Pop ==
  ASSUME NEW size \in Sizes, NEW r \in Ring(size), NEW r2 \in Ring(size),
         r.consumer # r.producer,
         NoTwice(r, size),
         r2.consumer = Inc(r.consumer),
         r2.producer = r.producer,
         r2.desc = r.desc
  PROVE  /\ r.consumer \in Window(r)
         /\ Peek(r, size) \in Entries(r, size)
         /\ Entries(r2, size) = Entries(r, size) \ {Peek(r, size)}
         /\ Used(r2) = Used(r) - 1
         /\ Used(r) \in Nat \ {0}
         /\ NoTwice(r2, size)
         /\ Window(r2) = Window(r) \ {r.consumer}
<1> DEFINE c == r.consumer
           p == r.producer
<1>1. c \in Index /\ p \in Index /\ Inc(c) \in Index
  BY IndexRange, DistFacts DEF Ring
<1>2. Used(r2) = Used(r) - 1 /\ Used(r) \in Nat \ {0}
  BY <1>1, IndexRange, DistFacts DEF Used
<1>3. Dist(c, c) = 0
  BY <1>1, IndexRange, DistFacts
<1>4. c \in Window(r)
  BY <1>1, <1>2, <1>3 DEF Window, Used
<1>5. Dist(Inc(c), c) = W - 1
  BY <1>1, IndexRange DEF Dist, Inc, Index
<1>6. \A i \in Index : i # c => Dist(Inc(c), i) = Dist(c, i) - 1
  BY <1>1, IndexRange, DistFacts
<1>7. Dist(Inc(c), p) \in 0 .. W - 1
  BY <1>1, IndexRange, DistFacts
<1>8. \A i \in Index : Dist(c, i) \in 0 .. W - 1
  BY <1>1, IndexRange, DistFacts
<1>9. Window(r2) = Window(r) \ {c}
  <2>1. ASSUME NEW i \in Index PROVE i \in Window(r2) <=> i \in Window(r) /\ i # c
    <3>1. CASE i = c
      BY <1>1, <1>5, <1>7, <3>1, IndexRange DEF Window, Used
    <3>2. CASE i # c
      BY <1>1, <1>2, <1>6, <1>8, <3>2, IndexRange DEF Window, Used
    <3> QED BY <3>1, <3>2
  <2> QED BY <2>1 DEF Window
<1>10. Entries(r2, size) = Entries(r, size) \ {Peek(r, size)}
  BY <1>4, <1>9 DEF Entries, Peek, NoTwice
<1> QED BY <1>2, <1>4, <1>9, <1>10 DEF Entries, Peek, NoTwice

\* Writing the slot behind the producer index of a ring with room changes
\* nothing the other side can see.
LEMMA Quiet ==
  ASSUME NEW size \in Sizes, NEW r \in Ring(size), NEW r2 \in Ring(size),
         Used(r) < size,
         r2.consumer = r.consumer,
         r2.producer = r.producer,
         \A s \in 0 .. size - 1 :
           s # Slot(r.producer, size) => r2.desc[s] = r.desc[s]
  PROVE  /\ Entries(r2, size) = Entries(r, size)
         /\ Used(r2) = Used(r)
         /\ Window(r2) = Window(r)
         /\ NoTwice(r, size) => NoTwice(r2, size)
         /\ \A i \in Window(r) :
              r2.desc[Slot(i, size)] = r.desc[Slot(i, size)]
<1> DEFINE c == r.consumer
           p == r.producer
<1>1. c \in Index /\ p \in Index
  BY DEF Ring
<1>2. size \in Nat /\ size < W /\ W \in Nat
  BY SizeFacts
<1>3. Window(r2) = Window(r) /\ Used(r2) = Used(r)
  BY DEF Window, Used
<1>6. \A i \in Window(r) : i \in Index /\ Slot(i, size) \in 0 .. size - 1
                            /\ Slot(i, size) # Slot(p, size)
  BY SlotsOutside
<1>7. \A i \in Window(r) : r2.desc[Slot(i, size)] = r.desc[Slot(i, size)]
  BY <1>6
<1> QED BY <1>3, <1>7 DEF NoTwice, Entries

\* A remainder is determined by any quotient that leaves one in range.
LEMMA ModUnique ==
  ASSUME NEW n \in Nat \ {0}, NEW q \in Nat, NEW h \in 0 .. n - 1
  PROVE  (q * n + h) % n = h
<1> DEFINE x == q * n + h
           d == x \div n
           m == x % n
<1>1. x \in Nat
  OBVIOUS
<1>2. m \in 0 .. n - 1 /\ d \in Nat /\ x = n * d + m
  BY <1>1, DivMod
<1>3. x = n * q + h
  OBVIOUS
<1> HIDE DEF x, d, m
<1>4. n * (q - d) = m - h /\ n * (d - q) = h - m
  BY <1>2, <1>3
<1>5. ~ (n * (q - d) > 0)
  BY <1>2, <1>4, MultiplePositive
<1>6. ~ (n * (d - q) > 0)
  BY <1>2, <1>4, MultiplePositive
<1>7. m = h
  BY <1>2, <1>4, <1>5, <1>6
<1> QED BY <1>7 DEF m, x

\* frame_base undoes the kernel's offset into the frame.
LEMMA BaseOfFrame ==
  ASSUME NEW f \in Frames, NEW h \in 0 .. frame_size - 1
  PROVE  /\ f + h \in Addr
         /\ frame_base(f + h) = f
         /\ f \in Nat
<1>1. PICK i \in 0 .. FRAME_COUNT - 1 : f = i * frame_size
  BY SizesAssumption, PoolAssumption DEF Frames, RxFrames, TxFrames
<1>2. frame_size \in Nat \ {0} /\ i \in Nat /\ FRAME_COUNT \in Nat /\ i + 1 <= FRAME_COUNT
  BY <1>1, FrameAssumption, SizesAssumption
<1>3. (f + h) % frame_size = h
  BY <1>1, <1>2, ModUnique
<1>4. f \in Nat
  BY <1>1, <1>2
<1>5. (i + 1) * frame_size <= FRAME_COUNT * frame_size
  BY <1>2
<1>6. f + h < FRAME_COUNT * frame_size
  BY <1>1, <1>2, <1>5
<1>7. FRAME_COUNT * frame_size \in Nat
  BY <1>2
<1>8. f + h \in Addr
  BY <1>4, <1>6, <1>7, <1>2 DEF Addr
<1>9. frame_base(f + h) = f
  BY <1>3, <1>4, <1>2 DEF frame_base
<1> QED BY <1>4, <1>8, <1>9

\* RX and TX frames are disjoint sets of addresses inside the UMEM, each
\* its own frame_base.
LEMMA FrameFacts ==
  /\ RxFrames \cap TxFrames = {}
  /\ Frames \subseteq Addr
  /\ None \notin Addr
  /\ Headroom \in 0 .. frame_size - 1
  /\ \A f \in Frames : /\ f \in Nat
                       /\ frame_base(f) = f
                       /\ frame_base(f + Headroom) = f
                       /\ f + Headroom \in Addr
<1>1. frame_size \in Nat \ {0} /\ Headroom \in 0 .. frame_size - 1
      /\ 0 \in 0 .. frame_size - 1
  BY FrameAssumption
<1>2. ASSUME NEW f \in Frames
      PROVE  /\ f \in Nat /\ frame_base(f) = f
             /\ frame_base(f + Headroom) = f /\ f + Headroom \in Addr
             /\ f \in Addr
  <2>1. f \in Nat /\ frame_base(f + Headroom) = f /\ f + Headroom \in Addr
    BY <1>1, BaseOfFrame
  <2>2. frame_base(f + 0) = f /\ f + 0 \in Addr
    BY <1>1, BaseOfFrame
  <2> QED BY <2>1, <2>2
<1>3. None \notin Addr
  BY DEF None, Addr
<1>4. RxFrames \cap TxFrames = {}
  <2> SUFFICES ASSUME NEW i \in 0 .. FILL_SIZE - 1,
                      NEW j \in FILL_SIZE .. FRAME_COUNT - 1,
                      i * frame_size = j * frame_size
               PROVE FALSE
    BY DEF RxFrames, TxFrames
  <2>1. i \in Nat /\ j \in Nat /\ j - i > 0
    BY SizesAssumption
  <2>2. frame_size * (j - i) = 0
    BY <2>1, <1>1
  <2>3. frame_size * (j - i) > 0
    BY <2>1, <1>1
  <2> QED BY <2>2, <2>3
<1> QED BY <1>1, <1>2, <1>3, <1>4

-----------------------------------------------------------------------------
\* What a consumer step leaves in each word of a ring.
LEMMA ConsumeFields ==
  ASSUME NEW size \in Sizes, NEW r \in Ring(size)
  PROVE  /\ Consume(r) \in Ring(size)
         /\ Consume(r).consumer = Inc(r.consumer)
         /\ Consume(r).producer = r.producer
         /\ Consume(r).cached = r.cached
         /\ Consume(r).desc = r.desc
<1>1. Inc(r.consumer) \in Index
  BY IndexRange, DistFacts DEF Ring
<1> QED BY <1>1 DEF Consume, Ring

\* What the write of a descriptor leaves in each word of a ring.
LEMMA WriteFields ==
  ASSUME NEW size \in Sizes, NEW r \in Ring(size), NEW a \in Addr
  PROVE  /\ WriteDesc(r, size, a) \in Ring(size)
         /\ WriteDesc(r, size, a).consumer = r.consumer
         /\ WriteDesc(r, size, a).producer = r.producer
         /\ WriteDesc(r, size, a).cached = Inc(r.cached)
         /\ WriteDesc(r, size, a).desc[Slot(r.cached, size)] = a
         /\ \A s \in 0 .. size - 1 : s # Slot(r.cached, size) =>
              WriteDesc(r, size, a).desc[s] = r.desc[s]
<1>1. Inc(r.cached) \in Index
  BY IndexRange, DistFacts DEF Ring
<1>2. Slot(r.cached, size) \in 0 .. size - 1
  BY SlotType DEF Ring
<1> QED BY <1>1, <1>2 DEF WriteDesc, Ring

\* What the store of the producer index leaves in each word of a ring.
LEMMA PublishFields ==
  ASSUME NEW size \in Sizes, NEW r \in Ring(size)
  PROVE  /\ Publish(r) \in Ring(size)
         /\ Publish(r).consumer = r.consumer
         /\ Publish(r).producer = r.cached
         /\ Publish(r).cached = r.cached
         /\ Publish(r).desc = r.desc
BY DEF Publish, Ring

\* What a kernel-side production leaves in each word of a ring.
LEMMA ProduceFields ==
  ASSUME NEW size \in Sizes, NEW r \in Ring(size), NEW a \in Addr
  PROVE  /\ KernelProduce(r, size, a) \in Ring(size)
         /\ KernelProduce(r, size, a).consumer = r.consumer
         /\ KernelProduce(r, size, a).producer = Inc(r.producer)
         /\ KernelProduce(r, size, a).desc[Slot(r.producer, size)] = a
         /\ \A s \in 0 .. size - 1 : s # Slot(r.producer, size) =>
              KernelProduce(r, size, a).desc[s] = r.desc[s]
<1>1. Inc(r.producer) \in Index
  BY IndexRange, DistFacts DEF Ring
<1>2. Slot(r.producer, size) \in 0 .. size - 1
  BY SlotType DEF Ring
<1> QED BY <1>1, <1>2 DEF KernelProduce, Ring

\* RX holds addresses past the headroom; recycle needs their frames.
LEMMA RxImage ==
  ASSUME NEW E, \A a \in E : \E f \in RxFrames : a = f + Headroom, NEW x \in E
  PROVE  {frame_base(a) : a \in E \ {x}} = {frame_base(a) : a \in E} \ {frame_base(x)}
<1>1. \A a, b \in E : frame_base(a) = frame_base(b) => a = b
  BY FrameFacts DEF Frames
<1> QED BY <1>1

\* A split into four places stays one when an element moves to the next.
LEMMA Moves4 ==
  ASSUME NEW S, NEW A, NEW B, NEW C, NEW D, Split4(S, A, B, C, D), NEW x
  PROVE  /\ x \in A => Split4(S, A \ {x}, B \cup {x}, C, D)
         /\ x \in B => Split4(S, A, B \ {x}, C \cup {x}, D)
         /\ x \in C => Split4(S, A, B, C \ {x}, D \cup {x})
         /\ x \in D => Split4(S, A \cup {x}, B, C, D \ {x})
BY Zenon DEF Split4

\* The same for five places.
LEMMA Moves5 ==
  ASSUME NEW S, NEW A, NEW B, NEW C, NEW D, NEW E,
         Split5(S, A, B, C, D, E), NEW x
  PROVE  /\ x \in A => Split5(S, A \ {x}, B \cup {x}, C, D, E)
         /\ x \in B => Split5(S, A, B \ {x}, C \cup {x}, D, E)
         /\ x \in C => Split5(S, A, B, C \ {x}, D \cup {x}, E)
         /\ x \in D => Split5(S, A, B, C, D \ {x}, E \cup {x})
         /\ x \in E => Split5(S, A \cup {x}, B, C, D, E \ {x})
BY DEF Split5

\* The three sizes the rings are made with.
LEMMA RingSizes == FILL_SIZE \in Sizes /\ RX_SIZE \in Sizes /\ TX_SIZE \in Sizes
BY DEF Sizes

\* Sets of frames are finite, so adding or removing one frame counts for one.
LEMMA CountFrames ==
  ASSUME NEW S \in SUBSET Frames, NEW x
  PROVE  /\ Cardinality(S) \in Nat
         /\ x \notin S => Cardinality(S \cup {x}) = Cardinality(S) + 1
         /\ x \in S => Cardinality(S \ {x}) = Cardinality(S) - 1
<1>1. FRAME_COUNT * frame_size \in Nat
  BY SizesAssumption, FrameAssumption
<1>2. IsFiniteSet(Addr)
  BY <1>1, FS_Interval DEF Addr
<1>3. IsFiniteSet(S)
  BY <1>2, FrameFacts, FS_Subset
<1> QED BY <1>3, FS_CardinalityType, FS_AddElement, FS_RemoveElement

\* The stack of free frames.
Elems(s) == {s[i] : i \in 1 .. Len(s)}
Distinct(s) == \A i, j \in 1 .. Len(s) : s[i] = s[j] => i = j

\* Popping tx_free removes exactly its last frame.
LEMMA StackPop ==
  ASSUME NEW T, NEW s \in Seq(T), s # <<>>, Distinct(s)
  PROVE  LET t == SubSeq(s, 1, Len(s) - 1)
             x == s[Len(s)]
         IN  /\ t \in Seq(T) /\ x \in T /\ x \in Elems(s)
             /\ Len(t) = Len(s) - 1
             /\ Elems(t) = Elems(s) \ {x}
             /\ Distinct(t)
<1> DEFINE t == SubSeq(s, 1, Len(s) - 1)
           n == Len(s) - 1
<1>1. Len(s) \in Nat \ {0} /\ n \in Nat /\ \A i \in 1 .. n : s[i] \in T
  OBVIOUS
<1>2. t \in Seq(T) /\ Len(t) = n /\ \A i \in 1 .. n : t[i] = s[i]
  <2>1. /\ SubSeq(s, 1, n) \in Seq(T)
        /\ Len(SubSeq(s, 1, n)) = IF 1 <= n THEN n - 1 + 1 ELSE 0
        /\ \A i \in 1 .. n - 1 + 1 : SubSeq(s, 1, n)[i] = s[1 + i - 1]
    BY <1>1, SubSeqProperties
  <2>2. t = SubSeq(s, 1, n)
    OBVIOUS
  <2> HIDE DEF n, t
  <2> QED BY <1>1, <2>1, <2>2
<1>3. s[Len(s)] \in T
  BY <1>1
<1> HIDE DEF t
<1>4. Elems(t) = Elems(s) \ {s[Len(s)]} /\ Distinct(t) /\ s[Len(s)] \in Elems(s)
  BY <1>1, <1>2, <1>3 DEF Elems, Distinct
<1> QED BY <1>2, <1>3, <1>4 DEF t

\* Pushing onto tx_free adds exactly one frame.
LEMMA StackPush ==
  ASSUME NEW T, NEW s \in Seq(T), NEW x \in T, Distinct(s), x \notin Elems(s)
  PROVE  LET t == Append(s, x)
         IN  /\ t \in Seq(T)
             /\ Len(t) = Len(s) + 1
             /\ Elems(t) = Elems(s) \cup {x}
             /\ Distinct(t)
<1> DEFINE t == Append(s, x)
<1>1. Len(s) \in Nat
  OBVIOUS
<1>2. /\ t \in Seq(T) /\ Len(t) = Len(s) + 1
      /\ \A i \in 1 .. Len(s) : t[i] = s[i]
      /\ t[Len(s) + 1] = x
  BY <1>1
<1> HIDE DEF t
<1>3. Elems(t) = Elems(s) \cup {x} /\ Distinct(t)
  BY <1>1, <1>2 DEF Elems, Distinct
<1> QED BY <1>2, <1>3 DEF t

\* A ring's occupancy is a number below the index range.
LEMMA UsedType ==
  ASSUME NEW size \in Sizes, NEW r \in Ring(size)
  PROVE  Used(r) \in Nat
<1>1. r.consumer \in Index /\ r.producer \in Index
  BY DEF Ring
<1> QED BY <1>1, IndexRange DEF Used, Dist, Index

\* The counts of IInv are numbers, so that they can be compared.
LEMMA Numbers ==
  ASSUME TypeOK
  PROVE  /\ Used(fill) \in Nat /\ Used(rx) \in Nat /\ Used(tx) \in Nat
         /\ Used(comp) \in Nat /\ Used(CompLeft) \in Nat
         /\ CompLeft \in Ring(TX_SIZE)
         /\ Cardinality(krx) \in Nat /\ Cardinality(ktx) \in Nat
         /\ Len(tx_free) \in Nat
         /\ FILL_SIZE \in Nat /\ TX_SIZE \in Nat /\ FRAME_COUNT \in Nat
<1>1. CompLeft \in Ring(TX_SIZE)
  BY DEF TypeOK, CompLeft, Ring
<1>2. Cardinality(krx) \in Nat /\ Cardinality(ktx) \in Nat
  BY CountFrames DEF TypeOK, Frames
<1>3. Len(tx_free) \in Nat
  BY DEF TypeOK
<1> QED BY <1>1, <1>2, <1>3, UsedType, RingSizes, SizesAssumption DEF TypeOK

-----------------------------------------------------------------------------
(* Steps of one direction leave the other direction's places alone. *)

\* A step that leaves the RX cycle alone keeps its ownership.
LEMMA RxSame ==
  ASSUME RxOwnership, RxCount, UNCHANGED <<fill, rx, krx>>,
         UserRx' = UserRx, HasRx' <=> HasRx
  PROVE  RxOwnership' /\ RxCount'
BY DEF RxOwnership, RxCount, RxQueued, One

\* A step that leaves the TX cycle alone keeps its ownership.
LEMMA TxSame ==
  ASSUME TxOwnership, TxCount, UNCHANGED <<tx, comp, tx_free, txaddr, ktx>>,
         CompLeft' = CompLeft
  PROVE  TxOwnership' /\ TxCount'
BY DEF TxOwnership, TxCount, Free, UserTx, One

-----------------------------------------------------------------------------
(* One lemma per action: the invariant survives it. *)

\* rx_peek's copy of a descriptor moves nothing.
LEMMA RxPeekInv == ASSUME IInv, RxPeek PROVE IInv'
<1> USE DEF IInv, RxPeek
<1>1. TypeOK'
  <2>1. held' \in Addr
    BY SlotType, RingSizes DEF TypeOK, Peek, Ring
  <2> QED BY <2>1 DEF TypeOK, PCs
<1>2. Control'
  <2>1. \E f \in RxFrames : held' = f + Headroom
    BY RingSizes, Pop, ConsumeFields
       DEF Control, Peek, TypeOK, FrameOwnership, RxOwnership
  <2>2. held' # None
    BY <2>1, FrameFacts DEF Frames
  <2> QED BY <2>1, <2>2 DEF Control, Window, Used
<1>3. PrivateFill' /\ PrivateTx' /\ Reclaiming'
  BY DEF PrivateFill, PrivateTx, Reclaiming
<1>4. ~HasRx /\ ~HasRx' /\ CompLeft' = CompLeft
  BY DEF HasRx, Control, CompLeft
<1>5. RxOwnership' /\ RxCount'
  BY <1>4, RxSame DEF UserRx, FrameOwnership
<1>6. TxOwnership' /\ TxCount'
  BY <1>4, TxSame DEF FrameOwnership
<1> QED BY <1>1, <1>2, <1>3, <1>5, <1>6 DEF FrameOwnership

\* rx_peek's consumer store moves the frame from RX to the user.
LEMMA RxReleaseInv == ASSUME IInv, RxRelease PROVE IInv'
<1> USE DEF IInv, RxRelease
<1>0. /\ rx \in Ring(RX_SIZE) /\ rx.consumer # rx.producer
      /\ NoTwice(rx, RX_SIZE) /\ held = Peek(rx, RX_SIZE) /\ held # None
  BY DEF TypeOK, Control, FrameOwnership, RxOwnership
<1>1. /\ rx' \in Ring(RX_SIZE) /\ rx'.consumer = Inc(rx.consumer)
      /\ rx'.producer = rx.producer /\ rx'.desc = rx.desc
  BY <1>0, RingSizes, ConsumeFields
<1>2. /\ held \in Entries(rx, RX_SIZE)
      /\ Entries(rx', RX_SIZE) = Entries(rx, RX_SIZE) \ {held}
      /\ Used(rx') = Used(rx) - 1 /\ Used(rx) \in Nat
      /\ NoTwice(rx', RX_SIZE)
      /\ Window(rx') = Window(rx) \ {rx.consumer}
  BY <1>0, <1>1, RingSizes, Pop
<1>3. TypeOK'
  BY <1>1 DEF TypeOK, PCs
<1>4. Control'
  BY <1>1, <1>2 DEF Control
<1>5. PrivateFill' /\ PrivateTx' /\ Reclaiming'
  BY DEF PrivateFill, PrivateTx, Reclaiming
<1>6. ~HasRx /\ HasRx' /\ CompLeft' = CompLeft
  BY <1>0 DEF HasRx, CompLeft
<1>7. RxOwnership'
  <2>1. \A a \in Entries(rx, RX_SIZE) : \E f \in RxFrames : a = f + Headroom
    BY DEF Control, Entries
  <2>2. RxQueued' = RxQueued \ {frame_base(held)}
    BY <1>2, <2>1, RxImage DEF RxQueued
  <2>3. frame_base(held) \in RxQueued
    BY <1>2 DEF RxQueued
  <2>4. UserRx = {} /\ UserRx' = UserRx \cup {frame_base(held)}
    BY <1>6 DEF UserRx
  <2>5. Split4(RxFrames, Entries(fill, FILL_SIZE), krx, RxQueued, UserRx)
    BY DEF FrameOwnership, RxOwnership
  <2>6. Split4(RxFrames, Entries(fill, FILL_SIZE), krx, RxQueued', UserRx')
    BY <2>2, <2>3, <2>4, <2>5, Moves4
  <2> QED BY <1>2, <2>6 DEF FrameOwnership, RxOwnership
<1>8. RxCount'
  BY <1>2, <1>6, Numbers, SizesAssumption DEF RxCount, One
<1>9. TxOwnership' /\ TxCount'
  BY <1>6, TxSame DEF FrameOwnership
<1> QED BY <1>3, <1>4, <1>5, <1>7, <1>8, <1>9 DEF FrameOwnership

\* Reading a packet out of the UMEM moves nothing.
LEMMA ReadFrameInv == ASSUME IInv, ReadFrame PROVE IInv'
<1> USE DEF IInv, ReadFrame
<1>1. TypeOK'
  <2>1. frame_base(held) \in Frames
    BY FrameFacts DEF Control, Frames
  <2> QED BY <2>1 DEF TypeOK, PCs
<1>2. Control'
  BY DEF Control, Window, Used
<1>3. PrivateFill' /\ PrivateTx' /\ Reclaiming'
  BY DEF PrivateFill, PrivateTx, Reclaiming
<1>4. HasRx' <=> HasRx
  BY DEF HasRx
<1>5. RxOwnership' /\ RxCount'
  BY <1>4, RxSame DEF UserRx, FrameOwnership
<1>6. TxOwnership' /\ TxCount'
  BY TxSame DEF FrameOwnership, CompLeft
<1> QED BY <1>1, <1>2, <1>3, <1>5, <1>6 DEF FrameOwnership

\* recycle's descriptor write is invisible to the kernel.
LEMMA RecycleInv == ASSUME IInv, Recycle PROVE IInv'
<1> USE DEF IInv, Recycle
<1> DEFINE f == frame_base(held)
<1>0. /\ fill \in Ring(FILL_SIZE) /\ f \in RxFrames /\ f \in Addr
      /\ fill.cached = fill.producer /\ NoTwice(fill, FILL_SIZE)
  BY FrameFacts DEF TypeOK, Control, Frames, PrivateFill, FrameOwnership,
                    RxOwnership
<1>1. HasRx /\ HasRx' /\ UserRx' = UserRx /\ CompLeft' = CompLeft
  BY DEF HasRx, Control, UserRx, CompLeft
<1>2. Used(fill) < FILL_SIZE
  BY <1>1, Numbers DEF RxCount, One
<1>3. /\ fill' \in Ring(FILL_SIZE) /\ fill'.consumer = fill.consumer
      /\ fill'.producer = fill.producer /\ fill'.cached = Inc(fill.producer)
      /\ fill'.desc[Slot(fill.producer, FILL_SIZE)] = f
      /\ \A s \in 0 .. FILL_SIZE - 1 : s # Slot(fill.producer, FILL_SIZE) =>
           fill'.desc[s] = fill.desc[s]
  BY <1>0, RingSizes, WriteFields
<1>4. /\ Entries(fill', FILL_SIZE) = Entries(fill, FILL_SIZE)
      /\ Used(fill') = Used(fill) /\ NoTwice(fill', FILL_SIZE)
  BY <1>0, <1>2, <1>3, RingSizes, Quiet
<1>5. TypeOK'
  BY <1>3 DEF TypeOK, PCs
<1>6. Control'
  BY DEF Control, Window, Used
<1>7. PrivateFill' /\ PrivateTx' /\ Reclaiming'
  BY <1>3 DEF PrivateFill, PrivateTx, Reclaiming
<1>8. RxOwnership' /\ RxCount'
  BY <1>1, <1>4 DEF FrameOwnership, RxOwnership, RxCount, RxQueued, One
<1>9. TxOwnership' /\ TxCount'
  BY <1>1, TxSame DEF FrameOwnership
<1> QED BY <1>5, <1>6, <1>7, <1>8, <1>9 DEF FrameOwnership

\* recycle's producer store moves the frame from the user to FILL.
LEMMA FillPublishInv == ASSUME IInv, FillPublish PROVE IInv'
<1> USE DEF IInv, FillPublish
<1> DEFINE f == frame_base(held)
<1>0. /\ fill \in Ring(FILL_SIZE) /\ fill.cached = Inc(fill.producer)
      /\ fill.desc[Slot(fill.producer, FILL_SIZE)] = f
      /\ NoTwice(fill, FILL_SIZE)
  BY DEF TypeOK, PrivateFill, FrameOwnership, RxOwnership
<1>1. HasRx /\ ~HasRx' /\ UserRx = {f} /\ UserRx' = {} /\ CompLeft' = CompLeft
  BY DEF HasRx, Control, UserRx, CompLeft
<1>2. Used(fill) < FILL_SIZE
  BY <1>1, Numbers DEF RxCount, One
<1>3. /\ fill' \in Ring(FILL_SIZE) /\ fill'.consumer = fill.consumer
      /\ fill'.producer = Inc(fill.producer) /\ fill'.cached = fill'.producer
      /\ fill'.desc = fill.desc
  BY <1>0, RingSizes, PublishFields
<1>4. Split4(RxFrames, Entries(fill, FILL_SIZE), krx, RxQueued, UserRx)
  BY DEF FrameOwnership, RxOwnership
<1>5. f \notin Entries(fill, FILL_SIZE)
  BY <1>1, <1>4 DEF Split4
<1>6. /\ Entries(fill', FILL_SIZE) = Entries(fill, FILL_SIZE) \cup {f}
      /\ Used(fill') = Used(fill) + 1 /\ NoTwice(fill', FILL_SIZE)
  BY <1>0, <1>2, <1>3, <1>5, RingSizes, Push
<1>7. TypeOK'
  BY <1>3 DEF TypeOK, PCs
<1>8. Control'
  BY DEF Control, Window, Used
<1>9. PrivateFill' /\ PrivateTx' /\ Reclaiming'
  BY <1>3 DEF PrivateFill, PrivateTx, Reclaiming
<1>10. RxOwnership'
  <2>1. f \in UserRx /\ UserRx' = UserRx \ {f}
    BY <1>1
  <2>2. Split4(RxFrames, Entries(fill, FILL_SIZE) \cup {f}, krx, RxQueued,
               UserRx \ {f})
    BY <1>4, <2>1, Moves4
  <2> QED BY <1>6, <2>1, <2>2 DEF FrameOwnership, RxOwnership, RxQueued
<1>11. RxCount'
  BY <1>1, <1>6, Numbers DEF RxCount, One
<1>12. TxOwnership' /\ TxCount'
  BY <1>1, TxSame DEF FrameOwnership
<1> QED BY <1>7, <1>8, <1>9, <1>10, <1>11, <1>12 DEF FrameOwnership

\* A frame comes off the pool: tx_alloc, before or after a reclaim.
LEMMA TakeFree ==
  ASSUME IInv, MaySend \/ pc = "pop", tx_free # <<>>,
         txaddr' = tx_free[Len(tx_free)],
         tx_free' = SubSeq(tx_free, 1, Len(tx_free) - 1),
         pc' = "build",
         UNCHANGED <<fill, rx, tx, comp, umem, held, got, prod, cons, krx, ktx>>
  PROVE  IInv'
<1> USE DEF IInv
<1> DEFINE f == tx_free[Len(tx_free)]
<1>0. pc \in {"idle", "consumed", "pop"}
  BY DEF MaySend
<1>1. /\ tx_free' \in Seq(TxFrames) /\ f \in TxFrames
      /\ Len(tx_free') = Len(tx_free) - 1
      /\ Free' = Free \ {f} /\ f \in Free
      /\ \A i, j \in 1 .. Len(tx_free') : tx_free'[i] = tx_free'[j] => i = j
  <2>1. tx_free \in Seq(TxFrames) /\ Distinct(tx_free)
    BY DEF TypeOK, FrameOwnership, TxOwnership, Distinct
  <2>2. /\ tx_free' \in Seq(TxFrames) /\ f \in TxFrames
        /\ Len(tx_free') = Len(tx_free) - 1
        /\ Elems(tx_free') = Elems(tx_free) \ {f} /\ f \in Elems(tx_free)
        /\ Distinct(tx_free')
    BY <2>1, StackPop
  <2> QED BY <2>2 DEF Free, Elems, Distinct
<1>2. txaddr = None /\ txaddr' # None /\ UserTx = {} /\ UserTx' = {f}
  BY <1>0, <1>1, FrameFacts DEF Control, UserTx, Frames
<1>3. CompLeft' = CompLeft
  BY <1>0 DEF CompLeft
<1>4. TypeOK'
  BY <1>1 DEF TypeOK, PCs
<1>5. Control'
  BY <1>0, <1>2 DEF Control, Window, Used
<1>6. PrivateFill' /\ PrivateTx' /\ Reclaiming'
  BY <1>0 DEF PrivateFill, PrivateTx, Reclaiming
<1>7. RxOwnership' /\ RxCount'
  BY <1>0, RxSame DEF UserRx, HasRx, FrameOwnership
<1>8. TxOwnership'
  <2>1. Split5(TxFrames, Free, {}, Entries(tx, TX_SIZE), ktx,
               Entries(CompLeft, TX_SIZE))
    BY <1>2 DEF FrameOwnership, TxOwnership
  <2>2. Split5(TxFrames, Free', {} \cup {f}, Entries(tx, TX_SIZE), ktx,
               Entries(CompLeft, TX_SIZE))
    BY <1>1, <2>1, Moves5
  <2> QED BY <1>1, <1>2, <1>3, <2>2 DEF FrameOwnership, TxOwnership
<1>9. TxCount'
  BY <1>1, <1>2, <1>3, Numbers DEF TxCount, One
<1> QED BY <1>4, <1>5, <1>6, <1>7, <1>8, <1>9 DEF FrameOwnership

\* reclaim_comp begins with an empty pool.
LEMMA ReclaimLoadInv == ASSUME IInv, ReclaimLoad PROVE IInv'
<1> USE DEF IInv, ReclaimLoad
<1>0. pc \in {"idle", "consumed"} /\ comp \in Ring(TX_SIZE)
  BY DEF MaySend, TypeOK
<1>1. comp.consumer \in Index /\ comp.producer \in Index
  BY <1>0 DEF Ring
<1>2. CompLeft = comp /\ CompLeft' = comp
  BY <1>0, <1>1 DEF CompLeft, Ring
<1>3. TypeOK'
  BY <1>1 DEF TypeOK, PCs
<1>4. Control'
  BY <1>0 DEF Control, Window, Used
<1>5. PrivateFill' /\ PrivateTx'
  BY <1>0 DEF PrivateFill, PrivateTx
<1>6. Reclaiming'
  <2>1. Dist(comp.consumer, comp.consumer) = 0 /\ Used(comp) \in Nat
    BY <1>1, IndexRange, Numbers DEF Dist, Index
  <2>2. Len(tx_free) = 0
    OBVIOUS
  <2> QED BY <2>1, <2>2 DEF Reclaiming, Used
<1>7. RxOwnership' /\ RxCount'
  BY <1>0, RxSame DEF UserRx, HasRx, FrameOwnership
<1>8. TxOwnership' /\ TxCount'
  BY <1>2, TxSame DEF FrameOwnership
<1> QED BY <1>3, <1>4, <1>5, <1>6, <1>7, <1>8 DEF FrameOwnership

\* A turn of reclaim_comp moves one frame from COMPLETION to the pool.
LEMMA ReclaimOneInv == ASSUME IInv, ReclaimOne PROVE IInv'
<1> USE DEF IInv, ReclaimOne
<1> DEFINE f == comp.desc[Slot(cons, TX_SIZE)]
<1>0. /\ CompLeft \in Ring(TX_SIZE) /\ CompLeft.consumer = cons
      /\ CompLeft.producer = comp.producer /\ CompLeft.desc = comp.desc
      /\ comp \in Ring(TX_SIZE)
      /\ comp.producer \in Index /\ comp.consumer \in Index
      /\ cons \in Index /\ prod \in Index
  BY Numbers DEF CompLeft, TypeOK, Ring
<1>1. /\ CompLeft' \in Ring(TX_SIZE) /\ CompLeft'.consumer = Inc(cons)
      /\ CompLeft'.producer = comp.producer /\ CompLeft'.desc = comp.desc
      /\ Inc(cons) \in Index
  <2>1. Inc(cons) \in Index
    BY <1>0, IndexRange, DistFacts
  <2> QED BY <1>0, <2>1 DEF CompLeft, Ring
<1>2. Peek(CompLeft, TX_SIZE) = f
  BY <1>0 DEF Peek
<1>3. cons # comp.producer
  <2>1. Dist(cons, prod) <= Dist(cons, comp.producer)
    BY DEF Reclaiming
  <2> QED BY <1>0, <2>1, IndexRange DEF Dist, Index
<1>4. NoTwice(CompLeft, TX_SIZE)
  BY DEF FrameOwnership, TxOwnership
<1>5. /\ f \in Entries(CompLeft, TX_SIZE)
      /\ Entries(CompLeft', TX_SIZE) = Entries(CompLeft, TX_SIZE) \ {f}
      /\ Used(CompLeft') = Used(CompLeft) - 1 /\ NoTwice(CompLeft', TX_SIZE)
  BY <1>0, <1>1, <1>2, <1>3, <1>4, RingSizes, Pop
<1>6. Split5(TxFrames, Free, UserTx, Entries(tx, TX_SIZE), ktx,
             Entries(CompLeft, TX_SIZE))
  BY DEF FrameOwnership, TxOwnership
<1>7. f \in TxFrames /\ f \notin Free
  BY <1>5, <1>6 DEF Split5
<1>8. frame_base(f) = f
  BY <1>7, FrameFacts DEF Frames
<1>9. /\ tx_free' \in Seq(TxFrames) /\ Len(tx_free') = Len(tx_free) + 1
      /\ Free' = Free \cup {f}
      /\ \A i, j \in 1 .. Len(tx_free') : tx_free'[i] = tx_free'[j] => i = j
  <2>1. tx_free \in Seq(TxFrames) /\ Distinct(tx_free)
    BY DEF TypeOK, FrameOwnership, TxOwnership, Distinct
  <2>2. Elems(tx_free) = Free
    BY DEF Elems, Free
  <2>3. tx_free' = Append(tx_free, f)
    BY <1>8
  <2>4. /\ tx_free' \in Seq(TxFrames)
        /\ Len(tx_free') = Len(tx_free) + 1
        /\ Elems(tx_free') = Elems(tx_free) \cup {f}
        /\ Distinct(tx_free')
    BY <1>7, <2>1, <2>2, <2>3, StackPush
  <2> QED BY <2>4 DEF Free, Elems, Distinct
<1>10. TypeOK'
  BY <1>1, <1>9 DEF TypeOK
<1>11. Control'
  BY DEF Control, Window, Used
<1>12. PrivateFill' /\ PrivateTx'
  BY DEF PrivateFill, PrivateTx
<1>13. Reclaiming'
  <2>1. /\ Dist(comp.consumer, cons) + Dist(cons, comp.producer) = Used(comp)
        /\ Dist(cons, prod) <= Dist(cons, comp.producer)
        /\ Len(tx_free) = Dist(comp.consumer, cons)
    BY DEF Reclaiming
  <2>2. /\ Dist(comp.consumer, Inc(cons)) = Dist(comp.consumer, cons) + 1
        /\ Dist(Inc(cons), comp.producer) = Dist(cons, comp.producer) - 1
        /\ Dist(Inc(cons), prod) = Dist(cons, prod) - 1
    <3> DEFINE a == comp.consumer
               b == comp.producer
    <3>1. /\ a \in Index /\ b \in Index /\ cons \in Index /\ prod \in Index
          /\ cons # b /\ cons # prod
          /\ Dist(a, cons) + Dist(cons, b) = Dist(a, b)
      BY <1>0, <1>3, <2>1 DEF Used
    <3> HIDE DEF a, b
    <3>2. /\ Dist(a, Inc(cons)) = Dist(a, cons) + 1
          /\ Dist(Inc(cons), b) = Dist(cons, b) - 1
          /\ Dist(Inc(cons), prod) = Dist(cons, prod) - 1
      BY <3>1, IndexRange DEF Dist, Inc, Index
    <3> QED BY <3>2 DEF a, b
  <2>3. Dist(comp.consumer, cons) \in Int /\ Dist(cons, comp.producer) \in Int
        /\ Dist(cons, prod) \in Int
    BY <1>0, IndexRange DEF Dist, Index
  <2> QED BY <1>9, <2>1, <2>2, <2>3 DEF Reclaiming, Used
<1>14. RxOwnership' /\ RxCount'
  BY RxSame DEF UserRx, HasRx, FrameOwnership
<1>15. TxOwnership'
  <2>1. Split5(TxFrames, Free \cup {f}, UserTx, Entries(tx, TX_SIZE), ktx,
               Entries(CompLeft, TX_SIZE) \ {f})
    BY <1>5, <1>6, Moves5
  <2> QED BY <1>5, <1>9, <2>1 DEF FrameOwnership, TxOwnership, UserTx
<1>16. TxCount'
  <2>1. One(txaddr # None) \in Nat /\ One(txaddr # None)' = One(txaddr # None)
    BY DEF One
  <2>2. /\ Used(comp') <= TX_SIZE
        /\ tx' = tx /\ ktx' = ktx
    BY DEF TxCount
  <2> DEFINE a == Len(tx_free)
             b == One(txaddr # None)
             c == Used(tx)
             d == Cardinality(ktx)
             e == Used(CompLeft)
  <2>3. a \in Int /\ b \in Int /\ c \in Int /\ d \in Int /\ e \in Int
    BY <2>1, Numbers
  <2>4. a + b + c + d + e = FRAME_COUNT - FILL_SIZE
    BY DEF TxCount
  <2>5. Len(tx_free') = a + 1 /\ Used(CompLeft') = e - 1
    BY <1>5, <1>9
  <2> HIDE DEF a, b, c, d, e
  <2>6. (a + 1) + b + c + d + (e - 1) = FRAME_COUNT - FILL_SIZE
    BY <2>3, <2>4
  <2> QED BY <2>1, <2>2, <2>5, <2>6 DEF TxCount, a, b, c, d, e
<1> QED BY <1>10, <1>11, <1>12, <1>13, <1>14, <1>15, <1>16 DEF FrameOwnership

\* reclaim_comp's consumer store releases only entries it has copied.
LEMMA ReclaimStoreInv == ASSUME IInv, ReclaimStore PROVE IInv'
<1> USE DEF IInv, ReclaimStore
<1>0. CompLeft' = CompLeft /\ comp' = CompLeft
  BY DEF CompLeft
<1>1. TypeOK'
  <2>1. comp' \in Ring(TX_SIZE)
    BY <1>0, Numbers
  <2>2. 0 \in Index
    BY IndexRange DEF Index
  <2> QED BY <2>1, <2>2 DEF TypeOK, PCs
<1>2. Control'
  BY DEF Control, Window, Used
<1>3. PrivateFill' /\ PrivateTx' /\ Reclaiming'
  BY DEF PrivateFill, PrivateTx, Reclaiming
<1>4. RxOwnership' /\ RxCount'
  BY RxSame DEF UserRx, HasRx, FrameOwnership
<1>5. TxOwnership'
  BY <1>0 DEF FrameOwnership, TxOwnership, Free, UserTx
<1>6. TxCount'
  <2>1. One(txaddr # None) \in Nat /\ One(txaddr # None)' = One(txaddr # None)
    BY DEF One
  <2>2. Used(CompLeft) <= TX_SIZE
    BY <2>1, Numbers, PoolAssumption DEF TxCount
  <2>3. Used(comp') <= TX_SIZE /\ Used(CompLeft') = Used(CompLeft)
    BY <1>0, <2>2
  <2> QED BY <2>1, <2>3 DEF TxCount
<1> QED BY <1>1, <1>2, <1>3, <1>4, <1>5, <1>6 DEF FrameOwnership

\* The pop after a reclaim: a frame, or None.
LEMMA PopReclaimedInv == ASSUME IInv, PopReclaimed PROVE IInv'
<1>1. CASE tx_free # <<>>
  BY <1>1, TakeFree DEF PopReclaimed
<1>2. CASE tx_free = <<>>
  <2> USE DEF IInv
  <2>0. /\ pc = "pop" /\ pc' \in {"idle", "recycle", "panicked"}
        /\ pc' = "idle" => held = None
        /\ pc' = "recycle" => held # None
        /\ UNCHANGED <<fill, rx, tx, comp, tx_free, umem, held, got, txaddr,
                       prod, cons, krx, ktx>>
    BY <1>2 DEF PopReclaimed, Resume
  <2>1. TypeOK'
    BY <2>0 DEF TypeOK, PCs
  <2>2. Control'
    BY <2>0 DEF Control, Window, Used
  <2>3. PrivateFill' /\ PrivateTx' /\ Reclaiming'
    BY <2>0 DEF PrivateFill, PrivateTx, Reclaiming
  <2>4. RxOwnership' /\ RxCount'
    BY <2>0, RxSame DEF UserRx, HasRx, FrameOwnership
  <2>5. TxOwnership' /\ TxCount'
    BY <2>0, TxSame DEF FrameOwnership, CompLeft
  <2> QED BY <2>1, <2>2, <2>3, <2>4, <2>5 DEF FrameOwnership
<1> QED BY <1>1, <1>2

\* Building a packet moves nothing.
LEMMA BuildInv == ASSUME IInv, Build PROVE IInv'
<1> USE DEF IInv, Build
<1>1. TypeOK'
  <2>1. txaddr \in Frames
    BY DEF TypeOK, Control, Frames
  <2> QED BY <2>1 DEF TypeOK, PCs
<1>2. Control'
  BY DEF Control, Window, Used
<1>3. PrivateFill' /\ PrivateTx' /\ Reclaiming'
  BY DEF PrivateFill, PrivateTx, Reclaiming
<1>4. RxOwnership' /\ RxCount'
  BY RxSame DEF UserRx, HasRx, FrameOwnership
<1>5. TxOwnership' /\ TxCount'
  BY TxSame DEF FrameOwnership, CompLeft
<1> QED BY <1>1, <1>2, <1>3, <1>4, <1>5 DEF FrameOwnership

\* tx_submit's descriptor write is invisible to the kernel.
LEMMA TxSubmitInv == ASSUME IInv, TxSubmit PROVE IInv'
<1> USE DEF IInv, TxSubmit
<1>0. /\ tx \in Ring(TX_SIZE) /\ txaddr \in TxFrames /\ txaddr \in Addr
      /\ txaddr # None /\ tx.cached = tx.producer /\ NoTwice(tx, TX_SIZE)
  BY FrameFacts DEF TypeOK, Control, Frames, PrivateTx, FrameOwnership,
                    TxOwnership
<1>1. CompLeft' = CompLeft
  BY DEF CompLeft
<1>2. Used(tx) < TX_SIZE
  BY <1>0, Numbers, PoolAssumption DEF TxCount, One
<1>3. /\ tx' \in Ring(TX_SIZE) /\ tx'.consumer = tx.consumer
      /\ tx'.producer = tx.producer /\ tx'.cached = Inc(tx.producer)
      /\ tx'.desc[Slot(tx.producer, TX_SIZE)] = txaddr
      /\ \A s \in 0 .. TX_SIZE - 1 : s # Slot(tx.producer, TX_SIZE) =>
           tx'.desc[s] = tx.desc[s]
  BY <1>0, RingSizes, WriteFields
<1>4. /\ Entries(tx', TX_SIZE) = Entries(tx, TX_SIZE)
      /\ Used(tx') = Used(tx) /\ NoTwice(tx', TX_SIZE)
  BY <1>0, <1>2, <1>3, RingSizes, Quiet
<1>5. TypeOK'
  BY <1>3 DEF TypeOK, PCs
<1>6. Control'
  BY DEF Control, Window, Used
<1>7. PrivateFill' /\ PrivateTx' /\ Reclaiming'
  BY <1>3 DEF PrivateFill, PrivateTx, Reclaiming
<1>8. RxOwnership' /\ RxCount'
  BY RxSame DEF UserRx, HasRx, FrameOwnership
<1>9. TxOwnership' /\ TxCount'
  BY <1>1, <1>4 DEF FrameOwnership, TxOwnership, TxCount, Free, UserTx, One
<1> QED BY <1>5, <1>6, <1>7, <1>8, <1>9 DEF FrameOwnership

\* tx_submit's producer store moves the frame from the user to TX.
LEMMA TxPublishInv == ASSUME IInv, TxPublish PROVE IInv'
<1> USE DEF IInv, TxPublish
<1>0. /\ tx \in Ring(TX_SIZE) /\ tx.cached = Inc(tx.producer)
      /\ tx.desc[Slot(tx.producer, TX_SIZE)] = txaddr
      /\ txaddr # None /\ NoTwice(tx, TX_SIZE)
  BY DEF TypeOK, PrivateTx, Control, FrameOwnership, TxOwnership
<1>1. /\ CompLeft' = CompLeft /\ UserTx = {txaddr} /\ UserTx' = {}
      /\ pc' \in {"idle", "recycle"}
      /\ pc' = "idle" => held = None
      /\ pc' = "recycle" => held # None
  BY <1>0 DEF CompLeft, UserTx, Resume
<1>2. Used(tx) < TX_SIZE
  BY <1>0, Numbers, PoolAssumption DEF TxCount, One
<1>3. /\ tx' \in Ring(TX_SIZE) /\ tx'.consumer = tx.consumer
      /\ tx'.producer = Inc(tx.producer) /\ tx'.cached = tx'.producer
      /\ tx'.desc = tx.desc
  BY <1>0, RingSizes, PublishFields
<1>4. Split5(TxFrames, Free, UserTx, Entries(tx, TX_SIZE), ktx,
             Entries(CompLeft, TX_SIZE))
  BY DEF FrameOwnership, TxOwnership
<1>5. txaddr \notin Entries(tx, TX_SIZE)
  BY <1>1, <1>4 DEF Split5
<1>6. /\ Entries(tx', TX_SIZE) = Entries(tx, TX_SIZE) \cup {txaddr}
      /\ Used(tx') = Used(tx) + 1 /\ NoTwice(tx', TX_SIZE)
  BY <1>0, <1>2, <1>3, <1>5, RingSizes, Push
<1>7. TypeOK'
  BY <1>1, <1>3 DEF TypeOK, PCs
<1>8. Control'
  BY <1>1 DEF Control, Window, Used, Resume
<1>9. PrivateFill' /\ PrivateTx' /\ Reclaiming'
  BY <1>1, <1>3 DEF PrivateFill, PrivateTx, Reclaiming
<1>10. RxOwnership' /\ RxCount'
  BY <1>1, RxSame DEF UserRx, HasRx, FrameOwnership
<1>11. TxOwnership'
  <2>1. txaddr \in UserTx /\ UserTx' = UserTx \ {txaddr}
    BY <1>1
  <2>2. Split5(TxFrames, Free, UserTx \ {txaddr},
               Entries(tx, TX_SIZE) \cup {txaddr}, ktx,
               Entries(CompLeft, TX_SIZE))
    BY <1>4, <2>1, Moves5
  <2>3. Split5(TxFrames, Free, UserTx, Entries(tx, TX_SIZE), ktx,
               Entries(CompLeft, TX_SIZE))'
    BY <1>1, <1>6, <2>1, <2>2 DEF Free
  <2> QED BY <1>1, <1>6, <2>3 DEF FrameOwnership, TxOwnership
<1>12. TxCount'
  BY <1>0, <1>1, <1>6, Numbers DEF TxCount, One
<1> QED BY <1>7, <1>8, <1>9, <1>10, <1>11, <1>12 DEF FrameOwnership

\* The driver moves a frame from FILL to itself.
LEMMA KernelFillInv == ASSUME IInv, KernelFill PROVE IInv'
<1> USE DEF IInv, KernelFill, user
<1> DEFINE f == Peek(fill, FILL_SIZE)
<1>0. fill \in Ring(FILL_SIZE) /\ NoTwice(fill, FILL_SIZE)
  BY DEF TypeOK, FrameOwnership, RxOwnership
<1>1. /\ fill' \in Ring(FILL_SIZE) /\ fill'.consumer = Inc(fill.consumer)
      /\ fill'.producer = fill.producer /\ fill'.cached = fill.cached
      /\ fill'.desc = fill.desc
  BY <1>0, RingSizes, ConsumeFields
<1>2. /\ f \in Entries(fill, FILL_SIZE)
      /\ Entries(fill', FILL_SIZE) = Entries(fill, FILL_SIZE) \ {f}
      /\ Used(fill') = Used(fill) - 1 /\ NoTwice(fill', FILL_SIZE)
  BY <1>0, <1>1, RingSizes, Pop
<1>3. Split4(RxFrames, Entries(fill, FILL_SIZE), krx, RxQueued, UserRx)
  BY DEF FrameOwnership, RxOwnership
<1>4. f \in RxFrames /\ f \notin krx
  BY <1>2, <1>3 DEF Split4
<1>5. TypeOK'
  BY <1>1, <1>4 DEF TypeOK
<1>6. Control'
  BY DEF Control, Window, Used
<1>7. PrivateFill' /\ PrivateTx' /\ Reclaiming'
  BY <1>1 DEF PrivateFill, PrivateTx, Reclaiming
<1>8. HasRx' = HasRx /\ UserRx' = UserRx /\ CompLeft' = CompLeft
      /\ RxQueued' = RxQueued
  BY DEF HasRx, UserRx, CompLeft, RxQueued
<1>9. RxOwnership'
  <2>1. Split4(RxFrames, Entries(fill, FILL_SIZE) \ {f}, krx \cup {f},
               RxQueued, UserRx)
    BY <1>2, <1>3, Moves4
  <2> QED BY <1>2, <1>8, <2>1 DEF FrameOwnership, RxOwnership
<1>10. RxCount'
  <2>1. Cardinality(krx') = Cardinality(krx) + 1
    BY <1>4, CountFrames DEF TypeOK, Frames
  <2>2. One(HasRx)' = One(HasRx) /\ One(HasRx) \in Nat
    BY <1>8 DEF One
  <2> QED BY <1>2, <2>1, <2>2, Numbers DEF RxCount
<1>11. TxOwnership' /\ TxCount'
  BY <1>8, TxSame DEF FrameOwnership
<1> QED BY <1>5, <1>6, <1>7, <1>9, <1>10, <1>11 DEF FrameOwnership

\* The driver moves a filled frame to RX.
LEMMA KernelReceiveInv == ASSUME IInv, KernelReceive PROVE IInv'
<1> USE DEF IInv, user
<1>0. PICK f \in krx, p \in Payload :
        /\ Used(rx) < RX_SIZE
        /\ umem' = [umem EXCEPT ![f] = p]
        /\ rx' = KernelProduce(rx, RX_SIZE, f + Headroom)
        /\ krx' = krx \ {f}
        /\ UNCHANGED <<fill, tx, comp, tx_free, user, ktx>>
  BY DEF KernelReceive
<1> DEFINE a == f + Headroom
<1>1. /\ rx \in Ring(RX_SIZE) /\ f \in RxFrames /\ f \in Frames
      /\ a \in Addr /\ frame_base(a) = f /\ NoTwice(rx, RX_SIZE)
  BY FrameFacts DEF TypeOK, Frames, FrameOwnership, RxOwnership
<1>2. /\ rx' \in Ring(RX_SIZE) /\ rx'.consumer = rx.consumer
      /\ rx'.producer = Inc(rx.producer)
      /\ rx'.desc[Slot(rx.producer, RX_SIZE)] = a
      /\ \A s \in 0 .. RX_SIZE - 1 : s # Slot(rx.producer, RX_SIZE) =>
           rx'.desc[s] = rx.desc[s]
  BY <1>0, <1>1, RingSizes, ProduceFields
<1>3. Split4(RxFrames, Entries(fill, FILL_SIZE), krx, RxQueued, UserRx)
  BY DEF FrameOwnership, RxOwnership
<1>4. a \notin Entries(rx, RX_SIZE)
  BY <1>1, <1>3 DEF Split4, RxQueued
<1>5. /\ Entries(rx', RX_SIZE) = Entries(rx, RX_SIZE) \cup {a}
      /\ Used(rx') = Used(rx) + 1 /\ NoTwice(rx', RX_SIZE)
      /\ Window(rx') = Window(rx) \cup {rx.producer}
      /\ \A i \in Window(rx) :
           rx'.desc[Slot(i, RX_SIZE)] = rx.desc[Slot(i, RX_SIZE)]
  BY <1>0, <1>1, <1>2, <1>4, RingSizes, Push
<1>6. TypeOK'
  BY <1>0, <1>1, <1>2 DEF TypeOK
<1>7. Control'
  <2>1. \A i \in Window(rx') : \E g \in RxFrames :
          rx'.desc[Slot(i, RX_SIZE)] = g + Headroom
    BY <1>1, <1>2, <1>5 DEF Control
  <2>2. ASSUME pc = "rx_release"
        PROVE  rx'.consumer # rx'.producer /\ held = Peek(rx', RX_SIZE)
    <3>1. rx.consumer # rx.producer /\ held = Peek(rx, RX_SIZE)
      BY <2>2 DEF Control
    <3>2. rx.consumer \in Window(rx)
      BY <1>1, <3>1, RingSizes, ConsumeFields, Pop
    <3>3. rx'.desc[Slot(rx.consumer, RX_SIZE)] = rx.desc[Slot(rx.consumer, RX_SIZE)]
      BY <1>5, <3>2
    <3>4. held = Peek(rx', RX_SIZE)
      BY <1>2, <3>1, <3>3 DEF Peek
    <3>5. Used(rx') # 0
      BY <1>5, Numbers
    <3>6. rx'.consumer # rx'.producer
      BY <1>2, <3>5, IndexRange DEF Used, Dist, Ring, Index
    <3> QED BY <3>4, <3>6
  <2> QED BY <1>0, <2>1, <2>2 DEF Control
<1>8. PrivateFill' /\ PrivateTx' /\ Reclaiming'
  BY <1>0 DEF PrivateFill, PrivateTx, Reclaiming
<1>9. HasRx' = HasRx /\ UserRx' = UserRx /\ CompLeft' = CompLeft
      /\ RxQueued' = RxQueued \cup {f}
  BY <1>0, <1>1, <1>5 DEF HasRx, UserRx, CompLeft, RxQueued
<1>10. RxOwnership'
  <2>1. Split4(RxFrames, Entries(fill, FILL_SIZE), krx \ {f},
               RxQueued \cup {f}, UserRx)
    BY <1>3, Moves4
  <2> QED BY <1>0, <1>5, <1>9, <2>1 DEF FrameOwnership, RxOwnership
<1>11. RxCount'
  <2>1. Cardinality(krx') = Cardinality(krx) - 1
    BY <1>0, CountFrames DEF TypeOK, Frames
  <2>2. One(HasRx)' = One(HasRx) /\ One(HasRx) \in Nat
    BY <1>9 DEF One
  <2>3. Used(rx') <= RX_SIZE
    BY <1>0, <1>5, Numbers, SizesAssumption
  <2>4. fill' = fill
    BY <1>0
  <2>5. Used(fill') + Cardinality(krx') + Used(rx') + One(HasRx)' = FILL_SIZE
    BY <1>5, <2>1, <2>2, <2>4, Numbers DEF RxCount
  <2> QED BY <2>3, <2>5 DEF RxCount
<1>12. TxOwnership' /\ TxCount'
  BY <1>0, <1>9, TxSame DEF FrameOwnership
<1> QED BY <1>6, <1>7, <1>8, <1>10, <1>11, <1>12 DEF FrameOwnership

\* The driver moves a frame from TX to itself.
LEMMA KernelTakeInv == ASSUME IInv, KernelTake PROVE IInv'
<1> USE DEF IInv, KernelTake, user
<1> DEFINE f == Peek(tx, TX_SIZE)
<1>0. tx \in Ring(TX_SIZE) /\ NoTwice(tx, TX_SIZE)
  BY DEF TypeOK, FrameOwnership, TxOwnership
<1>1. /\ tx' \in Ring(TX_SIZE) /\ tx'.consumer = Inc(tx.consumer)
      /\ tx'.producer = tx.producer /\ tx'.cached = tx.cached
      /\ tx'.desc = tx.desc
  BY <1>0, RingSizes, ConsumeFields
<1>2. /\ f \in Entries(tx, TX_SIZE)
      /\ Entries(tx', TX_SIZE) = Entries(tx, TX_SIZE) \ {f}
      /\ Used(tx') = Used(tx) - 1 /\ NoTwice(tx', TX_SIZE)
  BY <1>0, <1>1, RingSizes, Pop
<1>3. Split5(TxFrames, Free, UserTx, Entries(tx, TX_SIZE), ktx,
             Entries(CompLeft, TX_SIZE))
  BY DEF FrameOwnership, TxOwnership
<1>4. f \in TxFrames /\ f \notin ktx
  BY <1>2, <1>3 DEF Split5
<1>5. TypeOK'
  BY <1>1, <1>4 DEF TypeOK
<1>6. Control'
  BY DEF Control, Window, Used
<1>7. PrivateFill' /\ PrivateTx' /\ Reclaiming'
  BY <1>1 DEF PrivateFill, PrivateTx, Reclaiming
<1>8. UserTx' = UserTx /\ CompLeft' = CompLeft /\ Free' = Free
  BY DEF UserTx, CompLeft, Free
<1>9. TxOwnership'
  <2>1. Split5(TxFrames, Free, UserTx, Entries(tx, TX_SIZE) \ {f},
               ktx \cup {f}, Entries(CompLeft, TX_SIZE))
    BY <1>2, <1>3, Moves5
  <2> QED BY <1>2, <1>8, <2>1 DEF FrameOwnership, TxOwnership
<1>10. TxCount'
  <2>1. Cardinality(ktx') = Cardinality(ktx) + 1
    BY <1>4, CountFrames DEF TypeOK, Frames
  <2>2. One(txaddr # None)' = One(txaddr # None) /\ One(txaddr # None) \in Nat
    BY DEF One
  <2> QED BY <1>2, <1>8, <2>1, <2>2, Numbers DEF TxCount
<1>11. RxOwnership' /\ RxCount'
  BY RxSame DEF UserRx, HasRx, FrameOwnership
<1> QED BY <1>5, <1>6, <1>7, <1>9, <1>10, <1>11 DEF FrameOwnership

\* The driver moves a sent frame to COMPLETION, also while reclaim_comp
\* is copying from it.
LEMMA KernelCompleteInv == ASSUME IInv, KernelComplete PROVE IInv'
<1> USE DEF IInv, user
<1>0. PICK f \in ktx :
        /\ Used(comp) < TX_SIZE
        /\ comp' = KernelProduce(comp, TX_SIZE, f)
        /\ ktx' = ktx \ {f}
        /\ UNCHANGED <<fill, rx, tx, tx_free, umem, user, krx>>
  BY DEF KernelComplete
<1>1. /\ comp \in Ring(TX_SIZE) /\ f \in TxFrames /\ f \in Addr
      /\ comp.producer \in Index /\ comp.consumer \in Index
      /\ cons \in Index /\ prod \in Index
      /\ TX_SIZE \in Nat /\ TX_SIZE < W /\ W \in Nat
  BY FrameFacts, RingSizes, SizeFacts DEF TypeOK, Frames, Ring
<1>2. /\ comp' \in Ring(TX_SIZE) /\ comp'.consumer = comp.consumer
      /\ comp'.producer = Inc(comp.producer)
      /\ comp'.desc[Slot(comp.producer, TX_SIZE)] = f
      /\ \A s \in 0 .. TX_SIZE - 1 : s # Slot(comp.producer, TX_SIZE) =>
           comp'.desc[s] = comp.desc[s]
  BY <1>0, <1>1, RingSizes, ProduceFields
<1>3. /\ CompLeft \in Ring(TX_SIZE) /\ CompLeft' \in Ring(TX_SIZE)
      /\ CompLeft.producer = comp.producer /\ CompLeft.desc = comp.desc
      /\ CompLeft'.producer = comp'.producer /\ CompLeft'.desc = comp'.desc
      /\ CompLeft'.consumer = CompLeft.consumer
  <2>1. CASE pc = "reclaim"
    <3>1. /\ CompLeft = [comp EXCEPT !.consumer = cons]
          /\ CompLeft' = [comp' EXCEPT !.consumer = cons]
      BY <1>0, <2>1 DEF CompLeft
    <3> QED BY <1>1, <1>2, <3>1 DEF Ring
  <2>2. CASE pc # "reclaim"
    <3>1. CompLeft = comp /\ CompLeft' = comp'
      BY <1>0, <2>2 DEF CompLeft
    <3> QED BY <1>1, <1>2, <3>1
  <2> QED BY <2>1, <2>2
<1>4. Used(CompLeft) < TX_SIZE
  <2>1. CASE pc = "reclaim"
    <3>1. CompLeft.consumer = cons
      BY <1>1, <2>1 DEF CompLeft, Ring
    <3>2. Dist(comp.consumer, cons) + Dist(cons, comp.producer) = Used(comp)
      BY <2>1 DEF Reclaiming
    <3>3. Dist(comp.consumer, cons) \in Nat /\ Dist(cons, comp.producer) \in Nat
      BY <1>1 DEF Dist, Index
    <3> QED BY <1>0, <1>1, <1>3, <3>1, <3>2, <3>3 DEF Used
  <2>2. CASE pc # "reclaim"
    BY <1>0, <2>2 DEF CompLeft
  <2> QED BY <2>1, <2>2
<1>5. Split5(TxFrames, Free, UserTx, Entries(tx, TX_SIZE), ktx,
             Entries(CompLeft, TX_SIZE))
      /\ NoTwice(CompLeft, TX_SIZE)
  BY DEF FrameOwnership, TxOwnership
<1>6. f \notin Entries(CompLeft, TX_SIZE)
  BY <1>5 DEF Split5
<1>7. /\ Entries(CompLeft', TX_SIZE) = Entries(CompLeft, TX_SIZE) \cup {f}
      /\ Used(CompLeft') = Used(CompLeft) + 1 /\ NoTwice(CompLeft', TX_SIZE)
  BY <1>2, <1>3, <1>4, <1>5, <1>6, RingSizes, Push
<1>8. Used(comp') = Used(comp) + 1
  BY <1>0, <1>1, <1>2 DEF Used, Dist, Inc, Index
<1>9. TypeOK'
  BY <1>0, <1>2 DEF TypeOK
<1>10. Control'
  BY <1>0 DEF Control, Window, Used
<1>11. PrivateFill' /\ PrivateTx'
  BY <1>0 DEF PrivateFill, PrivateTx
<1>12. Reclaiming'
  <2>1. SUFFICES ASSUME pc = "reclaim" PROVE Reclaiming'
    BY <1>0 DEF Reclaiming
  <2> DEFINE a == comp.consumer
             b == comp.producer
  <2>2. /\ Dist(a, cons) + Dist(cons, b) = Dist(a, b)
        /\ Dist(cons, prod) <= Dist(cons, b)
        /\ Len(tx_free) = Dist(a, cons)
        /\ Dist(a, b) < TX_SIZE
        /\ a \in Index /\ b \in Index
    BY <1>0, <1>1, <2>1 DEF Reclaiming, Used
  <2> HIDE DEF a, b
  <2>3. /\ Dist(cons, Inc(b)) = Dist(cons, b) + 1
        /\ Dist(a, Inc(b)) = Dist(a, b) + 1
        /\ Dist(cons, b) \in Nat /\ Dist(a, cons) \in Nat
        /\ Dist(cons, prod) \in Nat
    BY <1>1, <2>2 DEF Dist, Inc, Index
  <2>4. /\ Dist(a, cons) + Dist(cons, Inc(b)) = Dist(a, Inc(b))
        /\ Dist(cons, prod) <= Dist(cons, Inc(b))
    BY <2>2, <2>3
  <2>5. comp'.consumer = a /\ comp'.producer = Inc(b)
    BY <1>2 DEF a, b
  <2>6. cons' = cons /\ prod' = prod /\ tx_free' = tx_free
    BY <1>0
  <2> QED BY <2>2, <2>4, <2>5, <2>6 DEF Reclaiming, Used
<1>13. UserTx' = UserTx /\ Free' = Free
  BY <1>0 DEF UserTx, Free
<1>14. TxOwnership'
  <2>1. Split5(TxFrames, Free, UserTx, Entries(tx, TX_SIZE), ktx \ {f},
               Entries(CompLeft, TX_SIZE) \cup {f})
    BY <1>5, Moves5
  <2> QED BY <1>0, <1>7, <1>13, <2>1 DEF FrameOwnership, TxOwnership
<1>15. TxCount'
  <2>1. Cardinality(ktx') = Cardinality(ktx) - 1
    BY <1>0, CountFrames DEF TypeOK, Frames
  <2>2. One(txaddr # None)' = One(txaddr # None) /\ One(txaddr # None) \in Nat
    BY <1>0 DEF One
  <2>3. Used(comp') <= TX_SIZE
    BY <1>0, <1>1, <1>8, Numbers
  <2>4. tx_free' = tx_free /\ tx' = tx
    BY <1>0
  <2>5. Len(tx_free) + One(txaddr # None) + Used(tx) + Cardinality(ktx)
          + Used(CompLeft) = FRAME_COUNT - FILL_SIZE
    BY DEF TxCount
  <2>6. Len(tx_free) + One(txaddr # None) + Used(tx) + (Cardinality(ktx) - 1)
          + (Used(CompLeft) + 1) = FRAME_COUNT - FILL_SIZE
    <3> DEFINE o == One(txaddr # None)
               n == Len(tx_free)
               t == Used(tx)
               k == Cardinality(ktx)
               c == Used(CompLeft)
    <3>1. o \in Int /\ n \in Int /\ t \in Int /\ k \in Int /\ c \in Int
      BY <2>2, Numbers
    <3>2. n + o + t + k + c = FRAME_COUNT - FILL_SIZE
      BY <2>5
    <3> HIDE DEF o, n, t, k, c
    <3>3. n + o + t + (k - 1) + (c + 1) = FRAME_COUNT - FILL_SIZE
      BY <3>1, <3>2
    <3> QED BY <3>3 DEF o, n, t, k, c
  <2> QED BY <1>7, <2>1, <2>2, <2>3, <2>4, <2>6 DEF TxCount
<1>16. RxOwnership' /\ RxCount'
  BY <1>0, RxSame DEF UserRx, HasRx, FrameOwnership
<1> QED BY <1>9, <1>10, <1>11, <1>12, <1>14, <1>15, <1>16 DEF FrameOwnership

-----------------------------------------------------------------------------
\* Below the ring size an index is its own slot.
LEMMA SlotSmall ==
  ASSUME NEW size \in Sizes, NEW i \in 0 .. size - 1
  PROVE  Slot(i, size) = i
<1>1. size \in Nat \ {0} /\ 0 \in Nat
  BY SizeFacts
<1>2. (0 * size + i) % size = i
  BY <1>1, ModUnique
<1> QED BY <1>1, <1>2 DEF Slot

\* Different frame numbers are different addresses.
LEMMA FramesDistinct ==
  ASSUME NEW i \in Nat, NEW j \in Nat, i * frame_size = j * frame_size
  PROVE  i = j
<1>1. frame_size \in Nat \ {0}
  BY FrameAssumption
<1>2. frame_size * (i - j) = 0 /\ frame_size * (j - i) = 0
  BY <1>1
<1>3. ~ (i - j > 0)
  BY <1>1, <1>2
<1>4. ~ (j - i > 0)
  BY <1>1, <1>2
<1> QED BY <1>3, <1>4

\* Bootstrap leaves every RX frame in FILL.
LEMMA Bootstrap ==
  LET r == fill_frames(NewRing(FILL_SIZE), FILL_SIZE)
  IN  /\ r \in Ring(FILL_SIZE) /\ r.cached = r.producer
      /\ Used(r) = FILL_SIZE
      /\ Entries(r, FILL_SIZE) = RxFrames
      /\ NoTwice(r, FILL_SIZE)
<1> DEFINE r == fill_frames(NewRing(FILL_SIZE), FILL_SIZE)
<1>1. /\ FILL_SIZE \in Nat \ {0} /\ FILL_SIZE < W /\ W \in Nat
      /\ FILL_SIZE \in Sizes
  BY RingSizes, SizeFacts
<1>2. Dist(0, 0) = 0
  BY DEF Dist
<1>3. r = [producer |-> FILL_SIZE, consumer |-> 0, cached |-> FILL_SIZE,
           desc |-> [s \in 0 .. FILL_SIZE - 1 |-> s * frame_size]]
  <2> DEFINE nr == NewRing(FILL_SIZE)
             free == FILL_SIZE - Dist(nr.consumer, nr.cached)
             m == IF FILL_SIZE < free THEN FILL_SIZE ELSE free
  <2>1. nr = [producer |-> 0, consumer |-> 0, cached |-> 0,
              desc |-> [s \in 0 .. FILL_SIZE - 1 |-> 0]]
    BY DEF NewRing
  <2>2. m = FILL_SIZE
    BY <1>1, <1>2, <2>1
  <2>3. r = [nr EXCEPT
               !.desc = [s \in 0 .. FILL_SIZE - 1 |->
                           IF s < m THEN s * frame_size ELSE nr.desc[s]],
               !.cached = m, !.producer = m]
    BY DEF fill_frames
  <2>4. [s \in 0 .. FILL_SIZE - 1 |->
           IF s < FILL_SIZE THEN s * frame_size ELSE nr.desc[s]]
        = [s \in 0 .. FILL_SIZE - 1 |-> s * frame_size]
    BY <1>1
  <2> HIDE DEF nr, m, r
  <2> QED BY <2>1, <2>2, <2>3, <2>4
<1>4. \A s \in 0 .. FILL_SIZE - 1 :
        s * frame_size \in RxFrames /\ s * frame_size \in Addr
  BY FrameFacts DEF RxFrames, Frames
<1>5. r \in Ring(FILL_SIZE) /\ r.cached = r.producer
  BY <1>1, <1>3, <1>4 DEF Ring, Index
<1>6. Used(r) = FILL_SIZE
  BY <1>1, <1>3 DEF Used, Dist
<1>7. Window(r) = 0 .. FILL_SIZE - 1
  BY <1>1, <1>3 DEF Window, Used, Dist, Index
<1>8. \A i \in 0 .. FILL_SIZE - 1 : r.desc[Slot(i, FILL_SIZE)] = i * frame_size
  BY <1>1, <1>3, SlotSmall
<1> HIDE DEF r
<1>9. Entries(r, FILL_SIZE) = RxFrames
  BY <1>7, <1>8 DEF Entries, RxFrames
<1>10. NoTwice(r, FILL_SIZE)
  BY <1>1, <1>7, <1>8, FramesDistinct DEF NoTwice
<1> QED BY <1>5, <1>6, <1>9, <1>10 DEF r

\* A new ring has no entries.
LEMMA EmptyRing ==
  ASSUME NEW size \in Sizes
  PROVE  /\ NewRing(size) \in Ring(size)
         /\ NewRing(size).cached = NewRing(size).producer
         /\ Window(NewRing(size)) = {}
         /\ Used(NewRing(size)) = 0
         /\ Entries(NewRing(size), size) = {}
         /\ NoTwice(NewRing(size), size)
<1>1. 0 \in Index
  BY IndexRange DEF Index
<1>2. 0 \in Addr
  <2>1. 0 \in 0 .. FILL_SIZE - 1
    BY SizesAssumption
  <2>2. 0 * frame_size \in RxFrames
    BY <2>1 DEF RxFrames
  <2>3. 0 * frame_size = 0
    BY FrameAssumption
  <2> QED BY <2>2, <2>3, FrameFacts DEF Frames
<1>3. Window(NewRing(size)) = {} /\ Used(NewRing(size)) = 0
  BY IndexRange DEF Window, Used, Dist, NewRing, Index
<1> QED BY <1>1, <1>2, <1>3 DEF NewRing, Ring, Entries, NoTwice

\* Xsk::new pushes every TX frame once.
LEMMA PoolFacts ==
  /\ FreePool \in Seq(TxFrames)
  /\ Len(FreePool) = FRAME_COUNT - FILL_SIZE
  /\ Elems(FreePool) = TxFrames
  /\ Distinct(FreePool)
<1> DEFINE n == FRAME_COUNT - FILL_SIZE
<1>1. n \in Nat /\ FILL_SIZE \in Nat /\ FRAME_COUNT \in Nat
  BY SizesAssumption, PoolAssumption
<1>2. \A k \in 1 .. n : (FILL_SIZE + k - 1) * frame_size \in TxFrames
  BY <1>1 DEF TxFrames
<1>3. FreePool \in [1 .. n -> TxFrames]
  BY <1>2 DEF FreePool
<1>4. FreePool \in Seq(TxFrames) /\ Len(FreePool) = n
  BY <1>1, <1>3
<1>5. \A k \in 1 .. n : FreePool[k] = (FILL_SIZE + k - 1) * frame_size
  BY DEF FreePool
<1>6. Elems(FreePool) = TxFrames
  <2>1. ASSUME NEW i \in FILL_SIZE .. FRAME_COUNT - 1
        PROVE  \E k \in 1 .. n : FILL_SIZE + k - 1 = i
    <3>1. i - FILL_SIZE + 1 \in 1 .. n /\ FILL_SIZE + (i - FILL_SIZE + 1) - 1 = i
      BY <1>1
    <3> QED BY <3>1
  <2> QED BY <1>2, <1>4, <1>5, <2>1 DEF Elems, TxFrames
<1>7. Distinct(FreePool)
  <2> SUFFICES ASSUME NEW i \in 1 .. n, NEW j \in 1 .. n,
                      FreePool[i] = FreePool[j]
               PROVE i = j
    BY <1>4 DEF Distinct
  <2>1. FILL_SIZE + i - 1 \in Nat /\ FILL_SIZE + j - 1 \in Nat
    BY <1>1
  <2>2. FILL_SIZE + i - 1 = FILL_SIZE + j - 1
    BY <1>5, <2>1, FramesDistinct
  <2> QED BY <1>1, <2>2
<1> QED BY <1>4, <1>6, <1>7

\* Xsk::new establishes the invariant.
LEMMA InitInv == ASSUME Init PROVE IInv
<1> USE DEF Init
<1>1. /\ fill \in Ring(FILL_SIZE) /\ fill.cached = fill.producer
      /\ Used(fill) = FILL_SIZE
      /\ Entries(fill, FILL_SIZE) = RxFrames /\ NoTwice(fill, FILL_SIZE)
  BY Bootstrap
<1>2. /\ rx \in Ring(RX_SIZE) /\ Window(rx) = {} /\ Used(rx) = 0
      /\ Entries(rx, RX_SIZE) = {} /\ NoTwice(rx, RX_SIZE)
  BY RingSizes, EmptyRing
<1>3. /\ tx \in Ring(TX_SIZE) /\ tx.cached = tx.producer /\ Used(tx) = 0
      /\ Entries(tx, TX_SIZE) = {} /\ NoTwice(tx, TX_SIZE)
  BY RingSizes, EmptyRing
<1>4. /\ comp \in Ring(TX_SIZE) /\ Used(comp) = 0
      /\ Entries(comp, TX_SIZE) = {} /\ NoTwice(comp, TX_SIZE)
  BY RingSizes, EmptyRing
<1>5. CompLeft = comp /\ ~HasRx /\ UserRx = {} /\ UserTx = {} /\ RxQueued = {}
  BY <1>2 DEF CompLeft, HasRx, UserRx, UserTx, RxQueued
<1>6. /\ tx_free \in Seq(TxFrames) /\ Len(tx_free) = FRAME_COUNT - FILL_SIZE
      /\ Free = TxFrames
      /\ \A i, j \in 1 .. Len(tx_free) : tx_free[i] = tx_free[j] => i = j
  BY PoolFacts DEF Free, Elems, Distinct
<1>7. TypeOK
  BY <1>1, <1>2, <1>3, <1>4, <1>6, IndexRange DEF TypeOK, PCs, Index
<1>8. Control
  BY <1>2 DEF Control
<1>9. PrivateFill /\ PrivateTx /\ Reclaiming
  BY <1>1, <1>3 DEF PrivateFill, PrivateTx, Reclaiming
<1>10. RxCount /\ TxCount
  BY <1>1, <1>2, <1>3, <1>4, <1>5, <1>6, FS_EmptySet, SizesAssumption
     DEF RxCount, TxCount, One
<1>11. RxOwnership
  BY <1>1, <1>2, <1>5 DEF RxOwnership, Split4
<1>12. TxOwnership
  BY <1>3, <1>4, <1>5, <1>6 DEF TxOwnership, Split5
<1> QED BY <1>7, <1>8, <1>9, <1>10, <1>11, <1>12, FrameFacts
        DEF IInv, FrameOwnership

-----------------------------------------------------------------------------
(* The theorems. *)

\* Every step of the socket or of the kernel preserves the invariant.
LEMMA NextInv == IInv /\ [Next]_vars => IInv'
<1> SUFFICES ASSUME IInv, [Next]_vars PROVE IInv'
  OBVIOUS
<1>1. CASE Receive
  BY <1>1, RxPeekInv, RxReleaseInv, ReadFrameInv, RecycleInv, FillPublishInv
     DEF Receive
<1>2. CASE Send
  <2>1. CASE TxAlloc
    BY <2>1, TakeFree DEF TxAlloc
  <2> QED BY <1>2, <2>1, ReclaimLoadInv, ReclaimOneInv, ReclaimStoreInv,
             PopReclaimedInv, BuildInv, TxSubmitInv, TxPublishInv DEF Send
<1>3. CASE Kernel
  BY <1>3, KernelFillInv, KernelReceiveInv, KernelTakeInv, KernelCompleteInv
     DEF Kernel
<1>4. CASE UNCHANGED vars
  <2>1. /\ UNCHANGED <<fill, rx, tx, comp, tx_free, umem, pc, held, got,
                       txaddr, prod, cons, krx, ktx>>
    BY <1>4 DEF vars, user
  <2>2. TypeOK' /\ Control' /\ PrivateFill' /\ PrivateTx' /\ Reclaiming'
    BY <2>1 DEF IInv, TypeOK, Control, PrivateFill, PrivateTx, Reclaiming,
                Window, Used
  <2>3. RxOwnership' /\ RxCount'
    BY <2>1, RxSame DEF IInv, UserRx, HasRx, FrameOwnership
  <2>4. TxOwnership' /\ TxCount'
    BY <2>1, TxSame DEF IInv, CompLeft, FrameOwnership
  <2> QED BY <2>2, <2>3, <2>4 DEF IInv, FrameOwnership
<1> QED BY <1>1, <1>2, <1>3, <1>4 DEF Next

\* The inductive invariant holds in every reachable state, for every size of
\* the rings and of the UMEM that satisfies the assumptions.
THEOREM Invariance == Spec => []IInv
<1>1. Init => IInv
  BY InitInv
<1> QED BY <1>1, NextInv, PTL DEF Spec

\* Type correctness: descriptors stay inside the UMEM, and the pool and the
\* frame in hand are always TX frames.
THEOREM TypeCorrect == Spec => []TypeOK
<1>1. IInv => TypeOK
  BY DEF IInv
<1> QED BY <1>1, Invariance, PTL

\* rx_peek, recycle, tx_alloc, reclaim_comp and tx_submit together never lose
\* a frame and never hand one out twice.
THEOREM Ownership == Spec => []FrameOwnership
<1>1. IInv => FrameOwnership
  BY DEF IInv
<1> QED BY <1>1, Invariance, PTL

\* Partial sums of the frame counts.
LEMMA Sums ==
  ASSUME NEW a \in Nat, NEW b \in Nat, NEW c \in Nat, NEW d \in Nat,
         NEW e \in Nat, NEW n \in Int, NEW m \in Nat, n <= m
  PROVE  /\ a + b + c + d = m => a + d <= m
         /\ a + b + c + d + e = n => c + b <= m
         /\ a + b + c + d + e = n => a + c + d + e <= m
OBVIOUS

\* What conservation of frames says about the rings' occupancy.
LEMMA Occupancy ==
  ASSUME IInv
  PROVE  /\ Used(fill) + One(HasRx) <= FILL_SIZE
         /\ Used(tx) + One(txaddr # None) <= TX_SIZE
         /\ Len(tx_free) + Used(tx) + Cardinality(ktx) + Used(CompLeft)
              <= TX_SIZE
         /\ One(HasRx) \in Nat /\ One(txaddr # None) \in Nat
<1>1. One(HasRx) \in Nat /\ One(txaddr # None) \in Nat
  BY DEF One
<1>2. TypeOK /\ RxCount /\ TxCount
  BY DEF IInv
<1>3. Used(fill) + One(HasRx) <= FILL_SIZE
  BY <1>1, <1>2, Numbers, Sums DEF RxCount
<1>4. FRAME_COUNT - FILL_SIZE \in Int /\ FRAME_COUNT - FILL_SIZE <= TX_SIZE
  BY PoolAssumption, SizesAssumption
<1>5. /\ Used(tx) + One(txaddr # None) <= TX_SIZE
      /\ Len(tx_free) + Used(tx) + Cardinality(ktx) + Used(CompLeft) <= TX_SIZE
  <2> DEFINE a == Len(tx_free)
             b == One(txaddr # None)
             c == Used(tx)
             d == Cardinality(ktx)
             e == Used(CompLeft)
  <2>1. /\ a \in Nat /\ b \in Nat /\ c \in Nat /\ d \in Nat /\ e \in Nat
        /\ TX_SIZE \in Nat
    BY <1>1, <1>2, Numbers
  <2>2. a + b + c + d + e = FRAME_COUNT - FILL_SIZE
    BY <1>2 DEF TxCount
  <2> HIDE DEF a, b, c, d, e
  <2>3. c + b <= TX_SIZE /\ a + c + d + e <= TX_SIZE
    BY <1>4, <2>1, <2>2, Sums
  <2> QED BY <2>3 DEF a, b, c, d, e
<1> QED BY <1>1, <1>3, <1>5

\* The unchecked writes of recycle and tx_submit always hit a free slot.
THEOREM NeverOverwrites == Spec => []NoOverwrite
<1>1. ASSUME IInv PROVE NoOverwrite
  <2> USE <1>1 DEF IInv
  <2>1. /\ Used(fill) + One(HasRx) <= FILL_SIZE
        /\ Used(tx) + One(txaddr # None) <= TX_SIZE
        /\ One(HasRx) \in Nat /\ One(txaddr # None) \in Nat
    BY Occupancy
  <2>2. Used(fill) <= FILL_SIZE /\ Used(tx) <= TX_SIZE
    BY <2>1, Numbers
  <2>3. /\ pc \in {"consumed", "recycle", "fill_publish"} =>
             Used(fill) < FILL_SIZE
        /\ pc \in {"submit", "tx_publish"} => Used(tx) < TX_SIZE
    <3>1. ASSUME pc \in {"consumed", "recycle", "fill_publish"}
          PROVE  Used(fill) < FILL_SIZE
      <4>1. One(HasRx) = 1
        BY <3>1 DEF One, HasRx, Control
      <4> QED BY <2>1, <4>1, Numbers
    <3>2. ASSUME pc \in {"submit", "tx_publish"} PROVE Used(tx) < TX_SIZE
      <4>1. One(txaddr # None) = 1
        BY <3>2 DEF One, Control
      <4> QED BY <2>1, <4>1, Numbers
    <3> QED BY <3>1, <3>2
  <2>4. Dist(fill.consumer, fill.cached) <= FILL_SIZE
    <3>1. /\ fill.consumer \in Index /\ fill.producer \in Index
          /\ FILL_SIZE \in Nat /\ FILL_SIZE < W /\ W \in Nat
      BY RingSizes, SizeFacts DEF TypeOK, Ring
    <3>2. CASE pc = "fill_publish"
      <4>1. Dist(fill.consumer, fill.producer) < FILL_SIZE
        BY <2>3, <3>2 DEF Used
      <4>2. fill.cached = Inc(fill.producer)
        BY <3>2 DEF PrivateFill
      <4> QED BY <3>1, <4>1, <4>2 DEF Dist, Inc, Index
    <3>3. CASE pc # "fill_publish"
      BY <2>2, <3>3 DEF PrivateFill, Used
    <3> QED BY <3>2, <3>3
  <2>5. Dist(tx.consumer, tx.cached) <= TX_SIZE
    <3>1. /\ tx.consumer \in Index /\ tx.producer \in Index
          /\ TX_SIZE \in Nat /\ TX_SIZE < W /\ W \in Nat
      BY RingSizes, SizeFacts DEF TypeOK, Ring
    <3>2. CASE pc = "tx_publish"
      <4>1. Dist(tx.consumer, tx.producer) < TX_SIZE
        BY <2>3, <3>2 DEF Used
      <4>2. tx.cached = Inc(tx.producer)
        BY <3>2 DEF PrivateTx
      <4> QED BY <3>1, <4>1, <4>2 DEF Dist, Inc, Index
    <3>3. CASE pc # "tx_publish"
      BY <2>2, <3>3 DEF PrivateTx, Used
    <3> QED BY <3>2, <3>3
  <2> QED BY <2>3, <2>4, <2>5 DEF NoOverwrite
<1> QED BY <1>1, Invariance, PTL

\* The driver always finds room on COMPLETION for every frame in flight,
\* however late reclaim_comp runs.
THEOREM CompletionNeverFull == Spec => []CompletionRoom
<1>1. ASSUME IInv PROVE CompletionRoom
  <2> USE <1>1 DEF IInv
  <2>1. Len(tx_free) + Used(tx) + Cardinality(ktx) + Used(CompLeft) <= TX_SIZE
    BY Occupancy
  <2>2. Used(comp) <= Used(CompLeft) + Len(tx_free)
    <3>1. CASE pc = "reclaim"
      <4>1. /\ Dist(comp.consumer, cons) + Dist(cons, comp.producer) = Used(comp)
            /\ Len(tx_free) = Dist(comp.consumer, cons)
        BY <3>1 DEF Reclaiming
      <4>2. Used(CompLeft) = Dist(cons, comp.producer)
        BY <3>1 DEF CompLeft, Used, TypeOK, Ring
      <4> QED BY <4>1, <4>2, Numbers
    <3>2. CASE pc # "reclaim"
      BY <3>2, Numbers DEF CompLeft
    <3> QED BY <3>1, <3>2
  <2> QED BY <2>1, <2>2, Numbers DEF CompletionRoom
<1> QED BY <1>1, Invariance, PTL

\* Neither Framing::build, TxToken::consume nor the receiving driver ever
\* writes into a frame that is published for transmission.
THEOREM WireIntegrity == Spec => WireStable
<1> DEFINE A == \A f \in OnTheWire : f \in OnTheWire' => umem'[f] = umem[f]
<1>1. ASSUME IInv, [Next]_vars PROVE [A]_vars
  <2>1. CASE Build
    <3>1. PICK p \in Payload : umem' = [umem EXCEPT ![txaddr] = p]
      BY <2>1 DEF Build
    <3>2. txaddr \notin OnTheWire
      BY <1>1, <2>1 DEF IInv, Control, Build, FrameOwnership, TxOwnership,
                        Split5, UserTx, OnTheWire
    <3>3. OnTheWire \subseteq Frames
      BY <1>1 DEF IInv, FrameOwnership, TxOwnership, Split5, OnTheWire, Frames
    <3> QED BY <1>1, <3>1, <3>2, <3>3 DEF IInv, TypeOK
  <2>2. CASE KernelReceive
    <3>1. PICK g \in krx, p \in Payload : umem' = [umem EXCEPT ![g] = p]
      BY <2>2 DEF KernelReceive
    <3>2. g \notin OnTheWire
      BY <1>1, FrameFacts DEF IInv, TypeOK, FrameOwnership, TxOwnership,
                              Split5, OnTheWire
    <3>3. OnTheWire \subseteq Frames
      BY <1>1 DEF IInv, FrameOwnership, TxOwnership, Split5, OnTheWire, Frames
    <3> QED BY <1>1, <3>1, <3>2, <3>3 DEF IInv, TypeOK
  <2>3. CASE ~Build /\ ~KernelReceive
    <3>1. umem' = umem
      BY <1>1, <2>3 DEF Next, Receive, Send, Kernel, RxPeek, RxRelease,
         ReadFrame, Recycle, FillPublish, TxAlloc, ReclaimLoad, ReclaimOne,
         ReclaimStore, PopReclaimed, TxSubmit, TxPublish, KernelFill,
         KernelTake, KernelComplete, vars
    <3> QED BY <3>1
  <2> QED BY <2>1, <2>2, <2>3
<1> QED BY <1>1, Invariance, PTL DEF Spec, WireStable
=============================================================================
