-------------------------- MODULE PacketBytesProofs --------------------------
(***************************************************************************)
(* Proofs about the link buffers and the FIFO of PacketBytes, for every    *)
(* size of the buffers, of the FIFO and of the packets, every set of       *)
(* messages and every length that the master may clock: the state fits the *)
(* buffers, and the bytes that readPacket gets are those of the packets    *)
(* that PacketPipe promises.                                               *)
(*                                                                         *)
(* The loops of the code are recursive functions.  What they compute is    *)
(* shown by induction, from the well-founded order of the naturals.        *)
(***************************************************************************)
EXTENDS PacketBytes, SequenceTheorems, WellFoundedInduction, TLAPS

Cells == [of : Messages \cup {Zero.of}, at : Nat]

Buffers == [data : [0..BufferSize - 1 -> Cells],
            read_pos : Nat, write_pos : Nat, loadsize : Nat, freesize : Nat]

(* What is loaded lies between the positions.                              *)
InBounds(b) == /\ b.write_pos \in 0..BufferSize
               /\ b.read_pos + b.loadsize = b.write_pos
               /\ b.freesize = BufferSize - b.loadsize

(* Nothing, or the whole packets of a message.                             *)
Carries(b) == /\ InBounds(b)
              /\ b.loadsize <= MessageSizeMax
              /\ b.loadsize % PacketSize = 0
              /\ b.loadsize # 0 => ~IsShort(MessageIn(b))

(* A message that says less than its header: to skip the header has taken  *)
(* the load size below 0.                                                  *)
Wraps(b) == /\ b.write_pos \in 0..1 /\ b.read_pos = 2
            /\ b.loadsize = 65534 + b.write_pos
            /\ b.freesize = BufferSize - b.write_pos + 2
            /\ IsShort(MessageIn(b))

Cut(b) == b \in Buffers /\ (Carries(b) \/ Wraps(b))

(* Between two steps a buffer that has nothing loaded is clear, and one    *)
(* that has, no longer has the header.                                     *)
BufferInv(b) == Cut(b) /\ (b.loadsize = 0 => b.read_pos = 0)

Chunk == [1..PacketSize -> Cells]
Capacity == InternalBufferSize \div PacketSize

FifoType == [internal_buffer : [0..InternalBufferSize - 1 -> Cells],
             index : Nat, num_items : Nat]

FifoInv(f) ==
  /\ f \in FifoType
  /\ f.index = f.num_items * PacketSize
  /\ f.index <= InternalBufferSize
  /\ \A p \in 0..InternalBufferSize - 1 :
       p >= f.index => f.internal_buffer[p] = Zero

PacketSet == {PacketOf(c) : c \in Chunk}

(* What of s a FIFO has room for.                                          *)
First(s) == IF Len(s) <= Capacity THEN s ELSE SubSeq(s, 1, Capacity)

(* The FIFO's items fill its beginning, item behind item, and nothing of   *)
(* those that were taken is left behind them.                              *)
IInv ==
  /\ BufferInv(cache) /\ BufferInv(in) /\ FifoInv(spi_rx_fifo)
  /\ data_in_available \in BOOLEAN /\ line_in_busy \in BOOLEAN
  /\ line_in_is_saturated \in BOOLEAN
  /\ data_in_available <=> in.loadsize # 0
  /\ line_in_busy <=> cache.loadsize # 0
  /\ line_in_busy => line_in_is_saturated

-----------------------------------------------------------------------------
(***************************************************************************)
(* Induction over a prefix of the naturals, and what a loop that is        *)
(* written as a recursive function computes.                               *)
(***************************************************************************)

(* Every set of naturals that is not empty has a least element.            *)
LEMMA Least ==
  ASSUME NEW T \in SUBSET Nat, T # {}
  PROVE  \E n \in T : \A k \in T : n <= k
<1> DEFINE R == OpToRel(<, Nat)
<1>1. IsWellFoundedOn(R, Nat)
  BY NatLessThanWellFounded
<1>2. \A x, y \in Nat : x < y => <<x, y>> \in R
  BY DEF OpToRel
<1> HIDE DEF R
<1>3. PICK x \in T : \A y \in T : ~(<<y, x>> \in R)
  BY <1>1, WFMin
<1>4. ASSUME NEW y \in T PROVE x <= y
  <2>1. x \in Nat /\ y \in Nat /\ ~(y < x)
    BY <1>2, <1>3
  <2> QED BY <2>1
<1> QED BY <1>4

(* A set that has 0, and with every number below n its successor, has all  *)
(* numbers up to n.                                                        *)
LEMMA Induction ==
  ASSUME NEW T, NEW n \in Nat, 0 \in T,
         \A k \in 0..n - 1 : k \in T => k + 1 \in T
  PROVE  \A k \in 0..n : k \in T
<1> SUFFICES ASSUME NEW k \in 0..n, k \notin T PROVE FALSE
  OBVIOUS
<1> DEFINE U == {j \in 0..n : j \notin T}
<1>1. U \in SUBSET Nat /\ U # {}
  OBVIOUS
<1>2. PICK m \in U : \A j \in U : m <= j
  <2> HIDE DEF U
  <2> QED BY <1>1, Least
<1>3. m - 1 \in 0..n - 1
  BY <1>2
<1>4. m - 1 \in T
  BY <1>2, <1>3
<1> QED BY <1>2, <1>3, <1>4

(* A loop of N rounds, the n-th of which takes y to step[n][y], has a      *)
(* value after each round.                                                 *)
LEMMA Rounds ==
  ASSUME NEW S, NEW x \in S, NEW N \in Nat, NEW step \in [1..N -> [S -> S]]
  PROVE  \E g \in [0..N -> S] :
           g[0] = x /\ \A n \in 1..N : g[n] = step[n][g[n - 1]]
<1> DEFINE Solves(g, M) ==
             g[0] = x /\ \A n \in 1..M : g[n] = step[n][g[n - 1]]
           T == {M \in 0..N : \E g \in [0..M -> S] : Solves(g, M)}
<1>1. 0 \in T
  <2> DEFINE g == [n \in 0..0 |-> x]
  <2>1. g \in [0..0 -> S] /\ Solves(g, 0)
    OBVIOUS
  <2>2. 0 \in 0..N
    OBVIOUS
  <2> HIDE DEF g, Solves
  <2> QED BY <2>1, <2>2
<1>2. ASSUME NEW M \in 0..N - 1, M \in T PROVE M + 1 \in T
  <2>1. PICK g \in [0..M -> S] : Solves(g, M)
    BY <1>2
  <2> DEFINE h == [n \in 0..M + 1 |->
                     IF n = M + 1 THEN step[M + 1][g[M]] ELSE g[n]]
  <2>2. step[M + 1] \in [S -> S] /\ g[M] \in S
    BY <2>1
  <2>3. h \in [0..M + 1 -> S]
    BY <2>1, <2>2
  <2>4. h[0] = x
    BY <2>1
  <2>5. ASSUME NEW n \in 1..M + 1 PROVE h[n] = step[n][h[n - 1]]
    <3>1. CASE n = M + 1
      <4>1. h[n - 1] = g[M] /\ h[n] = step[M + 1][g[M]]
        BY <3>1
      <4> QED BY <3>1, <4>1
    <3>2. CASE n \in 1..M
      <4>1. h[n - 1] = g[n - 1] /\ h[n] = g[n]
        BY <3>2
      <4> QED BY <2>1, <3>2, <4>1
    <3> QED BY <3>1, <3>2
  <2>6. Solves(h, M + 1)
    BY <2>4, <2>5
  <2> HIDE DEF h, Solves
  <2> QED BY <2>3, <2>6
<1> HIDE DEF T
<1>3. N \in T
  <2>1. \A k \in 0..N - 1 : k \in T => k + 1 \in T
    BY <1>2
  <2>2. \A k \in 0..N : k \in T
    BY <1>1, <2>1, Induction
  <2> QED BY <2>2
<1> QED BY <1>3 DEF T

-----------------------------------------------------------------------------
(***************************************************************************)
(* Arithmetic of places of PacketSize bytes.                               *)
(***************************************************************************)

LEMMA Places ==
  ASSUME NEW P \in Nat \ {0}, NEW a \in Nat, NEW b \in Nat
  PROVE  /\ a * P \in Nat
         /\ (a + 1) * P = a * P + P
         /\ a <= b => a * P <= b * P
         /\ a < b => a * P + P <= b * P
<1>1. a * P \in Nat
  BY Z3T(30)
<1>2. (a + 1) * P = a * P + P
  BY Z3T(30)
<1>3. \A c \in Nat, d \in Nat : c <= d => c * P <= d * P
  <2> SUFFICES ASSUME NEW c \in Nat, NEW d \in Nat, c <= d
               PROVE  c * P <= d * P
    OBVIOUS
  <2>1. d * P = c * P + (d - c) * P
    BY Z3T(30)
  <2>2. (d - c) * P >= 0
    BY Z3T(30)
  <2>3. c * P \in Int /\ d * P \in Int /\ (d - c) * P \in Int
    BY Z3T(30)
  <2> HIDE DEF Nat
  <2> QED BY <2>1, <2>2, <2>3
<1>4. ASSUME a < b PROVE a * P + P <= b * P
  <2>1. a + 1 \in Nat /\ a + 1 <= b
    BY <1>4
  <2>2. (a + 1) * P <= b * P
    BY <1>3, <2>1
  <2> QED BY <1>2, <2>2
<1> QED BY <1>1, <1>2, <1>3, <1>4

(* The quotient is the number of whole packets.                            *)
LEMMA Quotient ==
  ASSUME NEW P \in Nat \ {0}, NEW n \in Nat
  PROVE  /\ n \div P \in Nat
         /\ (n \div P) * P <= n
         /\ n < (n \div P) * P + P
         /\ \A q \in Nat : q * P <= n /\ n < q * P + P => n \div P = q
         /\ \A q \in Nat : q <= n \div P <=> q * P <= n
<1> DEFINE d == n \div P
<1>1. d \in Nat /\ d * P \in Nat /\ d * P <= n /\ n < d * P + P
  BY Z3T(30)
<1> HIDE DEF d
<1>2. ASSUME NEW q \in Nat, q * P <= n PROVE q <= d
  <2> SUFFICES ASSUME d < q PROVE FALSE
    BY <1>1
  <2>1. d * P + P <= q * P /\ q * P \in Nat
    BY <1>1, Places
  <2> QED BY <1>1, <1>2, <2>1
<1>3. ASSUME NEW q \in Nat, q <= d PROVE q * P <= n
  <2>1. q * P <= d * P /\ q * P \in Nat
    BY <1>1, <1>3, Places
  <2> QED BY <1>1, <2>1
<1>4. ASSUME NEW q \in Nat, q * P <= n, n < q * P + P PROVE d = q
  <2>1. q <= d
    BY <1>2, <1>4
  <2>2. d <= q
    <3> SUFFICES ASSUME q < d PROVE FALSE
      BY <1>1
    <3>1. q * P + P <= d * P /\ q * P \in Nat
      BY <1>1, Places
    <3> QED BY <1>1, <1>4, <3>1
  <2> QED BY <1>1, <2>1, <2>2
<1> QED BY <1>1, <1>2, <1>3, <1>4 DEF d

-----------------------------------------------------------------------------
(***************************************************************************)
(* The FIFO.                                                               *)
(***************************************************************************)

LEMMA FifoTypes ==
  ASSUME NEW f \in FifoType
  PROVE  /\ f.internal_buffer \in [0..InternalBufferSize - 1 -> Cells]
         /\ f.index \in Nat /\ f.num_items \in Nat
         /\ f = [internal_buffer |-> f.internal_buffer, index |-> f.index,
                 num_items |-> f.num_items]
BY DEF FifoType

LEMMA ChunkEqual ==
  ASSUME NEW u \in Chunk, NEW v \in Chunk, \A i \in 1..PacketSize : u[i] = v[i]
  PROVE  u = v
<1>1. /\ u = [i \in 1..PacketSize |-> u[i]]
      /\ v = [i \in 1..PacketSize |-> v[i]]
  BY DEF Chunk
<1> QED BY <1>1

LEMMA ZeroIsCell == Zero \in Cells
BY DEF Zero, Cells

(* The k-th item lies in the used part of the buffer.                      *)
LEMMA ItemPlace ==
  ASSUME NEW f, FifoInv(f), NEW k \in 1..f.num_items, NEW i \in 1..PacketSize
  PROVE  /\ (k - 1) * PacketSize \in Nat
         /\ (k - 1) * PacketSize + i - 1 \in 0..f.index - 1
         /\ (k - 1) * PacketSize + i - 1 \in 0..InternalBufferSize - 1
<1>1. /\ f.index \in Nat /\ f.num_items \in Nat
      /\ f.index = f.num_items * PacketSize /\ f.index <= InternalBufferSize
  BY FifoTypes DEF FifoInv
<1>2. PacketSize \in Nat \ {0} /\ InternalBufferSize \in Nat
  BY PacketAssumption
<1>3. k - 1 \in Nat /\ k - 1 < f.num_items
  BY <1>1
<1>4. /\ (k - 1) * PacketSize \in Nat
      /\ (k - 1) * PacketSize + PacketSize <= f.index
  BY <1>1, <1>2, <1>3, Places
<1> QED BY <1>1, <1>2, <1>4

LEMMA ItemsAre ==
  ASSUME NEW f, FifoInv(f)
  PROVE  /\ Fifo!Items(f) \in Seq(Chunk)
         /\ Len(Fifo!Items(f)) = f.num_items
         /\ f.num_items \in 0..Capacity
         /\ Capacity \in Nat
         /\ \A k \in 1..f.num_items : \A i \in 1..PacketSize :
              Fifo!Items(f)[k][i]
                = f.internal_buffer[(k - 1) * PacketSize + i - 1]
<1>1. /\ f.index \in Nat /\ f.num_items \in Nat
      /\ f.index = f.num_items * PacketSize /\ f.index <= InternalBufferSize
      /\ f.internal_buffer \in [0..InternalBufferSize - 1 -> Cells]
  BY FifoTypes DEF FifoInv
<1>2. PacketSize \in Nat \ {0} /\ InternalBufferSize \in Nat
  BY PacketAssumption
<1> DEFINE item(k) ==
      [i \in 1..PacketSize |->
         f.internal_buffer[(k - 1) * PacketSize + i - 1]]
<1>3. ASSUME NEW k \in 1..f.num_items PROVE item(k) \in Chunk
  <2>1. \A i \in 1..PacketSize :
          f.internal_buffer[(k - 1) * PacketSize + i - 1] \in Cells
    BY <1>1, ItemPlace
  <2> QED BY <2>1 DEF Chunk
<1>4. Fifo!Items(f) = [k \in 1..f.num_items |-> item(k)]
  BY DEF Fifo!Items
<1>5. \A k \in 1..f.num_items : Fifo!Items(f)[k] = item(k)
  BY <1>4
<1>6. f.num_items <= Capacity
  BY <1>1, <1>2, Quotient DEF Capacity
<1>7. Capacity \in Nat
  BY <1>2, Quotient DEF Capacity
<1>8. Fifo!Items(f) \in Seq(Chunk) /\ Len(Fifo!Items(f)) = f.num_items
  <2> HIDE DEF item
  <2> QED BY <1>1, <1>3, <1>4
<1>9. \A k \in 1..f.num_items : \A i \in 1..PacketSize :
        Fifo!Items(f)[k][i] = f.internal_buffer[(k - 1) * PacketSize + i - 1]
  BY <1>5
<1> QED BY <1>1, <1>6, <1>7, <1>8, <1>9

LEMMA RoomIs ==
  ASSUME NEW f, FifoInv(f)
  PROVE  Fifo!HasRoom(f) <=> f.num_items < Capacity
<1>1. /\ f.index \in Nat /\ f.num_items \in Nat
      /\ f.index = f.num_items * PacketSize
  BY FifoTypes DEF FifoInv
<1>2. PacketSize \in Nat \ {0} /\ InternalBufferSize \in Nat
  BY PacketAssumption
<1>3. f.num_items + 1 \in Nat
  BY <1>1
<1>4. f.num_items + 1 <= Capacity
        <=> (f.num_items + 1) * PacketSize <= InternalBufferSize
  BY <1>2, <1>3, Quotient DEF Capacity
<1>5. (f.num_items + 1) * PacketSize = f.index + PacketSize
  BY <1>1, <1>2, Places
<1>6. Capacity \in Nat
  BY <1>2, Quotient DEF Capacity
<1> QED BY <1>1, <1>4, <1>5, <1>6 DEF Fifo!HasRoom

(* put() adds the item behind the last one, or does nothing.               *)
LEMMA PutIs ==
  ASSUME NEW f, FifoInv(f), NEW item \in Chunk
  PROVE  LET g == Fifo!PutItem(f, item)
         IN  /\ FifoInv(g)
             /\ Fifo!Items(g) = IF f.num_items < Capacity
                                  THEN Append(Fifo!Items(f), item)
                                  ELSE Fifo!Items(f)
<1> DEFINE g == Fifo!PutItem(f, item)
<1>1. /\ f.index \in Nat /\ f.num_items \in Nat
      /\ f.index = f.num_items * PacketSize /\ f.index <= InternalBufferSize
      /\ f.internal_buffer \in [0..InternalBufferSize - 1 -> Cells]
  BY FifoTypes DEF FifoInv
<1>2. PacketSize \in Nat \ {0} /\ InternalBufferSize \in Nat
  BY PacketAssumption
<1>3. CASE ~(f.num_items < Capacity)
  BY <1>3, RoomIs DEF Fifo!PutItem
<1>4. CASE f.num_items < Capacity
  <2>1. f.index + PacketSize <= InternalBufferSize
    BY <1>4, RoomIs DEF Fifo!HasRoom
  <2> DEFINE buf == [p \in 0..InternalBufferSize - 1 |->
                       IF p \in f.index..f.index + PacketSize - 1
                         THEN item[p - f.index + 1]
                         ELSE f.internal_buffer[p]]
  <2>2. g = [internal_buffer |-> buf, index |-> f.index + PacketSize,
             num_items |-> f.num_items + 1]
    BY <1>1, <1>4, RoomIs DEF Fifo!PutItem
  <2>3. buf \in [0..InternalBufferSize - 1 -> Cells]
    <3>1. ASSUME NEW p \in f.index..f.index + PacketSize - 1
          PROVE  item[p - f.index + 1] \in Cells
      <4>1. p - f.index + 1 \in 1..PacketSize
        BY <1>1, <1>2
      <4> QED BY <4>1 DEF Chunk
    <3> QED BY <1>1, <3>1
  <2>4. /\ \A p \in 0..f.index - 1 : buf[p] = f.internal_buffer[p]
        /\ \A i \in 1..PacketSize : buf[f.index + i - 1] = item[i]
        /\ \A p \in 0..InternalBufferSize - 1 :
             p >= f.index + PacketSize => buf[p] = Zero
    <3>1. \A p \in 0..f.index - 1 : buf[p] = f.internal_buffer[p]
      BY <1>1, <1>2
    <3>2. ASSUME NEW i \in 1..PacketSize
          PROVE  buf[f.index + i - 1] = item[i]
      <4>1. /\ f.index + i - 1 \in 0..InternalBufferSize - 1
            /\ f.index + i - 1 \in f.index..f.index + PacketSize - 1
            /\ (f.index + i - 1) - f.index + 1 = i
        <5>1. PICK x \in Nat : x = f.index
          BY <1>1
        <5>2. x + PacketSize <= InternalBufferSize
          BY <2>1, <5>1
        <5>3. /\ x + i - 1 \in 0..InternalBufferSize - 1
              /\ x + i - 1 \in x..x + PacketSize - 1
              /\ (x + i - 1) - x + 1 = i
          BY <1>2, <5>2
        <5> QED BY <5>1, <5>3
      <4> QED BY <4>1
    <3>3. ASSUME NEW p \in 0..InternalBufferSize - 1,
                 p >= f.index + PacketSize
          PROVE  buf[p] = Zero
      <4>1. p >= f.index /\ ~(p \in f.index..f.index + PacketSize - 1)
        BY <1>1, <1>2, <3>3
      <4> QED BY <4>1 DEF FifoInv
    <3> QED BY <3>1, <3>2, <3>3
  <2> HIDE DEF buf
  <2>5. f.index + PacketSize = (f.num_items + 1) * PacketSize
    BY <1>1, <1>2, Places
  <2>6. FifoInv(g)
    <3>1. f.index + PacketSize \in Nat /\ f.num_items + 1 \in Nat
      BY <1>1, <1>2
    <3>2. g \in FifoType
      BY <2>2, <2>3, <3>1 DEF FifoType
    <3>3. /\ g.internal_buffer = buf /\ g.index = f.index + PacketSize
          /\ g.num_items = f.num_items + 1
      BY <2>2
    <3> HIDE DEF g
    <3> QED BY <2>1, <2>4, <2>5, <3>2, <3>3 DEF FifoInv
  <2>7. Fifo!Items(g) = Append(Fifo!Items(f), item)
    <3> DEFINE s == Fifo!Items(g)
               r == Fifo!Items(f)
               t == Append(r, item)
    <3>1. g.internal_buffer = buf /\ g.num_items = f.num_items + 1
      BY <2>2
    <3> HIDE DEF g
    <3>2. s \in Seq(Chunk) /\ Len(s) = f.num_items + 1
      BY <2>6, <3>1, ItemsAre
    <3>3. r \in Seq(Chunk) /\ Len(r) = f.num_items
      BY ItemsAre
    <3>4. /\ t \in Seq(Chunk) /\ Len(t) = f.num_items + 1
          /\ \A k \in 1..f.num_items : t[k] = r[k]
          /\ t[f.num_items + 1] = item
      BY <3>3, AppendProperties
    <3>5. ASSUME NEW k \in 1..f.num_items + 1 PROVE s[k] = t[k]
      <4>1. s[k] \in Chunk /\ t[k] \in Chunk
        BY <3>2, <3>4, ElementOfSeq
      <4>2. ASSUME NEW i \in 1..PacketSize PROVE s[k][i] = t[k][i]
        <5>1. s[k][i] = buf[(k - 1) * PacketSize + i - 1]
          BY <2>6, <3>1, ItemsAre
        <5>2. CASE k \in 1..f.num_items
          <6>1. (k - 1) * PacketSize + i - 1 \in 0..f.index - 1
            BY <5>2, ItemPlace
          <6>2. t[k][i] = f.internal_buffer[(k - 1) * PacketSize + i - 1]
            BY <3>4, <5>2, ItemsAre
          <6> QED BY <2>4, <5>1, <6>1, <6>2
        <5>3. CASE k = f.num_items + 1
          <6>1. k - 1 = f.num_items
            BY <1>1, <5>3
          <6>2. (k - 1) * PacketSize = f.index
            BY <1>1, <6>1
          <6> QED BY <2>4, <3>4, <5>1, <5>3, <6>2
        <5>4. k \in 1..f.num_items \/ k = f.num_items + 1
          <6>1. PICK x \in Nat : x = f.num_items
            BY <1>1
          <6>2. k \in 1..x + 1
            BY <6>1
          <6>3. k \in 1..x \/ k = x + 1
            BY <6>2
          <6> QED BY <6>1, <6>3
        <5> QED BY <5>2, <5>3, <5>4
      <4> HIDE DEF s, t
      <4> QED BY <4>1, <4>2, ChunkEqual
    <3> HIDE DEF s, t, r
    <3>6. s = t
      BY <3>2, <3>4, <3>5, SeqEqual
    <3> QED BY <3>6 DEF s, t, r
  <2> QED BY <1>4, <2>6, <2>7
<1> QED BY <1>3, <1>4

(* get() and removeOne() of a FIFO that is not empty take its first item,  *)
(* and leave no byte of it behind.                                         *)
LEMMA RemoveIs ==
  ASSUME NEW f, FifoInv(f), f.num_items > 0
  PROVE  LET g == Fifo!RemoveOne(f)
         IN  /\ FifoInv(g)
             /\ g.num_items = f.num_items - 1
             /\ Fifo!Items(f) # <<>>
             /\ Fifo!Items(g) = Tail(Fifo!Items(f))
<1> DEFINE g == Fifo!RemoveOne(f)
<1>1. PICK num \in Nat \ {0}, index \in Nat :
        num = f.num_items /\ index = f.index
  BY FifoTypes DEF FifoInv
<1>2. /\ index = num * PacketSize /\ index <= InternalBufferSize
      /\ f.internal_buffer \in [0..InternalBufferSize - 1 -> Cells]
  BY <1>1, FifoTypes DEF FifoInv
<1>3. PacketSize \in Nat \ {0} /\ InternalBufferSize \in Nat
  BY PacketAssumption
<1> DEFINE moved == (num - 1) * PacketSize
<1>4. num - 1 \in Nat /\ moved \in Nat /\ moved + PacketSize = index
  <2>1. num - 1 \in Nat /\ (num - 1) + 1 = num
    BY <1>1
  <2> QED BY <1>2, <1>3, <2>1, Places
<1> DEFINE buf == [p \in 0..InternalBufferSize - 1 |->
                     IF p < moved THEN f.internal_buffer[p + PacketSize]
                     ELSE IF p \in moved..moved + PacketSize - 1 THEN Zero
                     ELSE f.internal_buffer[p]]
<1>5. g = [internal_buffer |-> buf, index |-> moved, num_items |-> num - 1]
  <2>1. Fifo!ForwardFifo(f) = buf
    BY <1>1, <1>2 DEF Fifo!ForwardFifo
  <2>2. f.index - PacketSize = moved
    <3> HIDE DEF moved
    <3> QED BY <1>1, <1>3, <1>4
  <2> QED BY <1>1, <2>1, <2>2 DEF Fifo!RemoveOne
<1> HIDE DEF moved
<1>6. buf \in [0..InternalBufferSize - 1 -> Cells]
  <2>1. ASSUME NEW p \in 0..InternalBufferSize - 1, p < moved
        PROVE  f.internal_buffer[p + PacketSize] \in Cells
    <3>1. p + PacketSize \in 0..InternalBufferSize - 1
      BY <1>2, <1>3, <1>4, <2>1
    <3> QED BY <1>2, <3>1
  <2> QED BY <1>2, <2>1, ZeroIsCell
<1>7. /\ \A p \in 0..moved - 1 : buf[p] = f.internal_buffer[p + PacketSize]
      /\ \A p \in 0..InternalBufferSize - 1 : p >= moved => buf[p] = Zero
  <2>1. ASSUME NEW p \in 0..moved - 1
        PROVE  buf[p] = f.internal_buffer[p + PacketSize]
    <3>1. p \in 0..InternalBufferSize - 1 /\ p < moved
      BY <1>2, <1>3, <1>4
    <3> QED BY <3>1
  <2>2. ASSUME NEW p \in 0..InternalBufferSize - 1, p >= moved
        PROVE  buf[p] = Zero
    <3>1. ~(p < moved)
      BY <1>4, <2>2
    <3>2. CASE p \in moved..moved + PacketSize - 1
      BY <3>1, <3>2
    <3>3. CASE ~(p \in moved..moved + PacketSize - 1)
      <4>1. p >= index
        BY <1>3, <1>4, <2>2, <3>3
      <4>2. f.internal_buffer[p] = Zero
        BY <1>1, <4>1 DEF FifoInv
      <4> QED BY <3>1, <3>3, <4>2
    <3> QED BY <3>2, <3>3
  <2> QED BY <2>1, <2>2
<1> HIDE DEF buf
<1>8. /\ g.internal_buffer = buf /\ g.index = moved /\ g.num_items = num - 1
  BY <1>5
<1>9. FifoInv(g)
  <2>1. g \in FifoType
    BY <1>4, <1>5, <1>6 DEF FifoType
  <2>2. g.index = g.num_items * PacketSize
    BY <1>8 DEF moved
  <2>3. g.index <= InternalBufferSize
    BY <1>2, <1>3, <1>4, <1>8
  <2> HIDE DEF g
  <2> QED BY <1>7, <1>8, <2>1, <2>2, <2>3 DEF FifoInv
<1>10. Fifo!Items(f) # <<>> /\ Fifo!Items(g) = Tail(Fifo!Items(f))
  <2> DEFINE s == Fifo!Items(g)
             r == Fifo!Items(f)
             t == Tail(r)
  <2> HIDE DEF g
  <2>1. s \in Seq(Chunk) /\ Len(s) = num - 1
    BY <1>8, <1>9, ItemsAre
  <2>2. r \in Seq(Chunk) /\ Len(r) = num
    BY <1>1, ItemsAre
  <2>3. r # <<>>
    BY <1>1, <2>2
  <2>4. /\ t \in Seq(Chunk) /\ Len(t) = num - 1
        /\ \A k \in 1..num - 1 : t[k] = r[k + 1]
    BY <2>2, <2>3, HeadTailProperties
  <2>5. ASSUME NEW k \in 1..num - 1 PROVE s[k] = t[k]
    <3>1. s[k] \in Chunk /\ t[k] \in Chunk
      BY <2>1, <2>4, ElementOfSeq
    <3>2. ASSUME NEW i \in 1..PacketSize PROVE s[k][i] = t[k][i]
      <4>1. k \in 1..g.num_items
        BY <1>8
      <4>2. s[k][i] = buf[(k - 1) * PacketSize + i - 1]
        BY <1>8, <1>9, <4>1, ItemsAre
      <4>3. /\ (k - 1) * PacketSize + i - 1 \in 0..moved - 1
            /\ (k - 1) * PacketSize \in Nat
        BY <1>8, <1>9, <4>1, ItemPlace
      <4>4. k + 1 \in 1..f.num_items
        BY <1>1
      <4>5. t[k][i] = f.internal_buffer[((k + 1) - 1) * PacketSize + i - 1]
        BY <2>4, <4>4, ItemsAre
      <4>6. ((k + 1) - 1) * PacketSize + i - 1
              = ((k - 1) * PacketSize + i - 1) + PacketSize
        <5>1. k - 1 \in Nat /\ (k - 1) + 1 = (k + 1) - 1
          OBVIOUS
        <5>2. ((k + 1) - 1) * PacketSize = (k - 1) * PacketSize + PacketSize
          BY <1>3, <5>1, Places
        <5> QED BY <1>3, <4>3, <5>2
      <4> QED BY <1>7, <4>2, <4>3, <4>5, <4>6
    <3> HIDE DEF s, t
    <3> QED BY <3>1, <3>2, ChunkEqual
  <2> HIDE DEF s, t, r
  <2>6. s = t
    BY <2>1, <2>4, <2>5, SeqEqual
  <2> QED BY <2>3, <2>6 DEF s, t, r
<1> QED BY <1>1, <1>8, <1>9, <1>10

LEMMA NotEmptyIs ==
  ASSUME NEW f, FifoInv(f)
  PROVE  ~Fifo!IsEmpty(f) <=> f.num_items > 0
<1>1. PacketSize \in Nat \ {0}
  BY PacketAssumption
<1>2. f.num_items \in Nat /\ f.index \in Nat
      /\ f.index = f.num_items * PacketSize
  BY FifoTypes DEF FifoInv
<1>3. CASE f.num_items = 0
  <2>1. f.index = 0
    BY <1>1, <1>2, <1>3
  <2> QED BY <1>3, <2>1 DEF Fifo!IsEmpty
<1>4. CASE f.num_items > 0
  <2>1. f.index > 0
    BY <1>1, <1>2, <1>4, Places
  <2> QED BY <1>2, <1>4, <2>1 DEF Fifo!IsEmpty
<1> QED BY <1>2, <1>3, <1>4

(* clearRead leaves nothing.                                               *)
LEMMA RemoveAllIs ==
  ASSUME NEW f, FifoInv(f)
  PROVE  /\ FifoInv(Fifo!RemoveAll(f))
         /\ Fifo!RemoveAll(f).num_items = 0
<1> DEFINE N == f.num_items
           Fifos == {h \in FifoType : FifoInv(h)}
           next(h) == IF Fifo!IsEmpty(h) THEN h ELSE Fifo!RemoveOne(h)
           left == CHOOSE left : left = [n \in 0..N |->
                     IF n = 0 THEN f ELSE LET g == left[n - 1] IN next(g)]
<1>1. Fifo!RemoveAll(f) = left[N]
  BY DEF Fifo!RemoveAll
<1>2. N \in Nat /\ f \in Fifos
  BY FifoTypes DEF FifoInv
<1>3. ASSUME NEW h \in Fifos
      PROVE  /\ next(h) \in Fifos
             /\ h.num_items \in Nat
             /\ next(h).num_items
                  = IF h.num_items = 0 THEN 0 ELSE h.num_items - 1
  <2>1. /\ FifoInv(h) /\ h.num_items \in Nat
        /\ ~Fifo!IsEmpty(h) <=> h.num_items > 0
    BY FifoTypes, NotEmptyIs
  <2>2. CASE h.num_items = 0
    BY <2>1, <2>2
  <2>3. CASE h.num_items > 0
    <3>1. /\ FifoInv(Fifo!RemoveOne(h))
          /\ Fifo!RemoveOne(h).num_items = h.num_items - 1
      BY <2>1, <2>3, RemoveIs
    <3>2. Fifo!RemoveOne(h) \in Fifos
      BY <3>1 DEF FifoInv
    <3>3. next(h) = Fifo!RemoveOne(h)
      BY <2>1, <2>3
    <3>4. h.num_items # 0
      BY <2>1, <2>3
    <3> QED BY <2>1, <3>1, <3>2, <3>3, <3>4
  <2> QED BY <2>1, <2>2, <2>3
<1> HIDE DEF Fifos, next
<1>4. left = [n \in 0..N |->
                IF n = 0 THEN f ELSE LET g == left[n - 1] IN next(g)]
  <2> DEFINE step == [n \in 1..N |-> [h \in Fifos |-> next(h)]]
  <2>1. step \in [1..N -> [Fifos -> Fifos]]
    BY <1>3
  <2>2. PICK g \in [0..N -> Fifos] :
          g[0] = f /\ \A n \in 1..N : g[n] = step[n][g[n - 1]]
    <3> HIDE DEF step, N
    <3> QED BY <1>2, <2>1, Rounds
  <2>3. ASSUME NEW n \in 1..N PROVE g[n] = next(g[n - 1])
    <3>1. n - 1 \in 0..N
      BY <1>2
    <3>2. g[n - 1] \in Fifos
      BY <3>1
    <3> QED BY <2>2, <3>2
  <2>4. g = [n \in 0..N |-> IF n = 0 THEN f ELSE next(g[n - 1])]
    BY <1>2, <2>2, <2>3
  <2> QED BY <2>4
<1> HIDE DEF left
<1> DEFINE T == {n \in 0..N : /\ left[n] \in Fifos
                              /\ left[n].num_items = N - n}
<1>5. 0 \in T
  BY <1>2, <1>4
<1>6. ASSUME NEW n \in 0..N - 1, n \in T PROVE n + 1 \in T
  <2>1. n + 1 \in 0..N /\ n + 1 # 0 /\ (n + 1) - 1 = n
    BY <1>2
  <2>2. left[n + 1] = next(left[n])
    BY <1>4, <2>1
  <2>3. left[n] \in Fifos /\ left[n].num_items = N - n
    BY <1>6
  <2>4. N - n # 0 /\ (N - n) - 1 = N - (n + 1)
    BY <1>2
  <2> QED BY <1>3, <2>1, <2>2, <2>3, <2>4
<1>7. N \in T
  <2> HIDE DEF T
  <2>1. \A k \in 0..N : k \in T
    BY <1>2, <1>5, <1>6, Induction
  <2> QED BY <1>2, <2>1
<1>8. left[N] \in Fifos /\ left[N].num_items = 0
  BY <1>2, <1>7
<1> QED BY <1>1, <1>8 DEF Fifos

-----------------------------------------------------------------------------
(***************************************************************************)
(* The packets of a message.                                               *)
(***************************************************************************)

LEMMA PacketsInIs ==
  ASSUME NEW s \in Seq(Chunk)
  PROVE  /\ PacketsIn(s) \in Seq(PacketSet)
         /\ Len(PacketsIn(s)) = Len(s)
         /\ \A k \in 1..Len(s) : PacketsIn(s)[k] = PacketOf(s[k])
<1>1. Len(s) \in Nat /\ \A k \in 1..Len(s) : s[k] \in Chunk
  BY LenProperties, ElementOfSeq
<1>2. \A k \in 1..Len(s) : PacketOf(s[k]) \in PacketSet
  BY <1>1 DEF PacketSet
<1>3. PacketsIn(s) = [k \in 1..Len(s) |-> PacketOf(s[k])]
  BY DEF PacketsIn
<1> QED BY <1>1, <1>2, <1>3

LEMMA PacketsInAppend ==
  ASSUME NEW s \in Seq(Chunk), NEW c \in Chunk
  PROVE  PacketsIn(Append(s, c)) = Append(PacketsIn(s), PacketOf(c))
<1> DEFINE l == PacketsIn(Append(s, c))
           r == Append(PacketsIn(s), PacketOf(c))
<1>1. PacketOf(c) \in PacketSet
  BY DEF PacketSet
<1>2. Len(s) \in Nat
  BY LenProperties
<1>3. /\ l \in Seq(PacketSet) /\ Len(l) = Len(s) + 1
      /\ \A k \in 1..Len(s) : l[k] = PacketOf(s[k])
      /\ l[Len(s) + 1] = PacketOf(c)
  <2> DEFINE a == Append(s, c)
  <2>1. /\ a \in Seq(Chunk) /\ Len(a) = Len(s) + 1
        /\ \A k \in 1..Len(s) : a[k] = s[k]
        /\ a[Len(s) + 1] = c
    BY AppendProperties
  <2> HIDE DEF a
  <2>2. /\ l \in Seq(PacketSet) /\ Len(l) = Len(a)
        /\ \A k \in 1..Len(a) : l[k] = PacketOf(a[k])
    BY <2>1, PacketsInIs DEF a
  <2> HIDE DEF l
  <2>3. /\ Len(s) + 1 \in 1..Len(a)
        /\ \A k \in 1..Len(s) : k \in 1..Len(a)
    BY <1>2, <2>1
  <2> QED BY <2>1, <2>2, <2>3
<1>4. /\ r \in Seq(PacketSet) /\ Len(r) = Len(s) + 1
      /\ \A k \in 1..Len(s) : r[k] = PacketOf(s[k])
      /\ r[Len(s) + 1] = PacketOf(c)
  BY <1>1, <1>2, AppendProperties, PacketsInIs
<1> HIDE DEF l, r
<1>5. \A k \in 1..Len(l) : l[k] = r[k]
  BY <1>2, <1>3, <1>4
<1>6. l = r
  BY <1>3, <1>4, <1>5, SeqEqual
<1> QED BY <1>6 DEF l, r

LEMMA PacketsInTail ==
  ASSUME NEW s \in Seq(Chunk), s # <<>>
  PROVE  /\ PacketsIn(s) # <<>>
         /\ PacketsIn(Tail(s)) = Tail(PacketsIn(s))
<1> DEFINE l == PacketsIn(Tail(s))
           r == Tail(PacketsIn(s))
<1>1. Len(s) \in Nat /\ Len(s) > 0
  BY EmptySeq
<1>2. /\ PacketsIn(s) \in Seq(PacketSet) /\ Len(PacketsIn(s)) = Len(s)
      /\ PacketsIn(s) # <<>>
  BY <1>1, PacketsInIs
<1>3. /\ l \in Seq(PacketSet) /\ Len(l) = Len(s) - 1
      /\ \A k \in 1..Len(s) - 1 : l[k] = PacketOf(s[k + 1])
  <2> DEFINE a == Tail(s)
  <2>1. /\ a \in Seq(Chunk) /\ Len(a) = Len(s) - 1
        /\ \A k \in 1..Len(a) : a[k] = s[k + 1]
    BY HeadTailProperties
  <2> HIDE DEF a
  <2>2. /\ l \in Seq(PacketSet) /\ Len(l) = Len(a)
        /\ \A k \in 1..Len(a) : l[k] = PacketOf(a[k])
    BY <2>1, PacketsInIs DEF a
  <2> HIDE DEF l
  <2> QED BY <2>1, <2>2
<1>4. /\ r \in Seq(PacketSet) /\ Len(r) = Len(s) - 1
      /\ \A k \in 1..Len(s) - 1 : r[k] = PacketsIn(s)[k + 1]
  BY <1>2, HeadTailProperties
<1>5. \A k \in 1..Len(s) - 1 : r[k] = PacketOf(s[k + 1])
  <2> SUFFICES ASSUME NEW k \in 1..Len(s) - 1
               PROVE  r[k] = PacketOf(s[k + 1])
    OBVIOUS
  <2>1. k + 1 \in 1..Len(s)
    BY <1>1
  <2> QED BY <1>4, <2>1, PacketsInIs
<1> HIDE DEF l, r
<1>6. l = r
  BY <1>3, <1>4, <1>5, SeqEqual
<1> QED BY <1>2, <1>6 DEF l, r

(* The rounds of Kept.                                                     *)
LEMMA KeptIs ==
  ASSUME NEW S, NEW s \in Seq(S), NEW which
  PROVE  \E kept \in [0..Len(s) -> Seq(S)] :
           /\ kept[0] = <<>>
           /\ \A n \in 1..Len(s) :
                kept[n] = IF n \in which THEN Append(kept[n - 1], s[n])
                          ELSE kept[n - 1]
           /\ Kept(s, which) = kept[Len(s)]
<1> DEFINE N == Len(s)
           Q == Seq(S)
           next(n, t) == IF n \in which THEN Append(t, s[n]) ELSE t
           kept == CHOOSE kept : kept = [n \in 0..N |->
                     IF n = 0 THEN <<>>
                     ELSE IF n \in which THEN Append(kept[n - 1], s[n])
                     ELSE kept[n - 1]]
           step == [n \in 1..N |-> [t \in Q |-> next(n, t)]]
<1>1. Kept(s, which) = kept[N]
  BY DEF Kept
<1>2. N \in Nat /\ <<>> \in Q
  BY LenProperties, EmptySeq
<1>3. ASSUME NEW n \in 1..N, NEW t \in Q PROVE next(n, t) \in Q
  <2>1. s[n] \in S
    BY ElementOfSeq
  <2> QED BY <2>1, AppendProperties
<1>4. step \in [1..N -> [Q -> Q]]
  <2> HIDE DEF next, N, Q
  <2> QED BY <1>3
<1>5. PICK g \in [0..N -> Q] :
        g[0] = <<>> /\ \A n \in 1..N : g[n] = step[n][g[n - 1]]
  <2> DEFINE x == <<>>
  <2> HIDE DEF step, N, Q
  <2>1. x \in Q
    BY <1>2
  <2> HIDE DEF x
  <2>2. N \in Nat
    BY <1>2
  <2>3. \E g \in [0..N -> Q] :
          g[0] = x /\ \A n \in 1..N : g[n] = step[n][g[n - 1]]
    BY ONLY Z3T(60), <1>4, <2>1, <2>2, Rounds
  <2> QED BY <2>3 DEF x
<1>6. ASSUME NEW n \in 1..N PROVE g[n] = next(n, g[n - 1])
  <2>1. n - 1 \in 0..N
    BY <1>2
  <2>2. g[n - 1] \in Q
    BY <2>1
  <2> HIDE DEF next, N, Q
  <2> QED BY <1>5, <2>2
<1>7. g = [n \in 0..N |-> IF n = 0 THEN <<>>
                          ELSE IF n \in which THEN Append(g[n - 1], s[n])
                          ELSE g[n - 1]]
  <2>1. ASSUME NEW n \in 0..N
        PROVE  g[n] = IF n = 0 THEN <<>>
                      ELSE IF n \in which THEN Append(g[n - 1], s[n])
                      ELSE g[n - 1]
    <3>1. CASE n = 0
      BY <1>5, <3>1
    <3>2. CASE n # 0
      <4>1. n \in 1..N
        BY <1>2, <3>2
      <4>2. g[n] = next(n, g[n - 1])
        BY <1>6, <4>1
      <4> HIDE DEF N, Q
      <4> QED BY <3>2, <4>2
    <3> QED BY <3>1, <3>2
  <2> HIDE DEF N, Q
  <2> QED BY <2>1
<1>8. kept = [n \in 0..N |-> IF n = 0 THEN <<>>
                             ELSE IF n \in which THEN Append(kept[n - 1], s[n])
                             ELSE kept[n - 1]]
  <2> HIDE DEF N, Q
  <2> QED BY <1>7
<1> HIDE DEF kept, N, Q
<1>9. ASSUME NEW n \in 1..N
      PROVE  kept[n] = IF n \in which THEN Append(kept[n - 1], s[n])
                       ELSE kept[n - 1]
  <2>1. n \in 0..N /\ n # 0
    BY <1>2
  <2> QED BY <1>8, <2>1
<1>10. kept[0] = <<>>
  BY <1>2, <1>8
<1> DEFINE T == {n \in 0..N : kept[n] \in Q}
<1>11. \A n \in 0..N : n \in T
  <2>1. 0 \in T
    BY <1>2, <1>10
  <2>2. ASSUME NEW n \in 0..N - 1, n \in T PROVE n + 1 \in T
    <3>1. n + 1 \in 1..N /\ (n + 1) - 1 = n
      BY <1>2
    <3>2. kept[n + 1] = next(n + 1, kept[n])
      BY <1>9, <3>1
    <3>3. kept[n] \in Q
      BY <2>2
    <3> QED BY <1>3, <3>1, <3>2, <3>3
  <2> HIDE DEF T
  <2> QED BY <1>2, <2>1, <2>2, Induction
<1>12. kept \in [0..N -> Q]
  BY <1>8, <1>11
<1> QED BY <1>1, <1>9, <1>10, <1>12 DEF N, Q

LEMMA KeptType ==
  ASSUME NEW S, NEW s \in Seq(S), NEW which
  PROVE  /\ Kept(s, which) \in Seq(S)
         /\ Len(s) = 0 => Kept(s, which) = <<>>
<1>1. Len(s) \in Nat
  BY LenProperties
<1> QED BY <1>1, KeptIs

LEMMA FirstIs ==
  ASSUME NEW S, NEW s \in Seq(S)
  PROVE  /\ First(s) \in Seq(S)
         /\ Len(First(s)) = IF Len(s) <= Capacity THEN Len(s) ELSE Capacity
         /\ \A k \in 1..Len(First(s)) : First(s)[k] = s[k]
<1>1. Capacity \in Nat
  BY PacketAssumption, Quotient DEF Capacity
<1>2. Len(s) \in Nat
  BY LenProperties
<1>3. CASE Len(s) <= Capacity
  BY <1>3 DEF First
<1>4. CASE ~(Len(s) <= Capacity)
  <2>1. \A i \in 1..Capacity : s[i] \in S
    BY <1>1, <1>2, <1>4, ElementOfSeq
  <2> DEFINE t == SubSeq(s, 1, Capacity)
  <2>2. /\ t \in Seq(S)
        /\ Len(t) = IF 1 <= Capacity THEN Capacity - 1 + 1 ELSE 0
        /\ \A i \in 1..Capacity - 1 + 1 : t[i] = s[1 + i - 1]
    BY <1>1, <2>1, SubSeqProperties
  <2>3. Len(t) = Capacity /\ \A i \in 1..Capacity : t[i] = s[i]
    <3> HIDE DEF t
    <3> QED BY <1>1, <2>2
  <2>4. First(s) = t
    BY <1>4 DEF First
  <2> HIDE DEF t
  <2> QED BY <1>4, <2>2, <2>3, <2>4
<1> QED BY <1>3, <1>4

LEMMA FirstAppend ==
  ASSUME NEW S, NEW s \in Seq(S), NEW e \in S
  PROVE  First(Append(s, e)) = IF Len(First(s)) < Capacity
                                 THEN Append(First(s), e) ELSE First(s)
<1>1. Capacity \in Nat /\ Len(s) \in Nat
  BY PacketAssumption, Quotient, LenProperties DEF Capacity
<1> DEFINE a == Append(s, e)
<1>2. /\ a \in Seq(S) /\ Len(a) = Len(s) + 1
      /\ \A i \in 1..Len(s) : a[i] = s[i]
      /\ a[Len(s) + 1] = e
  BY AppendProperties
<1>3. CASE Len(s) < Capacity
  <2>1. First(s) = s /\ First(a) = a
    BY <1>1, <1>2, <1>3 DEF First
  <2> QED BY <1>3, <2>1
<1>4. CASE ~(Len(s) < Capacity)
  <2> DEFINE l == First(a)
             r == First(s)
  <2>1. /\ r \in Seq(S) /\ Len(r) = Capacity
        /\ \A k \in 1..Capacity : r[k] = s[k]
    BY <1>1, <1>4, FirstIs
  <2> HIDE DEF a
  <2>2. /\ l \in Seq(S) /\ Len(l) = Capacity
        /\ \A k \in 1..Capacity : l[k] = a[k]
    BY <1>1, <1>2, <1>4, FirstIs
  <2> HIDE DEF l, r
  <2>3. \A k \in 1..Capacity : l[k] = r[k]
    BY <1>1, <1>2, <1>4, <2>1, <2>2
  <2>4. l = r
    BY <2>1, <2>2, <2>3, SeqEqual
  <2> QED BY <1>1, <2>1, <2>4 DEF l, r, a
<1> QED BY <1>3, <1>4

LEMMA ConcatAppend ==
  ASSUME NEW S, NEW s \in Seq(S), NEW t \in Seq(S), NEW e \in S
  PROVE  s \o Append(t, e) = Append(s \o t, e)
<1>1. /\ s \o t \in Seq(S) /\ <<e>> \in Seq(S)
  BY ConcatProperties
<1>2. Append(t, e) = t \o <<e>> /\ Append(s \o t, e) = (s \o t) \o <<e>>
  BY <1>1, AppendIsConcat
<1>3. (s \o t) \o <<e>> = s \o (t \o <<e>>)
  BY <1>1, ConcatAssociative
<1> QED BY <1>2, <1>3

(* The loop over the packets of a message puts the valid ones behind what  *)
(* the FIFO has, in order, as many as there is room for.                   *)
LEMMA PutAllIs ==
  ASSUME NEW f, FifoInv(f), NEW chunks \in Seq(Chunk)
  PROVE  LET g == PutAll(f, chunks)
         IN  /\ FifoInv(g)
             /\ PacketsIn(Fifo!Items(g))
                  = First(PacketsIn(Fifo!Items(f)) \o ValidIn(chunks))
<1> DEFINE N == Len(chunks)
           Fifos == {h \in FifoType : FifoInv(h)}
           next(n, h) == packet_in_process(h, chunks[n])
           after == CHOOSE after : after = [n \in 0..N |->
                      IF n = 0 THEN f
                      ELSE packet_in_process(after[n - 1], chunks[n])]
           step == [n \in 1..N |-> [h \in Fifos |-> next(n, h)]]
           packets(h) == PacketsIn(Fifo!Items(h))
           P == PacketsIn(chunks)
           valid == {k \in 1..N : CrcValid(chunks[k])}
<1>1. PutAll(f, chunks) = after[N]
  BY DEF PutAll
<1>2. N \in Nat /\ f \in Fifos /\ \A n \in 1..N : chunks[n] \in Chunk
  BY LenProperties, ElementOfSeq DEF FifoInv
<1>3. P \in Seq(PacketSet) /\ Len(P) = N
      /\ \A n \in 1..N : P[n] = PacketOf(chunks[n]) /\ P[n] \in PacketSet
  BY <1>2, PacketsInIs DEF PacketSet
<1>4. ASSUME NEW h \in Fifos
      PROVE  /\ FifoInv(h)
             /\ packets(h) \in Seq(PacketSet)
             /\ Len(packets(h)) = h.num_items
  BY ItemsAre, PacketsInIs
<1>5. ASSUME NEW n \in 1..N, NEW h \in Fifos
      PROVE  /\ next(n, h) \in Fifos
             /\ packets(next(n, h)) =
                  IF n \in valid /\ h.num_items < Capacity
                    THEN Append(packets(h), P[n]) ELSE packets(h)
  <2> DEFINE c == chunks[n]
  <2>1. c \in Chunk /\ FifoInv(h) /\ P[n] = PacketOf(c)
    BY <1>2, <1>3
  <2>2. n \in valid <=> CrcValid(c)
    OBVIOUS
  <2>3. CASE ~CrcValid(c)
    BY <2>2, <2>3 DEF packet_in_process
  <2>4. CASE CrcValid(c)
    <3> DEFINE k == Fifo!PutItem(h, c)
    <3>1. next(n, h) = k
      BY <2>4 DEF packet_in_process
    <3> HIDE DEF c
    <3>2. /\ FifoInv(k)
          /\ Fifo!Items(k) = IF h.num_items < Capacity
                               THEN Append(Fifo!Items(h), c)
                               ELSE Fifo!Items(h)
      BY <2>1, PutIs
    <3>3. k \in Fifos
      BY <3>2 DEF FifoInv
    <3>4. Fifo!Items(h) \in Seq(Chunk)
      BY <2>1, ItemsAre
    <3>5. packets(k) = IF h.num_items < Capacity
                         THEN Append(packets(h), PacketOf(c)) ELSE packets(h)
      BY <2>1, <3>2, <3>4, PacketsInAppend
    <3> HIDE DEF k, packets, next, Fifos, valid, P, N
    <3> QED BY <2>1, <2>2, <2>4, <3>1, <3>3, <3>5
  <2> QED BY <2>3, <2>4
<1> HIDE DEF packets, Fifos, P
<1>6. step \in [1..N -> [Fifos -> Fifos]]
  <2> HIDE DEF next, N
  <2> QED BY <1>5
<1>7. PICK g \in [0..N -> Fifos] :
        g[0] = f /\ \A n \in 1..N : g[n] = step[n][g[n - 1]]
  <2>1. N \in Nat /\ f \in Fifos
    BY <1>2
  <2> HIDE DEF step, N
  <2> QED BY ONLY Z3T(60), <1>6, <2>1, Rounds
<1>8. after = [n \in 0..N |->
                 IF n = 0 THEN f
                 ELSE packet_in_process(after[n - 1], chunks[n])]
  <2>1. ASSUME NEW n \in 1..N PROVE g[n] = next(n, g[n - 1])
    <3>1. n - 1 \in 0..N
      BY <1>2
    <3>2. g[n - 1] \in Fifos
      BY <3>1
    <3> HIDE DEF next, N
    <3> QED BY <1>7, <3>2
  <2>2. g = [n \in 0..N |->
               IF n = 0 THEN f ELSE packet_in_process(g[n - 1], chunks[n])]
    <3>1. ASSUME NEW n \in 0..N
          PROVE  g[n] = IF n = 0 THEN f
                        ELSE packet_in_process(g[n - 1], chunks[n])
      <4>1. CASE n = 0
        BY <1>7, <4>1
      <4>2. CASE n # 0
        <5>1. n \in 1..N
          BY <1>2, <4>2
        <5> QED BY <2>1, <4>2, <5>1
      <4> QED BY <4>1, <4>2
    <3> HIDE DEF N
    <3> QED BY <3>1
  <2> HIDE DEF N
  <2> QED BY <2>2
<1> HIDE DEF after
<1>9. after[0] = f /\ \A n \in 1..N : after[n] = next(n, after[n - 1])
  <2> HIDE DEF N
  <2>1. \A n \in 1..N : n \in 0..N /\ n # 0
    BY <1>2
  <2>2. 0 \in 0..N
    BY <1>2
  <2> QED BY <1>8, <2>1, <2>2
<1>10. PICK kept \in [0..N -> Seq(PacketSet)] :
         /\ kept[0] = <<>>
         /\ \A n \in 1..N : kept[n] = IF n \in valid
                                        THEN Append(kept[n - 1], P[n])
                                        ELSE kept[n - 1]
         /\ Kept(P, valid) = kept[N]
  <2>1. P \in Seq(PacketSet)
    BY <1>3
  <2> HIDE DEF valid
  <2>2. \E kept \in [0..Len(P) -> Seq(PacketSet)] :
          /\ kept[0] = <<>>
          /\ \A n \in 1..Len(P) : kept[n] = IF n \in valid
                                              THEN Append(kept[n - 1], P[n])
                                              ELSE kept[n - 1]
          /\ Kept(P, valid) = kept[Len(P)]
    BY ONLY Z3T(60), <2>1, KeptIs
  <2>3. Len(P) = N
    BY <1>3
  <2> HIDE DEF N
  <2> QED BY <2>2, <2>3
<1> HIDE DEF next, valid
<1> DEFINE all(n) == packets(f) \o kept[n]
           T == {n \in 0..N : /\ after[n] \in Fifos
                              /\ packets(after[n]) = First(all(n))}
<1>11. \A n \in 0..N : n \in T
  <2>1. 0 \in T
    <3>1. packets(f) \in Seq(PacketSet) /\ Len(packets(f)) = f.num_items
      BY <1>2, <1>4
    <3>2. all(0) = packets(f)
      BY <1>10, <3>1, ConcatEmptySeq
    <3>3. f.num_items <= Capacity
      BY ItemsAre
    <3>4. First(all(0)) = packets(f)
      BY <3>1, <3>2, <3>3 DEF First
    <3> HIDE DEF N
    <3> QED BY <1>2, <1>9, <3>4
  <2>2. ASSUME NEW n \in 0..N - 1, n \in T PROVE n + 1 \in T
    <3> HIDE DEF N
    <3>1. n + 1 \in 1..N /\ (n + 1) - 1 = n /\ n \in 0..N /\ n + 1 \in 0..N
      BY <1>2
    <3>2. after[n] \in Fifos /\ packets(after[n]) = First(all(n))
      BY <2>2
    <3>3. after[n + 1] = next(n + 1, after[n])
      BY <1>9, <3>1
    <3>4. kept[n + 1] = IF n + 1 \in valid THEN Append(kept[n], P[n + 1])
                        ELSE kept[n]
      BY <1>10, <3>1
    <3>5. /\ kept[n] \in Seq(PacketSet) /\ packets(f) \in Seq(PacketSet)
          /\ P[n + 1] \in PacketSet
      BY <1>2, <1>3, <1>4, <3>1
    <3>6. /\ after[n + 1] \in Fifos
          /\ packets(after[n + 1]) =
               IF n + 1 \in valid /\ after[n].num_items < Capacity
                 THEN Append(packets(after[n]), P[n + 1])
                 ELSE packets(after[n])
      BY <1>5, <3>1, <3>2, <3>3
    <3>7. CASE n + 1 \notin valid
      BY <3>1, <3>2, <3>4, <3>6, <3>7
    <3>8. CASE n + 1 \in valid
      <4>1. all(n) \in Seq(PacketSet)
        BY <3>5, ConcatProperties
      <4>2. all(n + 1) = Append(all(n), P[n + 1])
        <5>1. kept[n + 1] = Append(kept[n], P[n + 1])
          BY <3>4, <3>8
        <5>2. packets(f) \o Append(kept[n], P[n + 1])
                = Append(packets(f) \o kept[n], P[n + 1])
          BY ONLY Z3T(60), <3>5, ConcatAppend
        <5> QED BY <5>1, <5>2
      <4>3. Len(First(all(n))) = after[n].num_items
        BY <1>4, <3>2
      <4> HIDE DEF all
      <4>4. First(Append(all(n), P[n + 1])) =
              IF Len(First(all(n))) < Capacity
                THEN Append(First(all(n)), P[n + 1]) ELSE First(all(n))
        BY <3>5, <4>1, FirstAppend
      <4>5. packets(after[n + 1]) = First(all(n + 1))
        BY <3>2, <3>6, <3>8, <4>2, <4>3, <4>4
      <4> QED BY <3>1, <3>6, <4>5
    <3> QED BY <3>7, <3>8
  <2> HIDE DEF T, N
  <2> QED BY <1>2, <2>1, <2>2, Induction
<1>12. after[N] \in Fifos /\ packets(after[N]) = First(all(N))
  <2>1. N \in 0..N
    BY <1>2
  <2> HIDE DEF N
  <2> QED BY <1>11, <2>1
<1>13. kept[N] = ValidIn(chunks)
  BY <1>10 DEF ValidIn, valid, P
<1> QED BY <1>1, <1>4, <1>12, <1>13 DEF packets

-----------------------------------------------------------------------------
(***************************************************************************)
(* The operations of a buffer.                                             *)
(***************************************************************************)

LEMMA BufferTypes ==
  ASSUME NEW b \in Buffers
  PROVE  /\ b.read_pos \in Nat /\ b.write_pos \in Nat
         /\ b.loadsize \in Nat /\ b.freesize \in Nat
         /\ b.data \in [0..BufferSize - 1 -> Cells]
BY DEF Buffers

(* The 8 bits of buffer_get_loadsize lose nothing of what is in bounds.    *)
LEMMA LoadsizeFits ==
  ASSUME NEW b \in Buffers, InBounds(b) PROVE GetLoadsize(b) = b.loadsize
<1>1. b.loadsize \in 0..255
  <2>1. b.loadsize \in Nat /\ b.read_pos \in Nat
    BY BufferTypes
  <2> QED BY <2>1, BufferSizeAssumption DEF InBounds
<1> QED BY <1>1 DEF GetLoadsize, U8

(* What they say of a buffer between two steps: zero is zero, and what     *)
(* wraps is more than a message, however large messages are.               *)
LEMMA CutIs ==
  ASSUME NEW b, Cut(b)
  PROVE  /\ GetLoadsize(b) = 0 <=> b.loadsize = 0
         /\ Carries(b) => GetLoadsize(b) = b.loadsize /\ ~Overruns(b)
         /\ Wraps(b) => Overruns(b)
         /\ IsLinear(b)
<1>1. b \in Buffers /\ BufferSize \in 3..255
  BY BufferSizeAssumption DEF Cut
<1>2. CASE Carries(b)
  <2>1. GetLoadsize(b) = b.loadsize /\ ~Overruns(b)
    BY <1>1, <1>2, LoadsizeFits, BufferTypes
    DEF Carries, Overruns, MessageSizeMax, HeaderSize
  <2>2. /\ b.loadsize \in 0..BufferSize /\ b.write_pos \in 0..BufferSize
        /\ b.read_pos + b.loadsize = b.write_pos
        /\ b.freesize = BufferSize - b.loadsize
    BY <1>1, <1>2, BufferTypes
    DEF Carries, InBounds, MessageSizeMax, HeaderSize
  <2>3. IsLinear(b)
    BY <1>1, <2>2 DEF IsLinear, U16
  <2>4. ~Wraps(b)
    BY <1>1, <2>2 DEF Wraps
  <2> QED BY <2>1, <2>3, <2>4
<1>3. CASE Wraps(b)
  <2>1. PICK w \in 0..1 : w = b.write_pos
    BY <1>3 DEF Wraps
  <2>2. /\ b.read_pos = 2 /\ b.loadsize = 65534 + w
        /\ b.freesize = BufferSize - w + 2
    BY <1>3, <2>1 DEF Wraps
  <2>3. GetLoadsize(b) = 254 + w
    BY <2>1, <2>2 DEF GetLoadsize, U8
  <2>4. Overruns(b) /\ ~(GetLoadsize(b) = 0) /\ ~(b.loadsize = 0)
    BY <1>1, <2>1, <2>2, <2>3 DEF Overruns, MessageSizeMax, HeaderSize
  <2>5. IsLinear(b)
    <3>1. /\ U16(2 + (65534 + w)) = w
          /\ U16(BufferSize - (65534 + w)) = BufferSize - w + 2
      BY <1>1, <2>1 DEF U16
    <3>2. w \in 0..BufferSize
      BY <1>1, <2>1
    <3> QED BY <2>1, <2>2, <3>1, <3>2 DEF IsLinear
  <2>6. ~Carries(b)
    BY <1>1, <2>1, <2>2 DEF Carries, MessageSizeMax, HeaderSize
  <2> QED BY <1>3, <2>4, <2>5, <2>6
<1> QED BY <1>2, <1>3 DEF Cut

LEMMA NothingIsWhole == 0 % PacketSize = 0
<1>1. PICK n \in Nat \ {0} : n = PacketSize
  BY PacketAssumption
<1>2. 0 % n = 0
  BY Z3T(30)
<1> QED BY <1>1, <1>2

LEMMA ClearIs ==
  ASSUME NEW b \in Buffers
  PROVE  /\ BufferInv(BufferClear(b)) /\ BufferClear(b).loadsize = 0
         /\ BufferClear(b).write_pos = 0
<1>1. BufferSize \in 3..255
  BY BufferSizeAssumption
<1> QED BY <1>1, NothingIsWhole
  DEF BufferClear, BufferInv, Cut, Carries, Buffers, InBounds,
      MessageSizeMax, HeaderSize

(* A transfer into an empty buffer: its bytes begin with a header, those of *)
(* m, and all it brought is loaded.                                        *)
LEMMA FilledIs ==
  ASSUME IInv, ~line_in_busy, NEW m \in Messages, NEW n \in Lengths
  PROVE  LET b == Filled(m, n)
         IN  /\ b \in Buffers /\ InBounds(b)
             /\ b.read_pos = 0 /\ b.loadsize = n
             /\ HeadOf(b) = m
             /\ \A p \in 0..n - 1 : b.data[p] = [of |-> m, at |-> p + 1]
<1>1. /\ n \in 1..BufferSize /\ BufferSize \in 3..255
  BY BufferSizeAssumption, PacketAssumption
<1>2. /\ cache \in Buffers
      /\ cache.loadsize = 0 /\ cache.read_pos = 0 /\ cache.write_pos = 0
      /\ cache.freesize = BufferSize
  <2>1. cache \in Buffers /\ cache.loadsize = 0 /\ cache.read_pos = 0
    BY DEF IInv, BufferInv, Cut
  <2>2. cache.write_pos = 0 /\ cache.freesize = BufferSize
    <3>1. InBounds(cache)
      BY <2>1 DEF IInv, BufferInv, Cut, Carries, Wraps
    <3> QED BY <1>1, <2>1, <3>1 DEF InBounds
  <2> QED BY <2>1, <2>2
<1> DEFINE cells == Clocked(m, n)
           d == DmaInto(cache, cells)
<1>3. /\ DOMAIN cells = 1..n
      /\ \A i \in 1..n : /\ cells[i] \in Cells /\ cells[i].of = m
                         /\ cells[i] = [of |-> m, at |-> i]
  BY <1>1 DEF Clocked, Cells
<1> HIDE DEF cells
<1>4. /\ d \in Buffers /\ d.data[0].of = m
      /\ \A p \in 0..n - 1 : d.data[p] = [of |-> m, at |-> p + 1]
      /\ d.loadsize = 0 /\ d.read_pos = 0 /\ d.write_pos = 0
      /\ d.freesize = BufferSize
  <2>1. [p \in 0..BufferSize - 1 |->
           LET i == p - cache.write_pos + 1
           IN  IF i \in DOMAIN cells THEN cells[i] ELSE cache.data[p]]
          \in [0..BufferSize - 1 -> Cells]
    BY <1>2, <1>3 DEF Buffers
  <2>2. d.data = [p \in 0..BufferSize - 1 |->
           LET i == p - cache.write_pos + 1
           IN  IF i \in DOMAIN cells THEN cells[i] ELSE cache.data[p]]
    BY <1>2 DEF DmaInto, Buffers
  <2>3. d.data[0].of = m
    <3>1. 0 \in 0..BufferSize - 1 /\ 1 \in 1..n /\ 0 - 0 + 1 = 1
      BY <1>1
    <3>2. 1 \in DOMAIN cells
      BY <1>3, <3>1
    <3>3. 0 - cache.write_pos + 1 = 1
      BY <1>2, <3>1
    <3>4. d.data[0] = cells[1]
      BY <2>2, <3>1, <3>2, <3>3
    <3> QED BY <1>3, <3>1, <3>4
  <2>4. /\ d \in Buffers
        /\ d.loadsize = cache.loadsize /\ d.read_pos = cache.read_pos
        /\ d.write_pos = cache.write_pos /\ d.freesize = cache.freesize
    BY <1>2, <2>1 DEF DmaInto, Buffers
  <2>5. ASSUME NEW p \in 0..n - 1
        PROVE  d.data[p] = [of |-> m, at |-> p + 1]
    <3>1. /\ p \in 0..BufferSize - 1 /\ p + 1 \in 1..n
          /\ p - cache.write_pos + 1 = p + 1
      <4>1. p - 0 + 1 = p + 1
        OBVIOUS
      <4>2. p - cache.write_pos + 1 = p + 1
        BY <1>2, <4>1
      <4> QED BY <1>1, <4>2
    <3>2. d.data[p] = cells[p + 1]
      BY <1>3, <2>2, <3>1
    <3> QED BY <1>3, <3>1, <3>2
  <2> QED BY <1>2, <2>3, <2>4, <2>5
<1> HIDE DEF d
<1>5. n % 65536 = n /\ (BufferSize - n) % 65536 = BufferSize - n
  BY <1>1
<1> QED BY <1>1, <1>4, <1>5
  DEF Filled, UpdateWritePos, U16, Buffers, InBounds, HeadOf, d, cells

(* What the move is given: a whole message, cut to its length and without  *)
(* its header, or one that had less than a header.                         *)
LEMMA PayloadIs ==
  ASSUME NEW b \in Buffers, InBounds(b), b.read_pos = 0, Complete(b),
         HeadOf(b) \in Messages
  PROVE  LET c == SkipHeader(Trim(b))
         IN  /\ Cut(c)
             /\ IsShort(HeadOf(b)) => Wraps(c)
             /\ ~IsShort(HeadOf(b)) =>
                  Carries(c) /\ c.loadsize = HeadOf(b).len - HeaderSize
             /\ c.data = b.data /\ c.read_pos = HeaderSize
             /\ HeadOf(b).len <= b.loadsize
<1> DEFINE len == HeadOf(b).len
           c1 == UpdateWritePos(b, 0 - GetLoadsize(b))
           c2 == UpdateWritePos(c1, len)
<1>1. BufferSize \in 3..255
  BY BufferSizeAssumption
<1>2. /\ len \in 0..BufferSize /\ len <= b.loadsize
      /\ GetLoadsize(b) = b.loadsize
      /\ b.write_pos = b.loadsize /\ b.loadsize \in 0..BufferSize
      /\ b.freesize = BufferSize - b.loadsize
  <2>1. GetLoadsize(b) = b.loadsize
    BY LoadsizeFits
  <2>2. len \in 0..255 /\ len <= b.loadsize
    BY <2>1, PacketAssumption DEF Complete
  <2>3. /\ b.write_pos = b.loadsize /\ b.loadsize \in 0..BufferSize
        /\ b.freesize = BufferSize - b.loadsize
    BY <1>1, BufferTypes DEF InBounds
  <2> HIDE DEF len
  <2> QED BY <1>1, <2>1, <2>2, <2>3
<1>3. len >= HeaderSize => (len - HeaderSize) % PacketSize = 0
  BY PacketAssumption
<1>4. MessageIn(b) = HeadOf(b) /\ (IsShort(HeadOf(b)) <=> len < 2)
  BY DEF MessageIn, HeadOf, IsShort, HeaderSize
<1> HIDE DEF len
<1>5. /\ c1 \in Buffers /\ c1.read_pos = 0 /\ c1.write_pos = 0
      /\ c1.loadsize = 0 /\ c1.freesize = BufferSize /\ c1.data = b.data
  <2>1. /\ U16(b.write_pos + (0 - b.loadsize)) = 0
        /\ U16(b.loadsize + (0 - b.loadsize)) = 0
        /\ U16(b.freesize - (0 - b.loadsize)) = BufferSize
    BY <1>1, <1>2 DEF U16
  <2>2. c1 = [data |-> b.data, read_pos |-> 0, write_pos |-> 0,
              loadsize |-> 0, freesize |-> BufferSize]
    BY <1>2, <2>1 DEF UpdateWritePos
  <2> QED BY <1>1, <2>2, BufferTypes DEF Buffers
<1> HIDE DEF c1
<1>6. /\ c2 \in Buffers /\ c2.read_pos = 0 /\ c2.write_pos = len
      /\ c2.loadsize = len /\ c2.freesize = BufferSize - len
      /\ c2.data = b.data
  <2>1. /\ U16(0 + len) = len /\ U16(BufferSize - len) = BufferSize - len
        /\ 0 + len = len
    BY <1>1, <1>2 DEF U16
  <2>2. c2 = [data |-> c1.data, read_pos |-> 0, write_pos |-> len,
              loadsize |-> len, freesize |-> BufferSize - len]
    BY <1>5, <2>1 DEF UpdateWritePos
  <2>3. len \in Nat /\ BufferSize - len \in Nat
    BY <1>1, <1>2
  <2> QED BY <1>5, <2>2, <2>3, BufferTypes DEF Buffers
<1>7. Trim(b) = c2
  BY DEF Trim, c1, len
<1> HIDE DEF c2
<1> DEFINE c == SkipHeader(c2)
<1>8. /\ c \in Buffers /\ c.read_pos = 2 /\ c.write_pos = len
      /\ c.loadsize = IF len < 2 THEN 65534 + len ELSE len - 2
      /\ c.freesize = BufferSize - len + 2
      /\ c.data = b.data
  <2>1. /\ U16(0 + 2) = 2
        /\ U16(len - 2) = IF len < 2 THEN 65534 + len ELSE len - 2
        /\ U16((BufferSize - len) + 2) = BufferSize - len + 2
    BY <1>1, <1>2 DEF U16
  <2>2. c = [data |-> c2.data, read_pos |-> 2, write_pos |-> len,
             loadsize |-> IF len < 2 THEN 65534 + len ELSE len - 2,
             freesize |-> BufferSize - len + 2]
    BY <1>6, <2>1 DEF SkipHeader, UpdateReadPos, HeaderSize
  <2>3. /\ len \in Nat /\ BufferSize - len + 2 \in Nat
        /\ (IF len < 2 THEN 65534 + len ELSE len - 2) \in Nat
    BY <1>1, <1>2
  <2> QED BY <1>6, <2>2, <2>3, BufferTypes DEF Buffers
<1> HIDE DEF c
<1>9. MessageIn(c) = HeadOf(b)
  BY <1>4, <1>8 DEF MessageIn
<1>10. CASE len < 2
  <2>1. Wraps(c)
    BY <1>2, <1>4, <1>8, <1>9, <1>10 DEF Wraps
  <2> QED BY <1>2, <1>4, <1>7, <1>8, <1>10, <2>1 DEF Cut, HeaderSize, c, len
<1>11. CASE ~(len < 2)
  <2>1. c.loadsize = len - 2 /\ c.loadsize % PacketSize = 0
    BY <1>2, <1>3, <1>8, <1>11 DEF HeaderSize
  <2>2. Carries(c)
    BY <1>1, <1>2, <1>4, <1>8, <1>9, <1>11, <2>1
    DEF Carries, InBounds, MessageSizeMax, HeaderSize
  <2> QED BY <1>2, <1>4, <1>7, <1>8, <1>11, <2>1, <2>2
          DEF Cut, HeaderSize, c, len
<1> QED BY <1>10, <1>11

(* What is loaded in a buffer, cell by cell.                               *)
LEMMA GetIs ==
  ASSUME NEW b \in Buffers, InBounds(b)
  PROVE  LET cells == Get(b, GetLoadsize(b))
         IN  /\ cells \in Seq(Cells) /\ Len(cells) = b.loadsize
             /\ b.loadsize \in Nat /\ b.read_pos \in Nat
             /\ \A i \in 1..b.loadsize : cells[i] = b.data[b.read_pos + i - 1]
<1> DEFINE cells == Get(b, GetLoadsize(b))
<1>1. PICK load \in Nat, pos \in Nat : load = b.loadsize /\ pos = b.read_pos
  BY BufferTypes
<1>2. b.data \in [0..BufferSize - 1 -> Cells] /\ pos + load <= BufferSize
  BY <1>1, BufferTypes, BufferSizeAssumption DEF InBounds
<1>3. cells = [i \in 1..load |-> b.data[pos + i - 1]]
  BY <1>1, LoadsizeFits DEF Get
<1>4. \A i \in 1..load : b.data[pos + i - 1] \in Cells
  <2> SUFFICES ASSUME NEW i \in 1..load PROVE b.data[pos + i - 1] \in Cells
    OBVIOUS
  <2>1. pos + i - 1 \in 0..BufferSize - 1
    BY <1>2, BufferSizeAssumption
  <2> QED BY <1>2, <2>1
<1> HIDE DEF cells
<1>5. cells \in Seq(Cells) /\ Len(cells) = load
  BY <1>3, <1>4
<1> QED BY <1>1, <1>3, <1>5 DEF cells

(* The k-th packet's place in a payload, and the packets of one.           *)
LEMMA ChunksAre ==
  ASSUME NEW cells \in Seq(Cells)
  PROVE  /\ Chunks(cells) \in Seq(Chunk)
         /\ Len(Chunks(cells)) = Len(cells) \div PacketSize
         /\ \A k \in 1..Len(cells) \div PacketSize : \A i \in 1..PacketSize :
              /\ (k - 1) * PacketSize + i \in 1..Len(cells)
              /\ Chunks(cells)[k][i] = cells[(k - 1) * PacketSize + i]
<1> DEFINE count == Len(cells) \div PacketSize
           chunk(k) == SubSeq(cells, (k - 1) * PacketSize + 1, k * PacketSize)
<1>1. PacketSize \in Nat \ {0} /\ Len(cells) \in Nat
  BY PacketAssumption, LenProperties
<1>2. /\ count \in Nat
      /\ \A q \in Nat : q <= count <=> q * PacketSize <= Len(cells)
  BY <1>1, Quotient
<1> HIDE DEF count
<1>3. ASSUME NEW k \in 1..count
      PROVE  /\ \A i \in 1..PacketSize :
                  (k - 1) * PacketSize + i \in 1..Len(cells)
             /\ chunk(k) \in Chunk
             /\ \A i \in 1..PacketSize :
                  chunk(k)[i] = cells[(k - 1) * PacketSize + i]
  <2>1. k - 1 \in Nat /\ k \in Nat /\ (k - 1) + 1 = k
    BY <1>2
  <2>2. PICK from \in Nat, to \in Nat :
          from = (k - 1) * PacketSize /\ to = k * PacketSize
    BY <1>1, <2>1, Places
  <2>3. to = from + PacketSize
    BY <1>1, <2>1, <2>2, Places
  <2>4. to <= Len(cells)
    BY <1>2, <2>1, <2>2
  <2>5. \A i \in 1..PacketSize : from + i \in 1..Len(cells)
    BY <1>1, <2>3, <2>4
  <2> DEFINE c == SubSeq(cells, from + 1, to)
  <2>6. \A i \in from + 1..to : cells[i] \in Cells
    BY <1>1, <2>4, ElementOfSeq
  <2>7. /\ c \in Seq(Cells)
        /\ Len(c) = IF from + 1 <= to THEN to - (from + 1) + 1 ELSE 0
        /\ \A i \in 1..to - (from + 1) + 1 : c[i] = cells[from + 1 + i - 1]
    BY <2>6, SubSeqProperties
  <2>8. Len(c) = PacketSize
    <3> HIDE DEF c
    <3> QED BY <1>1, <2>3, <2>7
  <2>9. ASSUME NEW i \in 1..PacketSize PROVE c[i] = cells[from + i]
    <3>1. i \in 1..to - (from + 1) + 1 /\ from + 1 + i - 1 = from + i
      BY <1>1, <2>3
    <3> HIDE DEF c
    <3> QED BY <2>7, <3>1
  <2> HIDE DEF c
  <2>10. c \in Chunk
    BY <1>1, <2>7, <2>8, LenProperties DEF Chunk
  <2>11. chunk(k) = c
    BY <2>2 DEF c
  <2> HIDE DEF chunk
  <2> QED BY <2>2, <2>5, <2>9, <2>10, <2>11
<1>4. Chunks(cells) = [k \in 1..count |-> chunk(k)]
  BY DEF Chunks, count
<1> HIDE DEF chunk
<1>5. Chunks(cells) \in Seq(Chunk) /\ Len(Chunks(cells)) = count
  BY <1>2, <1>3, <1>4
<1>6. \A k \in 1..count : Chunks(cells)[k] = chunk(k)
  BY <1>4
<1> QED BY <1>3, <1>5, <1>6 DEF count

(* The move: a buffer with a payload goes where there is room for it.      *)
LEMMA MovedIs ==
  ASSUME IInv, NEW b, Cut(b)
  PROVE  LET to == Moved(b)
         IN  /\ to.cache \in Buffers
             /\ to.busy => BufferInv(to.cache) /\ to.cache.loadsize # 0
             /\ to.cache # b => BufferInv(to.cache) /\ to.cache.loadsize = 0
             /\ ~to.busy => to.cache.loadsize = 0
             /\ BufferInv(to.in)
             /\ to.busy \in BOOLEAN /\ to.available \in BOOLEAN
             /\ to.available <=> to.in.loadsize # 0
<1>1. /\ GetLoadsize(b) = 0 <=> b.loadsize = 0
      /\ GetLoadsize(in) = 0 <=> in.loadsize = 0
      /\ b \in Buffers /\ in \in Buffers
  BY CutIs DEF IInv, BufferInv, Cut
<1>2. CASE b.loadsize = 0
  BY <1>1, <1>2 DEF Moved, IInv
<1>3. CASE b.loadsize # 0 /\ in.loadsize # 0
  BY <1>1, <1>3 DEF Moved, IInv, BufferInv
<1>4. CASE b.loadsize # 0 /\ in.loadsize = 0
  BY <1>1, <1>4 DEF Moved, IInv, BufferInv
<1> QED BY <1>2, <1>3, <1>4

-----------------------------------------------------------------------------
(***************************************************************************)
(* The inductive invariant.                                                *)
(***************************************************************************)

LEMMA InitInv == Init => IInv
<1> SUFFICES ASSUME Init PROVE IInv
  OBVIOUS
<1>1. BufferSize \in 3..255
  BY BufferSizeAssumption
<1>2. Zero \in Cells
  BY DEF Zero, Cells
<1>3. BufferInv(BufferInit(Zero)) /\ BufferInit(Zero).loadsize = 0
  BY <1>1, <1>2, NothingIsWhole
  DEF BufferInit, BufferInv, Cut, Carries, Buffers, InBounds,
      MessageSizeMax, HeaderSize
<1>4. FifoInv(Fifo!FifoInit)
  <2>1. InternalBufferSize \in Nat /\ PacketSize \in Nat
    BY PacketAssumption
  <2>2. Fifo!FifoInit \in FifoType
    BY <1>2, <2>1 DEF Fifo!FifoInit, FifoType
  <2> QED BY <2>1, <2>2 DEF Fifo!FifoInit, FifoInv
<1> QED BY <1>3, <1>4 DEF Init, IInv

LEMMA TransferInv ==
  ASSUME IInv, NEW m \in Messages, NEW n \in Lengths, NEW letIn \in BOOLEAN,
         Transfer(m, n, letIn)
  PROVE  IInv'
<1> DEFINE b == Filled(m, n)
<1>1. ~line_in_busy /\ ~line_in_is_saturated
  BY DEF Transfer
<1>2. /\ b \in Buffers /\ InBounds(b) /\ b.read_pos = 0 /\ HeadOf(b) = m
  BY <1>1, FilledIs
<1> HIDE DEF b
<1>3. CASE letIn /\ Complete(b)
  <2> DEFINE c == SkipHeader(Trim(b))
             to == Moved(c)
  <2>1. TakeMove(to)
    BY <1>3 DEF Transfer, b
  <2>2. Cut(c)
    BY <1>2, <1>3, PayloadIs
  <2> HIDE DEF c
  <2>3. /\ to.cache \in Buffers
        /\ to.busy => BufferInv(to.cache) /\ to.cache.loadsize # 0
        /\ BufferInv(to.in)
        /\ to.busy \in BOOLEAN /\ to.available \in BOOLEAN
        /\ to.available <=> to.in.loadsize # 0
    BY <2>2, MovedIs
  <2> HIDE DEF to
  <2>4. /\ BufferInv(BufferClear(to.cache))
        /\ BufferClear(to.cache).loadsize = 0
    BY <2>3, ClearIs
  <2>5. /\ BufferInv(cache') /\ (to.busy <=> cache'.loadsize # 0)
    BY <2>1, <2>3, <2>4 DEF TakeMove
  <2>6. GetLoadsize(cache') = 0 <=> cache'.loadsize = 0
    BY <2>5, CutIs DEF BufferInv
  <2>7. /\ in' = to.in /\ data_in_available' = to.available
        /\ line_in_busy' = to.busy
        /\ line_in_is_saturated' = (GetLoadsize(cache') # 0)
        /\ spi_rx_fifo' = spi_rx_fifo
    BY <2>1 DEF TakeMove
  <2> QED BY <2>3, <2>5, <2>6, <2>7 DEF IInv
<1>4. CASE ~(letIn /\ Complete(b))
  <2>1. /\ cache' = BufferClear(b)
        /\ UNCHANGED <<in, data_in_available, line_in_busy,
                       line_in_is_saturated, spi_rx_fifo>>
    BY <1>4 DEF Transfer, b
  <2>2. BufferInv(BufferClear(b)) /\ BufferClear(b).loadsize = 0
    BY <1>2, ClearIs
  <2> QED BY <1>1, <2>1, <2>2 DEF IInv
<1> QED BY <1>3, <1>4

LEMMA BrokenInv ==
  ASSUME IInv, NEW m \in Messages, NEW n \in Lengths, TransferBroken(m, n)
  PROVE  IInv'
<1>1. n \in 1..BufferSize /\ BufferSize \in 3..255
  BY BufferSizeAssumption, PacketAssumption
<1>2. BufferInv(cache) /\ cache \in Buffers /\ cache.loadsize = 0
  BY DEF IInv, BufferInv, Cut, TransferBroken
<1> DEFINE cells == Clocked(m, n)
<1>3. DOMAIN cells = 1..n /\ \A i \in 1..n : cells[i] \in Cells
  BY <1>1 DEF Clocked, Cells
<1> HIDE DEF cells
<1>4. [p \in 0..BufferSize - 1 |->
         LET i == p - cache.write_pos + 1
         IN  IF i \in DOMAIN cells THEN cells[i] ELSE cache.data[p]]
        \in [0..BufferSize - 1 -> Cells]
  BY <1>2, <1>3 DEF Buffers
<1>5. cache' = DmaInto(cache, cells)
  BY DEF TransferBroken, cells
<1>6. /\ cache' \in Buffers
      /\ cache'.loadsize = cache.loadsize /\ cache'.read_pos = cache.read_pos
      /\ cache'.write_pos = cache.write_pos
      /\ cache'.freesize = cache.freesize
  BY <1>2, <1>4, <1>5 DEF DmaInto, Buffers
<1>7. UNCHANGED <<in, data_in_available, line_in_busy, line_in_is_saturated,
                  spi_rx_fifo>>
  BY DEF TransferBroken
<1>8. BufferInv(cache')
  BY <1>2, <1>6 DEF BufferInv, Cut, Carries, Wraps, InBounds
<1> QED BY <1>6, <1>7, <1>8 DEF IInv

LEMMA NextInv == IInv /\ [Next]_vars => IInv'
<1> SUFFICES ASSUME IInv, [Next]_vars PROVE IInv'
  OBVIOUS
<1> USE DEF IInv
<1>1. CASE TransferBusy
  <2>1. GetLoadsize(cache) = 0 <=> cache.loadsize = 0
    BY CutIs DEF BufferInv
  <2> QED BY <1>1, <2>1 DEF TransferBusy
<1>2. CASE Poll
  <2> DEFINE to == Moved(cache)
  <2>1. /\ to.cache \in Buffers
        /\ to.busy => BufferInv(to.cache) /\ to.cache.loadsize # 0
        /\ to.cache # cache => BufferInv(to.cache) /\ to.cache.loadsize = 0
        /\ ~to.busy => to.cache.loadsize = 0
        /\ BufferInv(to.in)
        /\ to.busy \in BOOLEAN /\ to.available \in BOOLEAN
        /\ to.available <=> to.in.loadsize # 0
    BY MovedIs DEF BufferInv
  <2> HIDE DEF to
  <2>2. /\ cache' = to.cache /\ in' = to.in
        /\ data_in_available' = to.available /\ line_in_busy' = to.busy
        /\ line_in_busy /\ UNCHANGED <<line_in_is_saturated, spi_rx_fifo>>
    BY <1>2 DEF Poll, to
  <2>3. BufferInv(cache')
    BY <2>1, <2>2
  <2>4. cache'.loadsize # 0 <=> to.busy
    BY <2>1, <2>2
  <2> QED BY <2>1, <2>2, <2>3, <2>4
<1>3. CASE DataInProcess
  <2>1. BufferInv(BufferClear(in)) /\ BufferClear(in).loadsize = 0
    BY ClearIs DEF BufferInv, Cut
  <2> DEFINE chunks == Chunks(Get(in, GetLoadsize(in)))
             g == PutAll(spi_rx_fifo, chunks)
  <2>2. FifoInv(g)
    <3>1. in \in Buffers /\ InBounds(in)
      BY <1>3, CutIs DEF DataInProcess, BufferInv, Cut, Carries
    <3>2. chunks \in Seq(Chunk)
      BY <3>1, GetIs, ChunksAre
    <3> HIDE DEF chunks
    <3> QED BY <3>2, PutAllIs
  <2> HIDE DEF g
  <2>3. /\ \/ /\ in' = BufferClear(in) /\ data_in_available' = FALSE
              /\ spi_rx_fifo' = g
           \/ UNCHANGED <<in, data_in_available, spi_rx_fifo>>
        /\ UNCHANGED <<cache, line_in_busy, line_in_is_saturated>>
    BY <1>3 DEF DataInProcess, g
  <2>4. CASE /\ in' = BufferClear(in) /\ data_in_available' = FALSE
             /\ spi_rx_fifo' = g
    BY <2>1, <2>2, <2>3, <2>4
  <2>5. CASE UNCHANGED <<in, data_in_available, spi_rx_fifo>>
    BY <2>3, <2>5
  <2> QED BY <2>3, <2>4, <2>5
<1>4. CASE readPacket \/ clearRead
  <2>1. /\ UNCHANGED <<cache, in, data_in_available, line_in_busy,
                       line_in_is_saturated>>
        /\ \/ spi_rx_fifo' = Fifo!RemoveOne(spi_rx_fifo)
           \/ spi_rx_fifo' = Fifo!RemoveAll(spi_rx_fifo)
        /\ ~Fifo!IsEmpty(spi_rx_fifo)
    BY <1>4, Zenon DEF readPacket, clearRead
  <2>2. FifoInv(spi_rx_fifo')
    BY <2>1, NotEmptyIs, RemoveIs, RemoveAllIs
  <2> QED BY <2>1, <2>2
<1>5. CASE UNCHANGED vars
  <2> QED BY <1>5 DEF vars
<1> QED BY <1>1, <1>2, <1>3, <1>4, <1>5, TransferInv, BrokenInv DEF Next

THEOREM Invariance == Spec => []IInv
BY InitInv, NextInv, PTL DEF Spec

(* What spils_data_read copies into p_data on the stack of data_in_process *)
(* is never more than the four packets there is room for, however long the *)
(* transfer was, if the message's header says at least its own length; if  *)
(* it says less, it always is.                                             *)
THEOREM ReadIsBounded == Spec => []ReadFits
<1>1. IInv => ReadFits
  <2> SUFFICES ASSUME IInv, data_in_available
               PROVE  Overruns(in) <=> IsShort(MessageIn(in))
    BY DEF ReadFits
  <2>1. Cut(in) /\ in.loadsize # 0
    BY DEF IInv, BufferInv
  <2>2. CASE Carries(in)
    BY <2>1, <2>2, CutIs DEF Carries
  <2>3. CASE Wraps(in)
    BY <2>1, <2>3, CutIs DEF Wraps
  <2> QED BY <2>1, <2>2, <2>3 DEF Cut
<1> QED BY <1>1, Invariance, PTL

(* What it copies is whole packets, as data_in_process asserts: the        *)
(* padding is cut off and the header skipped before the link says that     *)
(* there is anything to read.                                              *)
THEOREM ReadsWholePackets == Spec => []WholePackets
<1>1. IInv => WholePackets
  <2> SUFFICES ASSUME IInv, data_in_available, ~IsShort(MessageIn(in))
               PROVE  GetLoadsize(in) % PacketSize = 0
    BY DEF WholePackets
  <2>1. Cut(in) /\ Carries(in)
    BY DEF IInv, BufferInv, Cut, Wraps
  <2> QED BY <2>1, CutIs DEF Carries
<1> QED BY <1>1, Invariance, PTL

(* The state fits the buffers: the sizes of the two link buffers add up,   *)
(* the flags say what they hold, and the FIFO's items are at its beginning, *)
(* with nothing of those that were taken behind them.                      *)
THEOREM TypeCorrect == Spec => []TypeOK
<1>1. IInv => TypeOK
  <2> SUFFICES ASSUME IInv PROVE TypeOK
    OBVIOUS
  <2>1. data_in_available = (in.loadsize # 0)
    BY DEF IInv
  <2>2. line_in_busy = (cache.loadsize # 0)
    BY DEF IInv
  <2>3. FifoInv(spi_rx_fifo) /\ spi_rx_fifo.index \in Nat
        /\ DOMAIN spi_rx_fifo.internal_buffer = 0..InternalBufferSize - 1
    BY FifoTypes DEF IInv, FifoInv
  <2>4. InternalBufferSize \in Nat
    BY PacketAssumption
  <2>5. spi_rx_fifo.index \in 0..InternalBufferSize
    BY <2>3, <2>4 DEF FifoInv
  <2>6. IsLinear(cache) /\ IsLinear(in)
    BY CutIs DEF IInv, BufferInv
  <2> QED BY <2>1, <2>2, <2>3, <2>5, <2>6 DEF TypeOK, IInv, FifoInv
<1> QED BY <1>1, Invariance, PTL

-----------------------------------------------------------------------------
(***************************************************************************)
(* The refinement of PacketPipe.                                           *)
(***************************************************************************)

(* The valid packets of a buffer, and of one that has nothing loaded.      *)
LEMMA InBufferIs ==
  ASSUME NEW b, Cut(b)
  PROVE  /\ InBuffer(b) \in Seq(PacketSet)
         /\ b.loadsize = 0 => InBuffer(b) = <<>>
<1>1. CASE Overruns(b)
  BY <1>1 DEF InBuffer
<1>2. CASE ~Overruns(b)
  <2> DEFINE cells == Get(b, GetLoadsize(b))
             chunks == Chunks(cells)
  <2>1. b \in Buffers /\ InBounds(b)
    BY <1>2, CutIs DEF Cut, Carries
  <2>2. cells \in Seq(Cells) /\ Len(cells) = b.loadsize
    BY <2>1, GetIs
  <2> HIDE DEF cells
  <2>3. chunks \in Seq(Chunk) /\ Len(chunks) = b.loadsize \div PacketSize
    BY <2>2, ChunksAre
  <2> HIDE DEF chunks
  <2>4. /\ PacketsIn(chunks) \in Seq(PacketSet)
        /\ Len(PacketsIn(chunks)) = Len(chunks)
    BY <2>3, PacketsInIs
  <2>5. InBuffer(b) = ValidIn(chunks)
    BY <1>2 DEF InBuffer, chunks, cells
  <2>6. ASSUME b.loadsize = 0 PROVE Len(chunks) = 0
    <3>1. PacketSize \in Nat \ {0}
      BY PacketAssumption
    <3>2. 0 * PacketSize <= 0 /\ 0 < 0 * PacketSize + PacketSize
      BY <3>1
    <3>3. 0 \div PacketSize = 0
      BY <3>1, <3>2, Quotient
    <3> QED BY <2>3, <2>6, <3>3
  <2> QED BY <2>4, <2>5, <2>6, KeptType DEF ValidIn
<1> QED BY <1>1, <1>2

(* The k-th chunk of the message m, without its header, is its k-th packet. *)
LEMMA PacketIs ==
  ASSUME NEW m \in Messages, NEW k \in Nat \ {0}, NEW c,
         c = PacketCells(m, k)
  PROVE  /\ CrcValid(c) <=> k \in m.good
         /\ PacketOf(c) = <<m, k>>
<1>1. PacketSize \in Nat \ {0} /\ 1 \in 1..PacketSize
  BY PacketAssumption
<1>2. k - 1 \in Nat /\ (k - 1) * PacketSize \in Nat
  BY <1>1, Places
<1>3. PICK x \in Nat : x = (k - 1) * PacketSize
  BY <1>2
<1>4. c[1] = [of |-> m, at |-> HeaderSize + x + 1]
  BY <1>1, <1>3 DEF PacketCells
<1>5. c[1].of = m /\ c[1].at - HeaderSize - 1 = x
  BY <1>4 DEF HeaderSize
<1>6. x \div PacketSize = k - 1
  BY <1>1, <1>2, <1>3, Quotient
<1>7. NumberOf(c) = k
  BY <1>5, <1>6 DEF NumberOf
<1>8. IsPacket(c)
  BY <1>5, <1>7 DEF IsPacket
<1> QED BY <1>5, <1>7, <1>8 DEF CrcValid, PacketOf

(* What the move is given is what the pipe says has arrived.               *)
LEMMA ArrivedIs ==
  ASSUME NEW b, Cut(b), Carries(b), NEW m \in Messages, ~IsShort(m),
         b.read_pos = HeaderSize, b.loadsize = m.len - HeaderSize,
         \A p \in 0..m.len - 1 : b.data[p] = [of |-> m, at |-> p + 1]
  PROVE  InBuffer(b) = PacketsOf[m]
<1> DEFINE cells == Get(b, GetLoadsize(b))
           chunks == Chunks(cells)
           count == (m.len - HeaderSize) \div PacketSize
<1>1. PacketSize \in Nat \ {0}
  BY PacketAssumption
<1>2. PICK len \in Nat : len = m.len /\ len >= 2
  BY PacketAssumption DEF IsShort, HeaderSize
<1>3. /\ cells \in Seq(Cells) /\ Len(cells) = len - 2
      /\ \A i \in 1..len - 2 : cells[i] = b.data[2 + i - 1]
  BY <1>2, GetIs DEF HeaderSize, Cut, Carries
<1> HIDE DEF cells
<1>4. \A i \in 1..len - 2 : cells[i] = [of |-> m, at |-> HeaderSize + i]
  <2> SUFFICES ASSUME NEW i \in 1..len - 2
               PROVE  cells[i] = [of |-> m, at |-> HeaderSize + i]
    OBVIOUS
  <2>1. 2 + i - 1 \in 0..len - 1 /\ 2 + i - 1 + 1 = HeaderSize + i
    BY <1>2 DEF HeaderSize
  <2>2. b.data[2 + i - 1] = [of |-> m, at |-> 2 + i - 1 + 1]
    BY <1>2, <2>1
  <2> QED BY <1>3, <2>1, <2>2
<1>5. count = (len - 2) \div PacketSize /\ count \in Nat
  <2>1. len - 2 \in Nat
    BY <1>2
  <2>2. (len - 2) \div PacketSize \in Nat
    BY <1>1, <2>1, Quotient
  <2> QED BY <1>2, <2>2 DEF HeaderSize
<1> HIDE DEF count
<1>6. /\ chunks \in Seq(Chunk) /\ Len(chunks) = count
      /\ \A k \in 1..count : \A i \in 1..PacketSize :
           /\ (k - 1) * PacketSize + i \in 1..len - 2
           /\ chunks[k][i] = cells[(k - 1) * PacketSize + i]
  BY <1>3, <1>5, ChunksAre
<1> HIDE DEF chunks
<1>7. ASSUME NEW k \in 1..count PROVE chunks[k] = PacketCells(m, k)
  <2>1. PICK x \in Nat : x = (k - 1) * PacketSize
    <3>1. k - 1 \in Nat
      BY <1>5
    <3> QED BY <1>1, <3>1, Places
  <2>2. chunks[k] \in Chunk
    BY <1>6, ElementOfSeq
  <2>3. PICK c \in Chunk : c = chunks[k]
    BY <2>2
  <2>4. ASSUME NEW i \in 1..PacketSize
        PROVE  c[i] = [of |-> m, at |-> HeaderSize + (k - 1) * PacketSize + i]
    <3>1. x + i \in 1..len - 2 /\ c[i] = cells[x + i]
      BY <1>6, <2>1, <2>3
    <3>2. HeaderSize + (x + i) = HeaderSize + x + i
      BY <1>1 DEF HeaderSize
    <3> QED BY <1>4, <2>1, <3>1, <3>2
  <2>5. c = [i \in 1..PacketSize |-> c[i]]
    BY DEF Chunk
  <2> QED BY <2>3, <2>4, <2>5 DEF PacketCells
<1>8. ASSUME NEW k \in 1..count
      PROVE  /\ CrcValid(chunks[k]) <=> k \in m.good
             /\ PacketOf(chunks[k]) = <<m, k>>
  <2>1. k \in Nat \ {0}
    BY <1>5
  <2> QED BY <1>7, <2>1, PacketIs
<1>9. PacketsIn(chunks) = [k \in 1..count |-> <<m, k>>]
  BY <1>6, <1>8 DEF PacketsIn
<1>10. {k \in 1..Len(chunks) : CrcValid(chunks[k])}
         = {k \in 1..count : k \in m.good}
  BY <1>6, <1>8
<1>11. InBuffer(b) = ValidIn(chunks)
  BY CutIs DEF InBuffer, chunks, cells
<1>12. PacketsOf[m] = Kept([k \in 1..count |-> <<m, k>>],
                           {k \in 1..count : k \in m.good})
  BY DEF PacketsOf, count
<1> QED BY <1>9, <1>10, <1>11, <1>12 DEF ValidIn

LEMMA ShortHasNone ==
  ASSUME NEW b, Cut(b), Wraps(b), NEW m \in Messages, IsShort(m)
  PROVE  InBuffer(b) = <<>> /\ PacketsOf[m] = <<>>
<1> DEFINE none == [k \in 1..0 |-> <<m, k>>]
<1>1. InBuffer(b) = <<>>
  BY CutIs DEF InBuffer
<1>2. PacketsOf[m] = Kept(none, {k \in 1..0 : k \in m.good})
  BY DEF PacketsOf
<1>3. none \in Seq(PacketSet) /\ Len(none) = 0
  OBVIOUS
<1> HIDE DEF none
<1> QED BY <1>1, <1>2, <1>3, KeptType

LEMMA InFifoIs ==
  ASSUME FifoInv(spi_rx_fifo)
  PROVE  /\ InFifo \in Seq(PacketSet)
         /\ Len(InFifo) = spi_rx_fifo.num_items
         /\ spi_rx_fifo.num_items \in 0..Capacity
         /\ Capacity \in Nat
BY ItemsAre, PacketsInIs DEF InFifo

(* Three queues in a row.                                                  *)
LEMMA TailOfConcat ==
  ASSUME NEW S, NEW s \in Seq(S), NEW t \in Seq(S), s # <<>>
  PROVE  s \o t # <<>> /\ Tail(s \o t) = Tail(s) \o t
<1> DEFINE l == Tail(s \o t)
           r == Tail(s) \o t
<1>1. Len(s) \in Nat \ {0} /\ Len(t) \in Nat
  BY EmptySeq
<1>2. /\ s \o t \in Seq(S) /\ Len(s \o t) = Len(s) + Len(t)
      /\ \A i \in 1..Len(s) + Len(t) :
           (s \o t)[i] = IF i <= Len(s) THEN s[i] ELSE t[i - Len(s)]
  BY ConcatProperties
<1>3. s \o t # <<>>
  BY <1>1, <1>2
<1>4. /\ Tail(s) \in Seq(S) /\ Len(Tail(s)) = Len(s) - 1
      /\ \A i \in 1..Len(s) - 1 : Tail(s)[i] = s[i + 1]
  BY HeadTailProperties
<1>5. /\ l \in Seq(S) /\ Len(l) = Len(s) + Len(t) - 1
      /\ \A i \in 1..Len(s) + Len(t) - 1 : l[i] = (s \o t)[i + 1]
  BY <1>2, <1>3, HeadTailProperties
<1>6. /\ r \in Seq(S) /\ Len(r) = Len(s) - 1 + Len(t)
      /\ \A i \in 1..Len(s) - 1 + Len(t) :
           r[i] = IF i <= Len(s) - 1 THEN Tail(s)[i] ELSE t[i - (Len(s) - 1)]
  BY <1>4, ConcatProperties
<1> HIDE DEF l, r
<1>7. ASSUME NEW i \in 1..Len(l) PROVE l[i] = r[i]
  <2>1. PICK a \in Nat \ {0}, b \in Nat : a = Len(s) /\ b = Len(t)
    BY <1>1
  <2>2. i \in 1..a + b - 1 /\ i + 1 \in 1..a + b /\ i \in 1..a - 1 + b
    BY <1>5, <2>1
  <2>3. l[i] = IF i + 1 <= a THEN s[i + 1] ELSE t[i + 1 - a]
    BY <1>2, <1>5, <2>1, <2>2
  <2>4. r[i] = IF i <= a - 1 THEN Tail(s)[i] ELSE t[i - (a - 1)]
    BY <1>6, <2>1, <2>2
  <2>5. CASE i <= a - 1
    <3>1. i \in 1..a - 1 /\ i + 1 <= a
      BY <2>2, <2>5
    <3> QED BY <1>4, <2>1, <2>3, <2>4, <2>5, <3>1
  <2>6. CASE ~(i <= a - 1)
    <3>1. ~(i + 1 <= a) /\ i + 1 - a = i - (a - 1)
      BY <2>2, <2>6
    <3> QED BY <2>3, <2>4, <2>6, <3>1
  <2> QED BY <2>5, <2>6
<1>8. l = r
  <2>1. Len(l) = Len(r)
    BY <1>1, <1>5, <1>6
  <2> QED BY <1>5, <1>6, <1>7, <2>1, SeqEqual
<1> QED BY <1>3, <1>8 DEF l, r

LEMMA DropFirst ==
  ASSUME NEW S, NEW s \in Seq(S), NEW t \in Seq(S)
  PROVE  SubSeq(s \o t, Len(s) + 1, Len(s \o t)) = t
<1> DEFINE l == SubSeq(s \o t, Len(s) + 1, Len(s \o t))
<1>1. PICK a \in Nat, b \in Nat : a = Len(s) /\ b = Len(t)
  BY LenProperties
<1>2. /\ s \o t \in Seq(S) /\ Len(s \o t) = a + b
      /\ \A i \in 1..a + b :
           (s \o t)[i] = IF i <= a THEN s[i] ELSE t[i - a]
  BY <1>1, ConcatProperties
<1>3. \A i \in a + 1..a + b : (s \o t)[i] \in S
  BY <1>1, <1>2, ElementOfSeq
<1> DEFINE u == s \o t
<1>4. PICK from \in Nat, to \in Nat : from = a + 1 /\ to = a + b
  OBVIOUS
<1>5. /\ l \in Seq(S)
      /\ Len(l) = IF from <= to THEN to - from + 1 ELSE 0
      /\ \A i \in 1..to - from + 1 : l[i] = u[from + i - 1]
  <2>1. l = SubSeq(u, from, to)
    BY <1>1, <1>2, <1>4
  <2>2. \A i \in from..to : u[i] \in S
    BY <1>3, <1>4
  <2> HIDE DEF l, u
  <2> QED BY <2>1, <2>2, SubSeqProperties
<1> HIDE DEF l
<1>6. Len(l) = b
  BY <1>4, <1>5
<1>7. ASSUME NEW i \in 1..b PROVE l[i] = t[i]
  <2>1. /\ i \in 1..to - from + 1 /\ from + i - 1 = a + i
        /\ a + i \in 1..a + b /\ ~(a + i <= a) /\ a + i - a = i
    BY <1>4
  <2>2. l[i] = u[a + i]
    BY <1>5, <2>1
  <2>3. u[a + i] = t[a + i - a]
    BY <1>2, <2>1
  <2> QED BY <2>1, <2>2, <2>3
<1>8. l = t
  BY <1>1, <1>5, <1>6, <1>7, SeqEqual
<1> QED BY <1>8 DEF l

(* Cutting the first queue to n elements.                                  *)
LEMMA CutFirst ==
  ASSUME NEW S, NEW s \in Seq(S), NEW t \in Seq(S), NEW n \in 0..Len(s)
  PROVE  SubSeq(s, 1, n) \o t
           = SubSeq(s \o t, 1, n) \o SubSeq(s \o t, Len(s) + 1, Len(s \o t))
<1>1. PICK a \in Nat, b \in Nat : a = Len(s) /\ b = Len(t)
  BY LenProperties
<1>2. /\ s \o t \in Seq(S) /\ Len(s \o t) = a + b
      /\ \A i \in 1..a + b :
           (s \o t)[i] = IF i <= a THEN s[i] ELSE t[i - a]
  BY <1>1, ConcatProperties
<1> DEFINE l == SubSeq(s, 1, n)
           r == SubSeq(s \o t, 1, n)
<1>3. /\ l \in Seq(S) /\ Len(l) = n /\ \A i \in 1..n : l[i] = s[i]
  <2>1. \A i \in 1..n : s[i] \in S
    BY <1>1, ElementOfSeq
  <2>2. /\ l \in Seq(S) /\ Len(l) = IF 1 <= n THEN n - 1 + 1 ELSE 0
        /\ \A i \in 1..n - 1 + 1 : l[i] = s[1 + i - 1]
    BY <2>1, SubSeqProperties
  <2> HIDE DEF l
  <2> QED BY <1>1, <2>2
<1>4. /\ r \in Seq(S) /\ Len(r) = n /\ \A i \in 1..n : r[i] = s[i]
  <2>1. \A i \in 1..n : (s \o t)[i] = s[i] /\ (s \o t)[i] \in S
    BY <1>1, <1>2, ElementOfSeq
  <2>2. /\ r \in Seq(S) /\ Len(r) = IF 1 <= n THEN n - 1 + 1 ELSE 0
        /\ \A i \in 1..n - 1 + 1 : r[i] = (s \o t)[1 + i - 1]
    BY <2>1, SubSeqProperties
  <2> HIDE DEF r
  <2> QED BY <1>1, <2>1, <2>2
<1> HIDE DEF l, r
<1>5. l = r
  BY <1>3, <1>4, SeqEqual
<1> QED BY <1>5, DropFirst DEF l, r

(* The queues of the mapping, in front of one another.                     *)
inbound == InFifo \o (InBuffer(in) \o InBuffer(cache))

LEMMA QueuesAre ==
  ASSUME IInv
  PROVE  /\ InFifo \in Seq(PacketSet)
         /\ InBuffer(in) \in Seq(PacketSet)
         /\ InBuffer(cache) \in Seq(PacketSet)
         /\ in.loadsize = 0 => InBuffer(in) = <<>>
         /\ cache.loadsize = 0 => InBuffer(cache) = <<>>
BY InFifoIs, InBufferIs DEF IInv, BufferInv

(* A message that is let in arrives behind all others; one that is not,    *)
(* leaves nothing.                                                         *)
LEMMA TransferArrives ==
  ASSUME IInv, IInv',
         NEW m \in Messages, NEW n \in Lengths, NEW letIn \in BOOLEAN,
         Transfer(m, n, letIn)
  PROVE  inbound' = inbound \/ inbound' = inbound \o PacketsOf[m]
<1> DEFINE b == Filled(m, n)
           F == InFifo
           I == InBuffer(in)
           C == InBuffer(cache)
<1>1. ~line_in_busy /\ ~line_in_is_saturated
  BY DEF Transfer
<1>2. /\ b \in Buffers /\ InBounds(b) /\ b.read_pos = 0 /\ b.loadsize = n
      /\ HeadOf(b) = m
      /\ \A p \in 0..n - 1 : b.data[p] = [of |-> m, at |-> p + 1]
  BY <1>1, FilledIs
<1>3. F \in Seq(PacketSet) /\ I \in Seq(PacketSet) /\ C = <<>>
  BY <1>1, QueuesAre DEF IInv
<1> HIDE DEF b
<1>4. spi_rx_fifo' = spi_rx_fifo
  BY DEF Transfer, TakeMove
<1>5. F' = F
  BY <1>4 DEF InFifo
<1>6. CASE ~(letIn /\ Complete(b))
  <2>1. cache' = BufferClear(b) /\ in' = in
    BY <1>6 DEF Transfer, b
  <2>2. cache'.loadsize = 0
    BY <1>2, <2>1, ClearIs
  <2>3. InBuffer(cache') = <<>>
    BY <2>2, InBufferIs DEF IInv, BufferInv
  <2>4. I' = I /\ C' = C
    BY <1>3, <2>1, <2>3
  <2> HIDE DEF F, I, C
  <2> QED BY <1>5, <2>4 DEF inbound, F, I, C
<1>7. CASE letIn /\ Complete(b)
  <2> DEFINE c == SkipHeader(Trim(b))
             to == Moved(c)
             D == InBuffer(c)
  <2>1. TakeMove(to)
    BY <1>7 DEF Transfer, b
  <2>2. /\ Cut(c) /\ c \in Buffers /\ c.read_pos = HeaderSize
        /\ IsShort(m) => Wraps(c)
        /\ ~IsShort(m) => Carries(c) /\ c.loadsize = m.len - HeaderSize
        /\ c.data = b.data /\ m.len <= n
    BY <1>2, <1>7, PayloadIs DEF Cut
  <2> HIDE DEF c
  <2>3. D = PacketsOf[m]
    <3>1. \A p \in 0..m.len - 1 : c.data[p] = [of |-> m, at |-> p + 1]
      <4>1. PICK len \in Nat : len = m.len
        BY PacketAssumption
      <4>2. n \in Nat
        BY PacketAssumption, BufferSizeAssumption
      <4>3. \A p \in 0..len - 1 : p \in 0..n - 1
        BY <2>2, <4>1, <4>2
      <4> QED BY <1>2, <2>2, <4>1, <4>3
    <3> QED BY <2>2, <3>1, ArrivedIs, ShortHasNone
  <2>4. D \in Seq(PacketSet) /\ (c.loadsize = 0 => D = <<>>)
    BY <2>2, InBufferIs
  <2>5. /\ GetLoadsize(c) = 0 <=> c.loadsize = 0
        /\ GetLoadsize(in) = 0 <=> in.loadsize = 0
    BY <2>2, CutIs DEF IInv, BufferInv
  <2>6. /\ cache' = IF to.busy THEN to.cache ELSE BufferClear(to.cache)
        /\ in' = to.in
    BY <2>1 DEF TakeMove
  <2>7. CASE c.loadsize = 0
    <3>1. to.in = in /\ to.cache = c /\ to.busy = FALSE
      BY <2>5, <2>7 DEF Moved
    <3>2. cache' = BufferClear(c) /\ in' = in
      BY <2>6, <3>1
    <3>3. cache'.loadsize = 0
      BY <2>2, <3>2, ClearIs
    <3>4. InBuffer(cache') = <<>>
      BY <3>3, InBufferIs DEF IInv, BufferInv
    <3>5. I' = I /\ C' = C
      BY <1>3, <3>2, <3>4
    <3> HIDE DEF F, I, C
    <3> QED BY <1>5, <3>5 DEF inbound, F, I, C
  <2>8. CASE c.loadsize # 0 /\ in.loadsize # 0
    <3>1. to.in = in /\ to.cache = c /\ to.busy = TRUE
      BY <2>5, <2>8 DEF Moved
    <3>2. cache' = c /\ in' = in
      BY <2>6, <3>1
    <3>3. I' = I /\ C' = D
      BY <3>2
    <3> HIDE DEF F, I, C, D
    <3>4. inbound' = F \o (I \o D) /\ inbound = F \o (I \o C)
      BY <1>5, <3>3 DEF inbound, F, I, C
    <3>5. F \o (I \o D) = (F \o I) \o D
      BY <1>3, <2>4, ConcatAssociative
    <3>6. I \o C = I
      BY <1>3, ConcatEmptySeq
    <3> QED BY <2>3, <3>4, <3>5, <3>6
  <2>9. CASE c.loadsize # 0 /\ in.loadsize = 0
    <3>1. to.in = c /\ to.cache = in /\ to.busy = FALSE
      BY <2>5, <2>9 DEF Moved
    <3>2. cache' = BufferClear(in) /\ in' = c
      BY <2>6, <3>1
    <3>3. cache'.loadsize = 0
      BY <3>2, ClearIs DEF IInv, BufferInv, Cut
    <3>4. InBuffer(cache') = <<>>
      BY <3>3, InBufferIs DEF IInv, BufferInv
    <3>5. I' = D /\ C' = <<>> /\ I = <<>>
      BY <2>9, <3>2, <3>4, QueuesAre
    <3> HIDE DEF F, I, C, D
    <3>6. inbound' = F \o (D \o <<>>) /\ inbound = F \o (<<>> \o <<>>)
      BY <1>3, <1>5, <3>5 DEF inbound, F, I, C
    <3>7. /\ D \o <<>> = D /\ F \o <<>> = F
      BY <1>3, <2>4, ConcatEmptySeq
    <3>8. <<>> \o <<>> = <<>>
      BY <1>3, <3>5, ConcatEmptySeq
    <3> QED BY <2>3, <3>6, <3>7, <3>8
  <2> QED BY <2>7, <2>8, <2>9
<1> QED BY <1>6, <1>7

(* Neither a broken transfer, nor one that is answered BUSY, nor the move  *)
(* between the buffers, changes the packets.                               *)
LEMMA OthersStutter ==
  ASSUME IInv, IInv',
         \/ \E m \in Messages, n \in Lengths : TransferBroken(m, n)
         \/ TransferBusy \/ Poll \/ UNCHANGED vars
  PROVE  inbound' = inbound
<1> DEFINE F == InFifo
           I == InBuffer(in)
           C == InBuffer(cache)
<1>1. ASSUME NEW m \in Messages, NEW n \in Lengths, TransferBroken(m, n)
      PROVE  inbound' = inbound
  <2>1. /\ ~line_in_busy /\ line_in_busy' = line_in_busy
        /\ in' = in /\ spi_rx_fifo' = spi_rx_fifo
    BY <1>1 DEF TransferBroken
  <2>2. C = <<>>
    BY <2>1, QueuesAre DEF IInv
  <2>3. cache'.loadsize = 0
    BY <2>1 DEF IInv
  <2>4. InBuffer(cache') = <<>>
    BY <2>3, InBufferIs DEF IInv, BufferInv
  <2>5. F' = F /\ I' = I /\ C' = C
    BY <2>1, <2>2, <2>4 DEF InFifo
  <2> HIDE DEF F, I, C
  <2> QED BY <2>5 DEF inbound, F, I, C
<1>2. CASE TransferBusy \/ UNCHANGED vars
  <2>1. cache' = cache /\ in' = in /\ spi_rx_fifo' = spi_rx_fifo
    BY <1>2 DEF TransferBusy, vars
  <2>2. F' = F /\ I' = I /\ C' = C
    BY <2>1 DEF InFifo
  <2> HIDE DEF F, I, C
  <2> QED BY <2>2 DEF inbound, F, I, C
<1>3. CASE Poll
  <2> DEFINE to == Moved(cache)
  <2>1. cache' = to.cache /\ in' = to.in /\ spi_rx_fifo' = spi_rx_fifo
    BY <1>3 DEF Poll
  <2>2. /\ GetLoadsize(cache) = 0 <=> cache.loadsize = 0
        /\ GetLoadsize(in) = 0 <=> in.loadsize = 0
    BY CutIs DEF IInv, BufferInv
  <2>3. F' = F
    BY <2>1 DEF InFifo
  <2>4. CASE cache.loadsize = 0 \/ in.loadsize # 0
    <3>1. to.cache = cache /\ to.in = in
      BY <2>2, <2>4 DEF Moved
    <3>2. I' = I /\ C' = C
      BY <2>1, <3>1
    <3> HIDE DEF F, I, C
    <3> QED BY <2>3, <3>2 DEF inbound, F, I, C
  <2>5. CASE cache.loadsize # 0 /\ in.loadsize = 0
    <3>1. to.cache = in /\ to.in = cache
      BY <2>2, <2>5 DEF Moved
    <3>2. I = <<>> /\ C \in Seq(PacketSet)
      BY <2>5, QueuesAre
    <3>3. I' = C /\ C' = <<>>
      BY <2>1, <3>1, <3>2
    <3> HIDE DEF F, I, C
    <3>4. C \o <<>> = C /\ <<>> \o C = C
      BY <3>2, ConcatEmptySeq
    <3> QED BY <2>3, <3>2, <3>3, <3>4 DEF inbound, F, I, C
  <2> QED BY <2>4, <2>5
<1> QED BY <1>1, <1>2, <1>3

(* The packets of a message go behind those in the FIFO; what it has no    *)
(* room for is lost there, and nothing else.                               *)
LEMMA DataOverflows ==
  ASSUME IInv, IInv', DataInProcess
  PROVE  \/ inbound' = inbound
         \/ \E n \in 1..(Len(inbound) - Capacity) :
              inbound' = SubSeq(inbound, 1, Capacity)
                           \o SubSeq(inbound, Capacity + n + 1, Len(inbound))
<1> DEFINE F == InFifo
           I == InBuffer(in)
           C == InBuffer(cache)
           chunks == Chunks(Get(in, GetLoadsize(in)))
           all == F \o I
<1>1. /\ F \in Seq(PacketSet) /\ I \in Seq(PacketSet) /\ C \in Seq(PacketSet)
      /\ Capacity \in Nat
  BY QueuesAre, InFifoIs DEF IInv
<1>2. CASE UNCHANGED <<spi_rx_fifo, in, data_in_available>>
  <2>1. F' = F /\ I' = I /\ C' = C
    BY <1>2 DEF DataInProcess, InFifo
  <2> HIDE DEF F, I, C
  <2> QED BY <2>1 DEF inbound, F, I, C
<1>3. CASE /\ spi_rx_fifo' = PutAll(spi_rx_fifo, chunks)
           /\ in' = BufferClear(in) /\ cache' = cache
  <2>0. Cut(in) /\ Carries(in) /\ ~Overruns(in)
    BY CutIs DEF DataInProcess, IInv, BufferInv, Cut
  <2>1. chunks \in Seq(Chunk)
    BY <2>0, GetIs, ChunksAre DEF Cut, Carries
  <2>2. I = ValidIn(chunks)
    BY <2>0 DEF InBuffer
  <2> HIDE DEF chunks
  <2>3. F' = First(all)
    BY <1>3, <2>1, <2>2, PutAllIs DEF InFifo, IInv
  <2>4. in'.loadsize = 0
    BY <1>3, ClearIs DEF IInv, BufferInv, Cut
  <2>5. I' = <<>> /\ C' = C
    BY <1>3, <2>4, InBufferIs DEF IInv, BufferInv
  <2> HIDE DEF F, I, C
  <2>6. inbound' = First(all) \o C
    <3>1. <<>> \o C = C
      BY <1>1, ConcatEmptySeq
    <3> QED BY <2>3, <2>5, <3>1 DEF inbound, F, I, C
  <2>7. inbound = all \o C
    <3>1. F \o (I \o C) = (F \o I) \o C
      BY <1>1, ConcatAssociative
    <3> QED BY <3>1 DEF inbound, F, I, C
  <2>8. all \in Seq(PacketSet)
    BY <1>1, ConcatProperties
  <2> HIDE DEF all
  <2>9. CASE Len(all) <= Capacity
    BY <2>6, <2>7, <2>9 DEF First
  <2>10. CASE ~(Len(all) <= Capacity)
    <3>1. PICK n \in Nat \ {0} : Len(all) = Capacity + n
      <4>1. PICK k \in Nat : k = Len(all)
        BY <2>8, LenProperties
      <4>2. k - Capacity \in Nat \ {0} /\ k = Capacity + (k - Capacity)
        BY <1>1, <2>10, <4>1
      <4> QED BY <4>1, <4>2
    <3>2. First(all) = SubSeq(all, 1, Capacity)
      BY <2>10 DEF First
    <3>3. Capacity \in 0..Len(all)
      BY <1>1, <3>1
    <3>4. SubSeq(all, 1, Capacity) \o C
            = SubSeq(inbound, 1, Capacity)
                \o SubSeq(inbound, Len(all) + 1, Len(inbound))
      BY <1>1, <2>7, <2>8, <3>3, CutFirst
    <3>5. n \in 1..(Len(inbound) - Capacity)
      <4>1. Len(inbound) = Len(all) + Len(C) /\ Len(C) \in Nat
        BY <1>1, <2>7, <2>8, ConcatProperties, LenProperties
      <4> QED BY <1>1, <3>1, <4>1
    <3>6. inbound' = SubSeq(inbound, 1, Capacity)
                       \o SubSeq(inbound, Capacity + n + 1, Len(inbound))
      BY <2>6, <3>1, <3>2, <3>4
    <3> QED BY <3>5, <3>6
  <2> QED BY <2>9, <2>10
<1>4. \/ UNCHANGED <<spi_rx_fifo, in, data_in_available>>
      \/ /\ spi_rx_fifo' = PutAll(spi_rx_fifo, chunks)
         /\ in' = BufferClear(in) /\ cache' = cache
  BY DEF DataInProcess
<1> QED BY <1>2, <1>3, <1>4

(* readPacket takes the first of all packets.                              *)
LEMMA ReadTakesHead ==
  ASSUME IInv, IInv', readPacket
  PROVE  inbound # <<>> /\ inbound' = Tail(inbound)
<1> DEFINE F == InFifo
           X == InBuffer(in) \o InBuffer(cache)
<1>1. F \in Seq(PacketSet) /\ X \in Seq(PacketSet)
  BY QueuesAre, ConcatProperties
<1>2. /\ spi_rx_fifo' = Fifo!RemoveOne(spi_rx_fifo)
      /\ in' = in /\ cache' = cache
      /\ FifoInv(spi_rx_fifo) /\ spi_rx_fifo.num_items > 0
  BY NotEmptyIs DEF readPacket, IInv
<1>3. F # <<>> /\ F' = Tail(F)
  <2> DEFINE items == Fifo!Items(spi_rx_fifo)
  <2>1. items # <<>> /\ Fifo!Items(spi_rx_fifo') = Tail(items)
    BY <1>2, RemoveIs
  <2>2. items \in Seq(Chunk)
    BY <1>2, ItemsAre
  <2> HIDE DEF items
  <2>3. /\ PacketsIn(items) # <<>>
        /\ PacketsIn(Tail(items)) = Tail(PacketsIn(items))
    BY <2>1, <2>2, PacketsInTail
  <2> QED BY <2>1, <2>3 DEF InFifo, items
<1>4. X' = X
  BY <1>2
<1> HIDE DEF F, X
<1>5. F \o X # <<>> /\ Tail(F \o X) = Tail(F) \o X
  BY <1>1, <1>3, TailOfConcat
<1>6. inbound = F \o X /\ inbound' = Tail(F) \o X
  BY <1>3, <1>4 DEF inbound, F, X
<1> QED BY <1>5, <1>6

(* clearRead takes those in the FIFO and no other.                         *)
LEMMA ClearTakesFifo ==
  ASSUME IInv, IInv', clearRead
  PROVE  \E n \in 1..Capacity :
           n <= Len(inbound) /\ inbound' = SubSeq(inbound, n + 1, Len(inbound))
<1> DEFINE F == InFifo
           X == InBuffer(in) \o InBuffer(cache)
           n == spi_rx_fifo.num_items
<1>1. X \in Seq(PacketSet)
  BY QueuesAre, ConcatProperties
<1>2. /\ spi_rx_fifo' = Fifo!RemoveAll(spi_rx_fifo)
      /\ in' = in /\ cache' = cache
      /\ FifoInv(spi_rx_fifo) /\ n > 0
  BY NotEmptyIs DEF clearRead, IInv
<1>3. /\ F \in Seq(PacketSet) /\ Len(F) = n
      /\ n \in 0..Capacity /\ Capacity \in Nat
  BY <1>2, InFifoIs
<1>4. F' = <<>>
  <2> DEFINE items == Fifo!Items(spi_rx_fifo')
  <2>1. FifoInv(spi_rx_fifo') /\ spi_rx_fifo'.num_items = 0
    BY <1>2, RemoveAllIs
  <2>2. items \in Seq(Chunk) /\ Len(items) = 0
    BY <2>1, ItemsAre
  <2> HIDE DEF items
  <2>3. PacketsIn(items) \in Seq(PacketSet) /\ Len(PacketsIn(items)) = 0
    BY <2>2, PacketsInIs
  <2>4. PacketsIn(items) = <<>>
    BY <2>3, EmptySeq
  <2> QED BY <2>4 DEF InFifo, items
<1>5. X' = X
  BY <1>2
<1> HIDE DEF F, X, n
<1>6. <<>> \o X = X
  BY <1>1, ConcatEmptySeq
<1>7. inbound = F \o X /\ inbound' = X
  BY <1>4, <1>5, <1>6 DEF inbound, F, X
<1>8. SubSeq(F \o X, n + 1, Len(F \o X)) = X
  BY <1>1, <1>3, DropFirst
<1>9. n <= Len(F \o X)
  <2>1. Len(F \o X) = n + Len(X) /\ Len(X) \in Nat
    BY <1>1, <1>3, ConcatProperties, LenProperties
  <2> QED BY <1>3, <2>1
<1>10. n \in 1..Capacity
  BY <1>2, <1>3
<1> QED BY <1>7, <1>8, <1>9, <1>10

LEMMA PipeInit == Init => Pipe!Init
<1> SUFFICES ASSUME Init PROVE inbound = <<>>
  BY DEF Pipe!Init, inbound
<1>1. IInv
  BY InitInv
<1>2. in.loadsize = 0 /\ cache.loadsize = 0
  BY DEF Init, BufferInit
<1>3. InBuffer(in) = <<>> /\ InBuffer(cache) = <<>>
  BY <1>1, <1>2, QueuesAre
<1>4. InFifo \in Seq(PacketSet) /\ Len(InFifo) = 0
  <2>1. spi_rx_fifo.num_items = 0
    BY DEF Init, Fifo!FifoInit
  <2> QED BY <1>1, <2>1, InFifoIs DEF IInv
<1>5. InFifo = <<>>
  BY <1>4, EmptySeq
<1> QED BY <1>3, <1>4, <1>5, ConcatEmptySeq DEF inbound

LEMMA PipeStep == IInv /\ IInv' /\ [Next]_vars => [Pipe!Next]_(Pipe!vars)
<1> SUFFICES ASSUME IInv, IInv', [Next]_vars
             PROVE  Pipe!Next \/ inbound' = inbound
  BY DEF Pipe!vars, inbound
<1>1. ASSUME NEW m \in Messages, NEW n \in Lengths, NEW letIn \in BOOLEAN,
             Transfer(m, n, letIn)
      PROVE  Pipe!Next \/ inbound' = inbound
  <2>1. CASE inbound' = inbound \o PacketsOf[m]
    BY <2>1 DEF Pipe!Next, Pipe!Arrive, inbound
  <2> QED BY <1>1, <2>1, TransferArrives
<1>2. CASE DataInProcess
  <2>1. ASSUME NEW n \in 1..(Len(inbound) - Capacity),
               inbound' = SubSeq(inbound, 1, Capacity)
                            \o SubSeq(inbound, Capacity + n + 1, Len(inbound))
        PROVE  Pipe!Overflow
    BY <2>1 DEF Pipe!Overflow, inbound, Capacity
  <2> QED BY <1>2, <2>1, DataOverflows DEF Pipe!Next
<1>3. CASE readPacket
  <2>1. Pipe!Read
    BY <1>3, ReadTakesHead DEF Pipe!Read, inbound
  <2> QED BY <2>1 DEF Pipe!Next
<1>4. CASE clearRead
  <2>1. Pipe!ClearRead
    BY <1>4, ClearTakesFifo DEF Pipe!ClearRead, inbound, Capacity
  <2> QED BY <2>1 DEF Pipe!Next
<1>5. CASE \/ \E m \in Messages, n \in Lengths : TransferBroken(m, n)
           \/ TransferBusy \/ Poll \/ UNCHANGED vars
  BY <1>5, OthersStutter
<1> QED BY <1>1, <1>2, <1>3, <1>4, <1>5 DEF Next

(* The bytes are the packets that PacketPipe promises: whatever a transfer *)
(* before it left behind in a buffer, what readPacket gets is a packet of  *)
(* the master, each once, in order, and a valid one is lost only behind a  *)
(* full FIFO or by clearRead.                                              *)
THEOREM BytesImplementPipe == Spec => ImplementsPipe
<1>1. Init => Pipe!Init
  BY PipeInit
<1>2. IInv /\ IInv' /\ [Next]_vars => [Pipe!Next]_(Pipe!vars)
  BY PipeStep
<1> QED BY <1>1, <1>2, Invariance, PTL DEF Spec, ImplementsPipe, Pipe!Spec
=============================================================================
