-------------------------- MODULE MultiReportProofs --------------------------
(***************************************************************************)
(* Proofs about the report queue, for every depth of the FIFO, every       *)
(* length of header and reports, and any number of reports and of          *)
(* absences of the host: the FIFO's framing, the claim of the endpoint,    *)
(* the order in which the queued reports reach the host, and, for a host   *)
(* that stays ready, that they all do and what they tell it.               *)
(***************************************************************************)
EXTENDS MultiReport, SequenceTheorems, TLAPS

AllCodes == (UNION KeyboardReports) \cup Codes \cup {Button}
Vals == SUBSET AllCodes
IsMouse(r) == r.id = "mouse"

(* The queued reports are those with a number, and not the mouse's.        *)
Reports == {r \in [id : Ids, val : Vals, goal : Vals, n : Nat] :
              IsMouse(r) <=> r.n = None}

NoCell == [byte |-> 0]
Frames == [of : Reports, byte : Nat \ {0}]
Cells == {NoCell} \cup Frames
Fifos == [buf : [0..Depth - 1 -> Cells], rd : Indices, wr : Indices]

EpStates == {"free", "claimed", "busy"}
Devs == [connected : BOOLEAN, mounted : BOOLEAN, suspended : BOOLEAN,
         ep_in : BOOLEAN, hid : EpStates, ctl : EpStates]

SendingPcs == {"claim", "xfer", "settle"}

DataInv ==
  /\ todo \in Seq(Reports) /\ out \in Seq(Reports) /\ wire \in Seq(Reports)
  /\ ok \in BOOLEAN /\ disturbed \in BOOLEAN /\ over \in BOOLEAN
  /\ tx_ff_hid \in Fifos
  /\ dev \in Devs
  /\ host \in [val : [Ids -> Vals], n : Nat]
  /\ report \in [Ids -> Vals]
  /\ made \in Nat /\ queued \in Nat
  /\ pc = "mounted?" => todo # <<>>

(* A claim that is open belongs to the endpoint the transfer will use.     *)
ClaimInv ==
  /\ dev.hid = "claimed" => pc = "xfer" /\ dev.ep_in
  /\ dev.ctl = "claimed" => pc = "xfer" /\ ~dev.ep_in

(* The i-th of the bytes in the FIFO, from 0.                              *)
At(f, i) == f.buf[PtrOf(f.rd + i)]
FrameLen(r) == HeaderLen + DataLen(r.id)

(* From byte s on the FIFO has the frame of r.                             *)
HasFrame(f, s, r) ==
  /\ 0 <= s /\ s + FrameLen(r) <= Overflowable(f)
  /\ \A k \in 1..FrameLen(r) : At(f, s + k - 1) = [of |-> r, byte |-> k]

(* Every byte lies in the whole frame of a queued report.                  *)
Framed(f) ==
  /\ Overflowable(f) <= Depth
  /\ \A i \in 0..Overflowable(f) - 1 :
       LET c == At(f, i) IN
         /\ c \in Frames
         /\ ~IsMouse(c.of)
         /\ c.byte <= FrameLen(c.of)
         /\ HasFrame(f, i + 1 - c.byte, c.of)

FrameInv ==
  /\ pc \in SendingPcs /\ ~IsMouse(out[1]) => FrameLen(out[1]) <= Depth
  /\ ~over => /\ Framed(tx_ff_hid)
              /\ pc # "garbled"
              /\ pc \in SendingPcs /\ ~IsMouse(out[1]) =>
                   HasFrame(tx_ff_hid, 0, out[1])

(* The line of the queued reports to the host, which has seen number h: in *)
(* the endpoint's buffer w, in the FIFO f and with the caller, t; q is the *)
(* last number given.  The first sent bytes of the FIFO are on the wire    *)
(* already, or were.                                                       *)
Behind(h, w, n) == h < n /\ \A i \in 1..Len(w) : w[i].n < n

Line(h, w, f, sent, t, q) ==
  /\ h <= q
  /\ \A i \in 1..Len(w) : w[i].n <= q /\ (w[i].n # None => h < w[i].n)
  /\ \A i \in 0..Overflowable(f) - 1 :
       /\ At(f, i).of.n <= q
       /\ i >= sent => Behind(h, w, At(f, i).of.n)
       /\ At(f, i).byte = 1 =>
            \A k \in 0..i - 1 : At(f, k).of.n < At(f, i).of.n
  /\ \A j \in 1..Len(t) : t[j].n # None =>
       /\ t[j].n <= q
       /\ Behind(h, w, t[j].n)
       /\ \A i \in 0..Overflowable(f) - 1 : At(f, i).of.n < t[j].n
       /\ \A i \in 1..j - 1 : t[i].n < t[j].n

OrderInv ==
  ~over => Line(host.n, wire, tx_ff_hid, JustSent, todo, queued)

IInv == TypeOK /\ DataInv /\ ClaimInv /\ FrameInv /\ OrderInv

-----------------------------------------------------------------------------
(***************************************************************************)
(* The ring buffer's index arithmetic.                                     *)
(***************************************************************************)

LEMMA Division ==
  ASSUME NEW d \in Nat, d > 0, NEW x \in Int, NEW q \in Int,
         NEW r \in 0..d - 1, x = d * q + r
  PROVE  x % d = r
BY Z3T(30)

LEMMA Remainder ==
  ASSUME NEW x \in Int, NEW q \in Int, NEW r \in 0..Depth - 1,
         x = Depth * q + r
  PROVE  x % Depth = r
<1>1. Depth \in Nat /\ Depth > 0
  BY SMTT(60), DepthAssumption
<1> QED BY <1>1, Division

LEMMA PtrIs ==
  ASSUME NEW x \in 0..3 * Depth - 1
  PROVE  PtrOf(x) = IF x < Depth THEN x
                    ELSE IF x < 2 * Depth THEN x - Depth ELSE x - 2 * Depth
<1>1. CASE x < Depth
  <2>1. x \in 0..Depth - 1 /\ x = Depth * 0 + x
    BY <1>1, DepthAssumption
  <2>2. x % Depth = x
    BY <2>1, Remainder
  <2> QED BY <1>1, <2>2 DEF PtrOf
<1>2. CASE x >= Depth /\ x < 2 * Depth
  <2>1. x - Depth \in 0..Depth - 1 /\ x = Depth * 1 + (x - Depth)
    BY <1>2, DepthAssumption
  <2>2. x % Depth = x - Depth
    BY <2>1, Remainder
  <2> QED BY <1>2, <2>2, DepthAssumption DEF PtrOf
<1>3. CASE x >= 2 * Depth
  <2>1. x - 2 * Depth \in 0..Depth - 1 /\ x = Depth * 2 + (x - 2 * Depth)
    BY <1>3, DepthAssumption
  <2>2. x % Depth = x - 2 * Depth
    BY <2>1, Remainder
  <2> QED BY <1>3, <2>2, DepthAssumption DEF PtrOf
<1> QED BY <1>1, <1>2, <1>3, DepthAssumption

LEMMA DistanceIs ==
  ASSUME NEW p \in 0..Depth - 1, NEW q \in 0..Depth - 1
  PROVE  (p - q) % Depth = IF p >= q THEN p - q ELSE p - q + Depth
<1>1. CASE p >= q
  <2>1. p - q \in 0..Depth - 1 /\ p - q = Depth * 0 + (p - q)
    BY <1>1, DepthAssumption
  <2> QED BY <1>1, <2>1, Remainder
<1>2. CASE p < q
  <2>1. /\ p - q \in Int /\ p - q + Depth \in 0..Depth - 1
        /\ p - q = Depth * (-1) + (p - q + Depth)
    BY <1>2, DepthAssumption
  <2> QED BY <1>2, <2>1, Remainder
<1> QED BY <1>1, <1>2

LEMMA AdvanceIs ==
  ASSUME NEW x \in Indices, NEW k \in 0..2 * Depth
  PROVE  AdvanceIndex(x, k) =
           IF x + k >= 2 * Depth THEN x + k - 2 * Depth ELSE x + k
BY SMTT(60), DepthAssumption DEF Indices, AdvanceIndex, Wrap16

LEMMA AdvanceTyped ==
  ASSUME NEW x \in Indices, NEW k \in 0..2 * Depth
  PROVE  AdvanceIndex(x, k) \in Indices
<1>1. AdvanceIndex(x, k) =
        IF x + k >= 2 * Depth THEN x + k - 2 * Depth ELSE x + k
  BY AdvanceIs
<1> QED BY <1>1, DepthAssumption DEF Indices

LEMMA CountIs ==
  ASSUME NEW f \in Fifos
  PROVE  /\ f.rd \in 0..2 * Depth - 1 /\ f.wr \in 0..2 * Depth - 1
         /\ Overflowable(f) \in 0..2 * Depth - 1
         /\ f.wr = IF f.rd + Overflowable(f) >= 2 * Depth
                     THEN f.rd + Overflowable(f) - 2 * Depth
                     ELSE f.rd + Overflowable(f)
<1>1. f.rd \in 0..2 * Depth - 1 /\ f.wr \in 0..2 * Depth - 1
  BY DEF Fifos, Indices
<1> QED BY <1>1, DepthAssumption DEF Overflowable, CountBetween

(* A byte of the content from where the next one is written.               *)
LEMMA PlaceOf ==
  ASSUME NEW rd \in 0..2 * Depth - 1, NEW wr \in 0..2 * Depth - 1,
         NEW c \in 0..Depth, NEW i \in 0..Depth - 1,
         wr = IF rd + c >= 2 * Depth THEN rd + c - 2 * Depth ELSE rd + c
  PROVE  /\ PtrOf(rd + i) \in 0..Depth - 1
         /\ PtrOf(wr) \in 0..Depth - 1
         /\ (PtrOf(rd + i) - PtrOf(wr)) % Depth =
              IF i >= c THEN i - c ELSE i - c + Depth
<1>1. PICK x \in 0..3 * Depth - 1 : x = rd + i
  BY DepthAssumption
<1>2. PICK y \in 0..3 * Depth - 1 : y = wr
  BY DepthAssumption
<1>3. PtrOf(x) = IF x < Depth THEN x
                 ELSE IF x < 2 * Depth THEN x - Depth ELSE x - 2 * Depth
  BY PtrIs
<1>4. PtrOf(y) = IF y < Depth THEN y
                 ELSE IF y < 2 * Depth THEN y - Depth ELSE y - 2 * Depth
  BY PtrIs
<1> DEFINE p == PtrOf(x)
           q == PtrOf(y)
<1> HIDE DEF p, q
<1>5. p \in 0..Depth - 1 /\ q \in 0..Depth - 1
  BY <1>2, <1>3, <1>4, DepthAssumption DEF p, q
<1>6. (p - q) % Depth = IF p >= q THEN p - q ELSE p - q + Depth
  BY <1>5, DistanceIs
<1>7. (IF p >= q THEN p - q ELSE p - q + Depth)
        = IF i >= c THEN i - c ELSE i - c + Depth
  BY <1>1, <1>2, <1>3, <1>4, DepthAssumption DEF p, q
<1> QED BY <1>1, <1>2, <1>5, <1>6, <1>7 DEF p, q

LEMMA PlaceIs ==
  ASSUME NEW f \in Fifos, Overflowable(f) <= Depth, NEW i \in 0..Depth - 1
  PROVE  /\ PtrOf(f.rd + i) \in 0..Depth - 1
         /\ (PtrOf(f.rd + i) - PtrOf(f.wr)) % Depth =
              IF i >= Overflowable(f) THEN i - Overflowable(f)
                                      ELSE i - Overflowable(f) + Depth
<1>1. PICK rd \in 0..2 * Depth - 1, wr \in 0..2 * Depth - 1, c \in 0..Depth :
        /\ rd = f.rd /\ wr = f.wr /\ c = Overflowable(f)
        /\ wr = IF rd + c >= 2 * Depth THEN rd + c - 2 * Depth ELSE rd + c
  <2>1. Overflowable(f) \in 0..Depth
    BY CountIs, DepthAssumption
  <2> QED BY <2>1, CountIs
<1> QED BY <1>1, PlaceOf

-----------------------------------------------------------------------------
(***************************************************************************)
(* What the FIFO's operations do to its content.                           *)
(***************************************************************************)

LEMMA WriteTyped ==
  ASSUME NEW f \in Fifos, NEW data \in Seq(Cells)
  PROVE  WriteN(f, data) \in Fifos /\ WriteN(f, data).rd = f.rd
<1> DEFINE n == IF Len(data) > Depth THEN Depth ELSE Len(data)
           wr == WriteIndex(f, Len(data))
           b == [p \in 0..Depth - 1 |->
                   LET i == (p - PtrOf(wr)) % Depth IN
                     IF i < n THEN data[Len(data) - n + 1 + i] ELSE f.buf[p]]
<1>1. CASE n = 0
  BY <1>1 DEF WriteN, Fifos
<1>2. CASE n # 0
  <2>1. Len(data) \in Nat /\ n \in 1..Depth /\ n <= Len(data)
    BY <1>2, DepthAssumption
  <2>2. f.rd \in Indices /\ f.wr \in Indices
        /\ f.buf \in [0..Depth - 1 -> Cells]
    BY DEF Fifos
  <2>3. wr \in Indices
    <3>1. Len(data) < Depth => AdvanceIndex(f.rd, Depth - Len(data)) \in Indices
      <4> SUFFICES ASSUME Len(data) < Depth
                   PROVE  AdvanceIndex(f.rd, Depth - Len(data)) \in Indices
        OBVIOUS
      <4>1. PICK k \in 0..2 * Depth : k = Depth - Len(data)
        BY <2>1, DepthAssumption
      <4> QED BY <2>2, <4>1, AdvanceTyped
    <3> QED BY <2>1, <2>2, <3>1, DepthAssumption DEF WriteIndex
  <2> HIDE DEF wr
  <2>4. AdvanceIndex(wr, n) \in Indices
    <3>1. n \in 0..2 * Depth
      BY <2>1, DepthAssumption
    <3> HIDE DEF n
    <3> QED BY <2>3, <3>1, AdvanceTyped
  <2>5. ASSUME NEW p \in 0..Depth - 1 PROVE b[p] \in Cells
    <3> DEFINE i == (p - PtrOf(wr)) % Depth
    <3>1. PtrOf(wr) \in 0..Depth - 1
      BY <2>3, PtrIs, DepthAssumption DEF Indices
    <3>2. i \in 0..Depth - 1
      BY <3>1, DistanceIs, DepthAssumption
    <3> HIDE DEF i, n
    <3>3. i < n => Len(data) - n + 1 + i \in 1..Len(data)
      BY <2>1, <3>2
    <3>4. i < n => data[Len(data) - n + 1 + i] \in Cells
      BY <3>3, ElementOfSeq
    <3>5. f.buf[p] \in Cells
      BY <2>2
    <3> QED BY <3>4, <3>5 DEF i
  <2>6. b \in [0..Depth - 1 -> Cells]
    BY <2>5
  <2>7. WriteN(f, data) = [f EXCEPT !.wr = AdvanceIndex(wr, n), !.buf = b]
    BY <1>2 DEF WriteN, wr
  <2> HIDE DEF b, n
  <2> QED BY <2>2, <2>4, <2>6, <2>7 DEF Fifos
<1> QED BY <1>1, <1>2

(* Data there is room for comes behind what is there.                      *)
LEMMA WriteAppends ==
  ASSUME NEW f \in Fifos, NEW data \in Seq(Cells),
         Overflowable(f) + Len(data) <= Depth
  PROVE  LET g == WriteN(f, data)
         IN  /\ Overflowable(g) = Overflowable(f) + Len(data)
             /\ \A i \in 0..Overflowable(f) - 1 : At(g, i) = At(f, i)
             /\ \A k \in 1..Len(data) :
                  At(g, Overflowable(f) + k - 1) = data[k]
<1>1. PICK rd \in 0..2 * Depth - 1, wr \in 0..2 * Depth - 1,
           c \in 0..Depth, n \in 0..Depth :
        /\ rd = f.rd /\ wr = f.wr /\ c = Overflowable(f) /\ n = Len(data)
        /\ wr = IF rd + c >= 2 * Depth THEN rd + c - 2 * Depth ELSE rd + c
  <2>1. Overflowable(f) \in 0..Depth /\ Len(data) \in 0..Depth
    BY CountIs, LenProperties, DepthAssumption
  <2> QED BY <2>1, CountIs
<1>2. c + n <= Depth
  BY <1>1
<1> DEFINE g == WriteN(f, data)
<1>3. CASE n = 0
  <2>1. (IF Len(data) > Depth THEN Depth ELSE Len(data)) = 0
    BY <1>1, <1>3, DepthAssumption
  <2>2. g = f
    BY <2>1 DEF WriteN
  <2> QED BY <1>1, <1>3, <2>2
<1>4. CASE n # 0
  <2>1. WriteIndex(f, n) = wr
    <3>1. n >= Depth => c = 0
      BY <1>2, DepthAssumption
    <3>2. c = 0 => wr = rd
      BY <1>1, DepthAssumption
    <3>3. ~(c + n >= 2 * Depth)
      BY <1>2, DepthAssumption
    <3> QED BY <1>1, <3>1, <3>2, <3>3 DEF WriteIndex
  <2>2. (IF Len(data) > Depth THEN Depth ELSE Len(data)) = n
    BY <1>1, DepthAssumption
  <2>3. g = [f EXCEPT !.wr = AdvanceIndex(wr, n),
                      !.buf = [p \in 0..Depth - 1 |->
                                 LET i == (p - PtrOf(wr)) % Depth IN
                                   IF i < n THEN data[Len(data) - n + 1 + i]
                                            ELSE f.buf[p]]]
    BY <1>1, <1>4, <2>1, <2>2 DEF WriteN
  <2>4. /\ g.rd = rd /\ g.wr = AdvanceIndex(wr, n)
        /\ \A p \in 0..Depth - 1 :
             g.buf[p] = LET i == (p - PtrOf(wr)) % Depth IN
                          IF i < n THEN data[Len(data) - n + 1 + i]
                                   ELSE f.buf[p]
    BY <1>1, <2>3 DEF Fifos
  <2> HIDE DEF g
  <2>5. AdvanceIndex(wr, n) = IF wr + n >= 2 * Depth THEN wr + n - 2 * Depth
                                                     ELSE wr + n
    <3>1. wr \in Indices /\ n \in 0..2 * Depth
      BY DepthAssumption DEF Indices
    <3> QED BY <3>1, AdvanceIs
  <2>6. Overflowable(g) = c + n
    <3>0. (IF wr + n >= 2 * Depth THEN wr + n - 2 * Depth ELSE wr + n)
            \in 0..2 * Depth - 1
      BY DepthAssumption
    <3>1. PICK w \in 0..2 * Depth - 1 :
            w = (IF wr + n >= 2 * Depth THEN wr + n - 2 * Depth ELSE wr + n)
      BY <3>0
    <3>2. CountBetween(w, rd) = c + n
      <4>1. wr = IF rd + c >= 2 * Depth THEN rd + c - 2 * Depth ELSE rd + c
        BY <1>1
      <4> QED BY SMTT(60), <1>2, <3>1, <4>1, DepthAssumption DEF CountBetween
    <3> QED BY <2>4, <2>5, <3>1, <3>2 DEF Overflowable
  <2>7. ASSUME NEW i \in 0..Depth - 1
        PROVE  /\ i < c => At(g, i) = At(f, i)
               /\ i >= c /\ i < c + n => At(g, i) = data[i - c + 1]
    <3> DEFINE p == PtrOf(rd + i)
               d == (p - PtrOf(wr)) % Depth
    <3>0. wr = IF rd + c >= 2 * Depth THEN rd + c - 2 * Depth ELSE rd + c
      BY <1>1
    <3>1. p \in 0..Depth - 1 /\ d = IF i >= c THEN i - c ELSE i - c + Depth
      BY <3>0, PlaceOf
    <3>2. g.buf[p] = IF d < n THEN data[Len(data) - n + 1 + d] ELSE f.buf[p]
      BY <2>4, <3>1
    <3>3. At(f, i) = f.buf[p] /\ At(g, i) = g.buf[p]
      BY <1>1, <2>4 DEF At
    <3> HIDE DEF p, d
    <3>4. ASSUME i >= c, i < c + n PROVE At(g, i) = data[i - c + 1]
      <4>1. d < n /\ n - n + 1 + d = i - c + 1
        BY <3>1, <3>4
      <4> QED BY <1>1, <3>2, <3>3, <4>1
    <3>5. ASSUME i < c PROVE At(g, i) = At(f, i)
      <4>1. d = i - c + Depth /\ ~(i - c + Depth < n)
        BY <1>2, <3>1, <3>5, DepthAssumption
      <4> QED BY <3>2, <3>3, <4>1
    <3> QED BY <3>4, <3>5
  <2>8. \A i \in 0..c - 1 : At(g, i) = At(f, i)
    <3> SUFFICES ASSUME NEW i \in 0..c - 1 PROVE At(g, i) = At(f, i)
      OBVIOUS
    <3>1. i \in 0..Depth - 1 /\ i < c
      BY DepthAssumption
    <3> QED BY <2>7, <3>1
  <2>9. ASSUME NEW k \in 1..n PROVE At(g, c + k - 1) = data[k]
    <3>1. PICK i \in 0..Depth - 1 : i = c + k - 1
      BY <1>2, DepthAssumption
    <3>2. i >= c /\ i < c + n /\ i - c + 1 = k
      BY <3>1
    <3> QED BY <2>7, <3>1, <3>2
  <2> QED BY <1>1, <2>6, <2>8, <2>9 DEF g
<1> QED BY <1>3, <1>4

LEMMA ReadTyped ==
  ASSUME NEW f \in Fifos, NEW k \in 0..2 * Depth
  PROVE  AdvanceReadPointer(f, k) \in Fifos
<1>1. f.rd \in Indices
  BY DEF Fifos
<1>2. AdvanceIndex(f.rd, k) \in Indices
  BY <1>1, AdvanceTyped
<1> QED BY <1>2 DEF AdvanceReadPointer, Fifos

(* What is read makes room, and the rest moves up.                         *)
LEMMA ReadDrops ==
  ASSUME NEW f \in Fifos, Overflowable(f) <= Depth,
         NEW k \in 0..Overflowable(f)
  PROVE  LET g == AdvanceReadPointer(f, k)
         IN  /\ Overflowable(g) = Overflowable(f) - k
             /\ \A i \in 0..Overflowable(g) - 1 : At(g, i) = At(f, i + k)
<1>1. PICK rd \in 0..2 * Depth - 1, wr \in 0..2 * Depth - 1, c \in 0..Depth :
        /\ rd = f.rd /\ wr = f.wr /\ c = Overflowable(f)
        /\ wr = IF rd + c >= 2 * Depth THEN rd + c - 2 * Depth ELSE rd + c
  <2>1. Overflowable(f) \in 0..Depth
    BY CountIs, DepthAssumption
  <2> QED BY <2>1, CountIs
<1> DEFINE g == AdvanceReadPointer(f, k)
<1>2. k \in 0..c /\ k \in 0..2 * Depth
  BY <1>1, DepthAssumption
<1>0. (IF rd + k >= 2 * Depth THEN rd + k - 2 * Depth ELSE rd + k)
        \in 0..2 * Depth - 1
  BY <1>2, DepthAssumption
<1>3. PICK r \in 0..2 * Depth - 1 :
        r = IF rd + k >= 2 * Depth THEN rd + k - 2 * Depth ELSE rd + k
  BY <1>0
<1>4. AdvanceIndex(rd, k) = r
  <2>1. rd \in Indices
    BY DEF Indices
  <2> QED BY <1>2, <1>3, <2>1, AdvanceIs
<1>5. g.buf = f.buf /\ g.wr = wr /\ g.rd = r
  BY <1>1, <1>4 DEF AdvanceReadPointer, Fifos
<1> HIDE DEF g
<1>6. Overflowable(g) = c - k
  <2>1. CountBetween(wr, r) = c - k
    BY <1>1, <1>2, <1>3, DepthAssumption DEF CountBetween
  <2> QED BY <1>5, <2>1 DEF Overflowable
<1>7. ASSUME NEW i \in 0..c - k - 1 PROVE At(g, i) = At(f, i + k)
  <2>0. r + i \in 0..3 * Depth - 1 /\ rd + (i + k) \in 0..3 * Depth - 1
    BY <1>2, DepthAssumption
  <2>1. PICK x \in 0..3 * Depth - 1, y \in 0..3 * Depth - 1 :
          x = r + i /\ y = rd + (i + k)
    BY <2>0
  <2>2. /\ PtrOf(x) = IF x < Depth THEN x
                      ELSE IF x < 2 * Depth THEN x - Depth ELSE x - 2 * Depth
        /\ PtrOf(y) = IF y < Depth THEN y
                      ELSE IF y < 2 * Depth THEN y - Depth ELSE y - 2 * Depth
    BY PtrIs
  <2>3. PtrOf(x) = PtrOf(y)
    BY <1>2, <1>3, <2>1, <2>2, DepthAssumption
  <2> QED BY <1>1, <1>5, <2>1, <2>3 DEF At
<1> QED BY <1>1, <1>6, <1>7 DEF g

LEMMA PeekIs ==
  ASSUME NEW f \in Fifos, Overflowable(f) <= Depth,
         NEW n \in 0..Overflowable(f)
  PROVE  PeekN(f, n) = [i \in 1..n |-> At(f, i - 1)]
<1>1. PICK c \in 0..Depth, rd \in Nat : c = Overflowable(f) /\ rd = f.rd
  BY CountIs, DepthAssumption
<1>2. CorrectReadIndex(f) = f /\ FifoCount(f) = c
  <2>1. Overflowable(f) <= Depth /\ ~(Overflowable(f) > Depth)
    BY <1>1, DepthAssumption
  <2> QED BY <1>1, <2>1 DEF CorrectReadIndex, FifoCount
<1>3. (IF n < c THEN n ELSE c) = n
  BY <1>1
<1>4. \A i \in 1..n : rd + i - 1 = rd + (i - 1)
  BY <1>1
<1> QED BY <1>1, <1>2, <1>3, <1>4 DEF PeekN, At

(* The same for a FIFO that was overwritten, and for more than there is.   *)
LEMMA CorrectedIs ==
  ASSUME NEW f \in Fifos
  PROVE  LET g == CorrectReadIndex(f)
         IN  /\ g \in Fifos /\ Overflowable(g) \in 0..Depth
             /\ FifoCount(f) = Overflowable(g) /\ FifoCount(g) = Overflowable(g)
             /\ Overflowable(f) <= Depth => g = f
<1>1. PICK c \in 0..2 * Depth - 1, rd \in 0..2 * Depth - 1,
           wr \in 0..2 * Depth - 1 :
        c = Overflowable(f) /\ rd = f.rd /\ wr = f.wr
  BY CountIs
<1> DEFINE g == CorrectReadIndex(f)
<1>2. CASE c <= Depth
  <2>1. ~(c > Depth)
    BY <1>2, DepthAssumption
  <2>2. g = f /\ FifoCount(f) = c
    BY <1>1, <1>2, <2>1 DEF CorrectReadIndex, FifoCount
  <2>3. c \in 0..Depth
    BY <1>2, DepthAssumption
  <2> QED BY <1>1, <2>2, <2>3
<1>3. CASE ~(c <= Depth)
  <2>1. c > Depth
    BY <1>3, DepthAssumption
  <2>2. (IF wr >= Depth THEN wr - Depth ELSE wr + Depth) \in 0..2 * Depth - 1
    BY DepthAssumption
  <2>3. PICK r \in 0..2 * Depth - 1 :
          r = IF wr >= Depth THEN wr - Depth ELSE wr + Depth
    BY <2>2
  <2>4. g = [f EXCEPT !.rd = r]
    BY <1>1, <1>3, <2>3 DEF CorrectReadIndex
  <2>5. g \in Fifos /\ g.rd = r /\ g.wr = wr
    BY <1>1, <2>4 DEF Fifos, Indices
  <2>6. CountBetween(wr, r) = Depth
    BY <2>3, DepthAssumption DEF CountBetween
  <2>7. Overflowable(g) = Depth /\ FifoCount(f) = Depth
    BY <1>1, <2>1, <2>5, <2>6 DEF Overflowable, FifoCount
  <2>8. FifoCount(g) = Depth /\ Depth \in 0..Depth
    BY <2>7, DepthAssumption DEF FifoCount
  <2> QED BY <1>1, <1>3, <2>5, <2>7, <2>8
<1> QED BY <1>2, <1>3

LEMMA PeekAny ==
  ASSUME NEW f \in Fifos, NEW n \in Nat
  PROVE  LET g == CorrectReadIndex(f)
             m == IF n < Overflowable(g) THEN n ELSE Overflowable(g)
         IN  /\ PeekN(f, n) = [i \in 1..m |-> g.buf[PtrOf(g.rd + i - 1)]]
             /\ m \in 0..Depth /\ m <= n
             /\ \A i \in 1..m : g.buf[PtrOf(g.rd + i - 1)] \in Cells
<1> DEFINE g == CorrectReadIndex(f)
<1>1. /\ g \in Fifos /\ FifoCount(g) = Overflowable(g)
      /\ Overflowable(g) \in 0..Depth
  BY CorrectedIs
<1>2. PICK c \in 0..Depth, rd \in 0..2 * Depth - 1 :
        c = Overflowable(g) /\ rd = g.rd
  BY <1>1, CountIs
<1> DEFINE m == IF n < c THEN n ELSE c
<1>3. PeekN(f, n) = [i \in 1..m |-> g.buf[PtrOf(g.rd + i - 1)]]
  BY <1>1, <1>2 DEF PeekN
<1>4. m \in 0..Depth /\ m <= n
  <2>1. CASE n < c
    <3>1. m = n /\ n \in 0..Depth
      BY <2>1, DepthAssumption
    <3> QED BY <3>1
  <2>2. CASE ~(n < c)
    <3>1. m = c /\ c <= n
      BY <2>2, DepthAssumption
    <3> QED BY <3>1
  <2> QED BY <2>1, <2>2
<1> HIDE DEF g, m
<1>5. ASSUME NEW i \in 1..m PROVE g.buf[PtrOf(g.rd + i - 1)] \in Cells
  <2>1. PICK x \in 0..3 * Depth - 1 : x = rd + i - 1
    <3>1. rd + i - 1 \in 0..3 * Depth - 1
      BY <1>4, DepthAssumption
    <3> QED BY <3>1
  <2>2. PtrOf(x) \in 0..Depth - 1
    <3>1. PtrOf(x) = IF x < Depth THEN x
                     ELSE IF x < 2 * Depth THEN x - Depth ELSE x - 2 * Depth
      BY PtrIs
    <3> QED BY <3>1, DepthAssumption
  <2> QED BY <1>1, <1>2, <2>1, <2>2 DEF Fifos
<1> QED BY <1>2, <1>3, <1>4, <1>5 DEF g, m

-----------------------------------------------------------------------------
(***************************************************************************)
(* The frames of the reports.                                              *)
(***************************************************************************)

LEMMA FrameIs ==
  ASSUME NEW r \in Reports
  PROVE  /\ FrameLen(r) \in Nat \ {0} /\ DataLen(r.id) \in Nat
         /\ Len(FrameOf(r)) = FrameLen(r)
         /\ FrameOf(r) = [k \in 1..FrameLen(r) |-> [of |-> r, byte |-> k]]
         /\ FrameOf(r) \in Seq(Cells)
<1>1. DataLen(r.id) \in Nat /\ HeaderLen \in Nat \ {0}
  BY HidAssumption DEF Reports
<1>2. FrameLen(r) \in Nat \ {0}
  BY <1>1 DEF FrameLen
<1>3. FrameOf(r) = [k \in 1..FrameLen(r) |-> [of |-> r, byte |-> k]]
  BY DEF FrameOf, FrameLen
<1> DEFINE n == FrameLen(r)
<1> HIDE DEF n
<1>4. \A k \in 1..n : [of |-> r, byte |-> k] \in Cells
  BY DEF Cells, Frames
<1>5. [k \in 1..n |-> [of |-> r, byte |-> k]] \in Seq(Cells)
  BY <1>2, <1>4 DEF n
<1>6. Len([k \in 1..n |-> [of |-> r, byte |-> k]]) = n
  BY <1>2 DEF n
<1> QED BY <1>1, <1>2, <1>3, <1>5, <1>6 DEF n

LEMMA PartsOfFrame ==
  ASSUME NEW r \in Reports
  PROVE  /\ Header(r) \in Seq(Cells) /\ Data(r) \in Seq(Cells)
         /\ Len(Header(r)) = HeaderLen /\ Len(Data(r)) = DataLen(r.id)
         /\ \A k \in 1..HeaderLen : Header(r)[k] = [of |-> r, byte |-> k]
         /\ \A k \in 1..DataLen(r.id) :
              Data(r)[k] = [of |-> r, byte |-> HeaderLen + k]
<1>1. PICK h \in Nat \ {0}, d \in Nat : h = HeaderLen /\ d = DataLen(r.id)
  BY FrameIs, HidAssumption
<1>2. /\ FrameOf(r) = [k \in 1..h + d |-> [of |-> r, byte |-> k]]
      /\ FrameOf(r) \in Seq(Cells) /\ Len(FrameOf(r)) = h + d
  BY <1>1, FrameIs DEF FrameLen
<1> DEFINE s == FrameOf(r)
<1> HIDE DEF s
<1>3. \A k \in 1..h + d : s[k] \in Cells /\ s[k] = [of |-> r, byte |-> k]
  BY <1>2, ElementOfSeq DEF s
<1>4. /\ SubSeq(s, 1, h) \in Seq(Cells) /\ Len(SubSeq(s, 1, h)) = h
      /\ \A k \in 1..h : SubSeq(s, 1, h)[k] = s[k]
  <2>1. \A k \in 1..h : s[k] \in Cells
    <3>1. \A k \in 1..h : k \in 1..h + d
      OBVIOUS
    <3> QED BY <1>3, <3>1
  <2>2. SubSeq(s, 1, h) = [k \in 1..h |-> s[k]]
    OBVIOUS
  <2> QED BY <2>1, <2>2
<1>5. /\ SubSeq(s, h + 1, h + d) \in Seq(Cells)
      /\ Len(SubSeq(s, h + 1, h + d)) = d
      /\ \A k \in 1..d : SubSeq(s, h + 1, h + d)[k] = s[h + k]
  <2>1. \A k \in 1..d : s[h + k] \in Cells
    <3>1. \A k \in 1..d : h + k \in 1..h + d
      OBVIOUS
    <3> QED BY <1>3, <3>1
  <2>2. SubSeq(s, h + 1, h + d) = [k \in 1..d |-> s[h + k]]
    OBVIOUS
  <2> QED BY <2>1, <2>2
<1>6. Header(r) = SubSeq(s, 1, h) /\ Data(r) = SubSeq(s, h + 1, h + d)
  BY <1>1, <1>2 DEF Header, Data, s
<1>7. \A k \in 1..d : h + k \in 1..h + d
  OBVIOUS
<1>8. \A k \in 1..h : k \in 1..h + d
  OBVIOUS
<1> QED BY <1>1, <1>3, <1>4, <1>5, <1>6, <1>7, <1>8

(* A queued report comes as a whole frame behind the others.               *)
LEMMA QueueTyped ==
  ASSUME NEW f \in Fifos, NEW r \in Reports
  PROVE  WriteN(WriteN(f, Header(r)), Data(r)) \in Fifos
BY PartsOfFrame, WriteTyped

LEMMA QueueAppends ==
  ASSUME NEW f \in Fifos, NEW r \in Reports,
         Overflowable(f) + FrameLen(r) <= Depth
  PROVE  LET g == WriteN(WriteN(f, Header(r)), Data(r))
         IN  /\ Overflowable(g) = Overflowable(f) + FrameLen(r)
             /\ \A i \in 0..Overflowable(f) - 1 : At(g, i) = At(f, i)
             /\ \A k \in 1..FrameLen(r) :
                  At(g, Overflowable(f) + k - 1) = [of |-> r, byte |-> k]
<1> DEFINE e == WriteN(f, Header(r))
           g == WriteN(e, Data(r))
<1>1. PICK h \in Nat \ {0}, d \in Nat, c \in Nat :
        /\ h = HeaderLen /\ d = DataLen(r.id) /\ c = Overflowable(f)
        /\ FrameLen(r) = h + d
  <2>1. /\ HeaderLen \in Nat \ {0} /\ DataLen(r.id) \in Nat
        /\ Overflowable(f) \in Nat
    BY FrameIs, HidAssumption, CountIs, DepthAssumption
  <2> QED BY <2>1 DEF FrameLen
<1>2. c + h + d <= Depth
  BY <1>1
<1>3. /\ Header(r) \in Seq(Cells) /\ Data(r) \in Seq(Cells)
      /\ Len(Header(r)) = h /\ Len(Data(r)) = d
      /\ \A k \in 1..h : Header(r)[k] = [of |-> r, byte |-> k]
      /\ \A k \in 1..d : Data(r)[k] = [of |-> r, byte |-> h + k]
  BY <1>1, PartsOfFrame
<1>4. c + h <= Depth /\ (c + h) + d <= Depth
  BY <1>2, DepthAssumption
<1>5. /\ e \in Fifos /\ Overflowable(e) = c + h
      /\ \A i \in 0..c - 1 : At(e, i) = At(f, i)
      /\ \A k \in 1..h : At(e, c + k - 1) = Header(r)[k]
  <2>1. Overflowable(f) + Len(Header(r)) <= Depth
    BY <1>1, <1>3, <1>4
  <2>2. Header(r) \in Seq(Cells)
    BY <1>3
  <2>3. /\ Overflowable(e) = Overflowable(f) + Len(Header(r))
        /\ \A i \in 0..Overflowable(f) - 1 : At(e, i) = At(f, i)
        /\ \A k \in 1..Len(Header(r)) :
             At(e, Overflowable(f) + k - 1) = Header(r)[k]
    BY <2>1, <2>2, WriteAppends
  <2>4. e \in Fifos
    BY <2>2, WriteTyped
  <2> QED BY <1>1, <1>3, <2>3, <2>4
<1> HIDE DEF e
<1>6. /\ Overflowable(g) = (c + h) + d
      /\ \A i \in 0..(c + h) - 1 : At(g, i) = At(e, i)
      /\ \A k \in 1..d : At(g, (c + h) + k - 1) = Data(r)[k]
  <2>1. Overflowable(e) + Len(Data(r)) <= Depth
    BY <1>3, <1>4, <1>5
  <2>2. Data(r) \in Seq(Cells) /\ e \in Fifos
    BY <1>3, <1>5
  <2>3. /\ Overflowable(g) = Overflowable(e) + Len(Data(r))
        /\ \A i \in 0..Overflowable(e) - 1 : At(g, i) = At(e, i)
        /\ \A k \in 1..Len(Data(r)) :
             At(g, Overflowable(e) + k - 1) = Data(r)[k]
    BY <2>1, <2>2, WriteAppends
  <2> HIDE DEF g
  <2> QED BY <1>3, <1>5, <2>3
<1> HIDE DEF g
<1>7. ASSUME NEW i \in 0..c - 1 PROVE At(g, i) = At(f, i)
  BY <1>5, <1>6
<1>8. ASSUME NEW k \in 1..h + d
      PROVE  At(g, c + k - 1) = [of |-> r, byte |-> k]
  <2>1. CASE k <= h
    <3>1. k \in 1..h /\ c + k - 1 \in 0..(c + h) - 1
      BY <2>1
    <3> QED BY <1>3, <1>5, <1>6, <3>1
  <2>2. CASE k > h
    <3>1. PICK j \in 1..d : k = h + j
      <4>1. k - h \in 1..d /\ k = h + (k - h)
        BY <2>2
      <4> QED BY <4>1
    <3>2. c + k - 1 = (c + h) + j - 1
      BY <3>1
    <3> QED BY <1>3, <1>6, <3>1, <3>2
  <2> QED BY <2>1, <2>2
<1>9. Overflowable(g) = c + (h + d)
  BY <1>6
<1> QED BY <1>1, <1>7, <1>8, <1>9 DEF g, e

(* Whatever is read as a whole frame was no longer than the FIFO.          *)
LEMMA HeadTyped ==
  ASSUME NEW f \in Fifos, FifoCount(f) # 0, IsWhole(HeadFrame(f))
  PROVE  /\ HeadFrame(f)[1].of \in Reports
         /\ FrameLen(HeadFrame(f)[1].of) <= Depth
<1> DEFINE g == CorrectReadIndex(f)
           x == g.buf[PtrOf(g.rd + 1 - 1)]
           first == PeekN(f, 1)[1]
<1>1. PICK c \in 0..Depth : c = Overflowable(g) /\ c # 0
  BY CorrectedIs
<1>2. first = x /\ x \in Cells
  <2>1. (IF 1 < c THEN 1 ELSE c) = 1
    BY <1>1
  <2>2. PeekN(f, 1) = [i \in 1..1 |-> g.buf[PtrOf(g.rd + i - 1)]]
    BY <1>1, <2>1, PeekAny
  <2>3. \A i \in 1..1 : g.buf[PtrOf(g.rd + i - 1)] \in Cells
    BY <1>1, <2>1, PeekAny
  <2> QED BY <2>2, <2>3
<1>3. CASE first.byte = 1
  <2>1. x \in Frames
    BY <1>2, <1>3 DEF Cells, NoCell
  <2>2. x.of \in Reports
    BY <2>1 DEF Frames
  <2>3. PICK l \in Nat \ {0} : l = FrameLen(x.of)
    BY <2>2, FrameIs
  <2> DEFINE m == IF l < c THEN l ELSE c
             frame == PeekN(f, l)
  <2>4. HeadFrame(f) = frame
    BY <1>2, <1>3, <2>2, <2>3, FrameIs DEF HeadFrame
  <2>5. /\ frame = [i \in 1..m |-> g.buf[PtrOf(g.rd + i - 1)]]
    BY <1>1, PeekAny
  <2>6. m \in 1..Depth
    <3>1. CASE l < c
      <4>1. l \in 1..Depth
        BY <1>1, <3>1, DepthAssumption
      <4> QED BY <3>1, <4>1
    <3>2. CASE ~(l < c)
      <4>1. c \in 1..Depth
        BY <1>1, DepthAssumption
      <4> QED BY <3>2, <4>1
    <3> QED BY <3>1, <3>2
  <2> HIDE DEF m, x
  <2>7. frame[1] = x
    BY <2>5, <2>6 DEF x
  <2>8. Len(frame) = m
    BY <2>5, <2>6
  <2>9. Len(frame) = l
    BY <2>2, <2>3, <2>4, <2>7, FrameIs DEF IsWhole
  <2>10. l <= Depth
    BY <2>6, <2>8, <2>9
  <2> HIDE DEF frame
  <2> QED BY <2>2, <2>3, <2>4, <2>7, <2>10
<1>4. CASE first.byte # 1
  <2>1. HeadFrame(f) = <<first>>
    BY <1>4 DEF HeadFrame
  <2>2. HeadFrame(f)[1] = first
    BY <2>1
  <2> QED BY <1>4, <2>2 DEF IsWhole
<1> QED BY <1>3, <1>4

(* In a FIFO that is framed the next report is found whole.                *)
LEMMA HeadWhole ==
  ASSUME NEW f \in Fifos, Framed(f), Overflowable(f) # 0
  PROVE  LET r == At(f, 0).of
         IN  /\ r \in Reports /\ ~IsMouse(r) /\ HasFrame(f, 0, r)
             /\ IsWhole(HeadFrame(f)) /\ HeadFrame(f)[1].of = r
<1>1. PICK c \in 1..Depth : c = Overflowable(f)
  <2>1. Overflowable(f) \in 1..Depth
    BY CountIs, DepthAssumption DEF Framed
  <2> QED BY <2>1
<1> DEFINE x == At(f, 0)
           r == x.of
<1>2. 0 \in 0..Overflowable(f) - 1
  BY <1>1
<1>3. /\ x \in Frames /\ ~IsMouse(r)
      /\ HasFrame(f, 0 + 1 - x.byte, r)
  BY <1>2 DEF Framed
<1>4. x.byte \in Nat \ {0} /\ r \in Reports
  BY <1>3 DEF Frames
<1>5. x.byte = 1 /\ HasFrame(f, 0, r)
  <2>1. 0 <= 0 + 1 - x.byte
    BY <1>3 DEF HasFrame
  <2>2. x.byte = 1 /\ 0 + 1 - x.byte = 0
    BY <1>4, <2>1
  <2> QED BY <1>3, <2>2
<1>6. PICK l \in 1..c : /\ l = FrameLen(r) /\ l <= Overflowable(f)
                        /\ \A k \in 1..l :
                             At(f, 0 + k - 1) = [of |-> r, byte |-> k]
  <2>1. FrameLen(r) \in Nat \ {0}
    BY <1>4, FrameIs
  <2>2. FrameLen(r) \in 1..c
    BY <1>1, <1>5, <2>1 DEF HasFrame
  <2> QED BY <1>1, <1>5, <2>2 DEF HasFrame
<1> HIDE DEF x
<1>7. PeekN(f, 1)[1] = x
  <2>1. 1 \in 0..Overflowable(f)
    BY <1>1
  <2>2. PeekN(f, 1) = [i \in 1..1 |-> At(f, i - 1)]
    BY <2>1, PeekIs DEF Framed
  <2> QED BY <2>2 DEF x
<1>8. HeadFrame(f) = PeekN(f, l)
  <2>1. Len(FrameOf(r)) = l
    BY <1>4, <1>6, FrameIs
  <2> QED BY <1>5, <1>7, <2>1 DEF HeadFrame
<1>9. PeekN(f, l) = [i \in 1..l |-> At(f, i - 1)]
  <2>1. l \in 0..Overflowable(f)
    BY <1>1
  <2> QED BY <2>1, PeekIs DEF Framed
<1>10. \A k \in 1..l : At(f, k - 1) = [of |-> r, byte |-> k]
  <2>1. \A k \in 1..l : 0 + k - 1 = k - 1
    OBVIOUS
  <2> QED BY <1>6, <2>1
<1>11. PeekN(f, l) = FrameOf(r)
  BY <1>4, <1>6, <1>9, <1>10, FrameIs
<1>12. FrameOf(r)[1] = [of |-> r, byte |-> 1]
  BY <1>4, <1>6, FrameIs
<1> HIDE DEF r
<1>13. HeadFrame(f)[1] = [of |-> r, byte |-> 1] /\ HeadFrame(f) = FrameOf(r)
  BY <1>8, <1>11, <1>12
<1>14. IsWhole(HeadFrame(f)) /\ HeadFrame(f)[1].of = r
  BY <1>13 DEF IsWhole
<1> QED BY <1>3, <1>4, <1>5, <1>14 DEF r, x

LEMMA QueueFramed ==
  ASSUME NEW f \in Fifos, NEW r \in Reports, Framed(f), ~IsMouse(r),
         Overflowable(f) + FrameLen(r) <= Depth
  PROVE  Framed(WriteN(WriteN(f, Header(r)), Data(r)))
<1> DEFINE g == WriteN(WriteN(f, Header(r)), Data(r))
<1>1. PICK c \in 0..Depth, l \in 1..Depth :
        c = Overflowable(f) /\ l = FrameLen(r) /\ c + l <= Depth
  <2>1. Overflowable(f) \in Nat /\ FrameLen(r) \in Nat \ {0}
    BY CountIs, FrameIs, DepthAssumption
  <2>2. Overflowable(f) \in 0..Depth /\ FrameLen(r) \in 1..Depth
    BY <2>1, DepthAssumption
  <2> QED BY <2>2
<1>2. /\ Overflowable(g) = c + l
      /\ \A i \in 0..c - 1 : At(g, i) = At(f, i)
      /\ \A k \in 1..l : At(g, c + k - 1) = [of |-> r, byte |-> k]
  BY <1>1, QueueAppends
<1> HIDE DEF g
<1>3. ASSUME NEW i \in 0..c - 1
      PROVE  LET x == At(g, i) IN
               /\ x \in Frames /\ ~IsMouse(x.of) /\ x.byte <= FrameLen(x.of)
               /\ HasFrame(g, i + 1 - x.byte, x.of)
  <2> DEFINE x == At(f, i)
  <2>1. /\ At(g, i) = x
        /\ x \in Frames /\ ~IsMouse(x.of) /\ x.byte <= FrameLen(x.of)
        /\ HasFrame(f, i + 1 - x.byte, x.of)
    BY <1>1, <1>2 DEF Framed
  <2> HIDE DEF x
  <2>2. PICK b \in Nat \ {0}, m \in Nat \ {0} :
          b = x.byte /\ m = FrameLen(x.of)
    BY <2>1, FrameIs DEF Frames
  <2>3. /\ 0 <= i + 1 - b /\ i + 1 - b + m <= c
        /\ \A k \in 1..m : At(f, i + 1 - b + k - 1) = [of |-> x.of, byte |-> k]
    BY <1>1, <2>1, <2>2 DEF HasFrame
  <2>4. \A k \in 1..m : i + 1 - b + k - 1 \in 0..c - 1
    BY <2>3
  <2>5. \A k \in 1..m : At(g, i + 1 - b + k - 1) = [of |-> x.of, byte |-> k]
    BY <1>2, <2>3, <2>4
  <2>6. i + 1 - b + m <= c + l
    BY <2>3
  <2>7. HasFrame(g, i + 1 - b, x.of)
    BY <1>2, <2>2, <2>3, <2>5, <2>6 DEF HasFrame
  <2> QED BY <2>1, <2>2, <2>7
<1>4. ASSUME NEW i \in 0..c + l - 1, i >= c
      PROVE  LET x == At(g, i) IN
               /\ x \in Frames /\ ~IsMouse(x.of) /\ x.byte <= FrameLen(x.of)
               /\ HasFrame(g, i + 1 - x.byte, x.of)
  <2>1. PICK k \in 1..l : i = c + k - 1
    <3>1. i - c + 1 \in 1..l /\ i = c + (i - c + 1) - 1
      BY <1>4
    <3> QED BY <3>1
  <2>2. At(g, i) = [of |-> r, byte |-> k]
    BY <1>2, <2>1
  <2>3. i + 1 - k = c
    BY <2>1
  <2>4. HasFrame(g, c, r)
    <3>1. 0 <= c /\ c + l <= c + l
      OBVIOUS
    <3> QED BY <1>1, <1>2, <3>1 DEF HasFrame
  <2>5. k <= FrameLen(r)
    BY <1>1
  <2> QED BY <2>2, <2>3, <2>4, <2>5 DEF Frames
<1>5. ASSUME NEW i \in 0..Overflowable(g) - 1
      PROVE  LET x == At(g, i) IN
               /\ x \in Frames /\ ~IsMouse(x.of) /\ x.byte <= FrameLen(x.of)
               /\ HasFrame(g, i + 1 - x.byte, x.of)
  <2>1. i \in 0..c + l - 1 /\ (i \in 0..c - 1 \/ i >= c)
    BY <1>2
  <2> QED BY <1>3, <1>4, <2>1
<1>6. Overflowable(g) <= Depth
  BY <1>1, <1>2
<1> QED BY <1>5, <1>6 DEF Framed, g

(* Behind the first frame another one begins.                              *)
LEMMA BehindFirst ==
  ASSUME NEW f \in Fifos, NEW r \in Reports, Framed(f), HasFrame(f, 0, r),
         NEW i \in 0..Overflowable(f) - 1, i >= FrameLen(r)
  PROVE  i + 1 - At(f, i).byte >= FrameLen(r)
<1> DEFINE x == At(f, i)
           s == i + 1 - x.byte
<1>1. x \in Frames /\ HasFrame(f, s, x.of) /\ x.byte <= FrameLen(x.of)
  BY DEF Framed
<1>2. PICK b \in Nat \ {0}, m \in Nat \ {0}, l \in Nat \ {0} :
        b = x.byte /\ m = FrameLen(x.of) /\ l = FrameLen(r)
  BY <1>1, FrameIs DEF Frames
<1> SUFFICES ASSUME s < l PROVE FALSE
  BY <1>2
<1>3. s = i + 1 - b /\ s \in Nat
  BY <1>1, <1>2 DEF HasFrame
<1> HIDE DEF s, x
<1>4. At(f, s + 1 - 1) = [of |-> x.of, byte |-> 1]
  BY <1>1, <1>2 DEF HasFrame
<1>5. At(f, 0 + (s + 1) - 1) = [of |-> r, byte |-> s + 1]
  <2>1. s + 1 \in 1..l
    BY <1>3
  <2> QED BY <1>2, <2>1 DEF HasFrame
<1>6. s + 1 - 1 = s /\ 0 + (s + 1) - 1 = s
  BY <1>3
<1>7. [of |-> x.of, byte |-> 1] = [of |-> r, byte |-> s + 1]
  BY <1>4, <1>5, <1>6
<1>8. x.of = r /\ 1 = s + 1
  <2>1. [of |-> x.of, byte |-> 1].of = x.of
        /\ [of |-> x.of, byte |-> 1].byte = 1
        /\ [of |-> r, byte |-> s + 1].of = r
        /\ [of |-> r, byte |-> s + 1].byte = s + 1
    OBVIOUS
  <2> QED BY <1>7, <2>1
<1>9. m = l /\ b <= m /\ b = i + 1
  BY <1>1, <1>2, <1>3, <1>8
<1> QED BY <1>2, <1>9

LEMMA DropFramed ==
  ASSUME NEW f \in Fifos, NEW r \in Reports, Framed(f), HasFrame(f, 0, r)
  PROVE  Framed(AdvanceReadPointer(f, FrameLen(r)))
<1> DEFINE g == AdvanceReadPointer(f, FrameLen(r))
<1>1. PICK c \in 0..Depth, l \in 1..Depth :
        c = Overflowable(f) /\ l = FrameLen(r) /\ l <= c
  <2>1. Overflowable(f) \in Nat /\ FrameLen(r) \in Nat \ {0}
    BY CountIs, FrameIs, DepthAssumption
  <2>2. Overflowable(f) <= Depth /\ 0 + FrameLen(r) <= Overflowable(f)
    BY DEF Framed, HasFrame
  <2>3. /\ Overflowable(f) \in 0..Depth /\ FrameLen(r) \in 1..Depth
        /\ FrameLen(r) <= Overflowable(f)
    BY <2>1, <2>2, DepthAssumption
  <2> QED BY <2>3
<1>2. /\ Overflowable(g) = c - l
      /\ \A i \in 0..c - l - 1 : At(g, i) = At(f, i + l)
  <2>1. FrameLen(r) \in 0..Overflowable(f)
    BY <1>1
  <2>2. /\ Overflowable(g) = Overflowable(f) - FrameLen(r)
        /\ \A i \in 0..Overflowable(g) - 1 : At(g, i) = At(f, i + FrameLen(r))
    BY <2>1, ReadDrops DEF Framed
  <2> HIDE DEF g
  <2> QED BY <1>1, <2>2
<1> HIDE DEF g
<1>3. ASSUME NEW i \in 0..c - l - 1
      PROVE  LET x == At(g, i) IN
               /\ x \in Frames /\ ~IsMouse(x.of) /\ x.byte <= FrameLen(x.of)
               /\ HasFrame(g, i + 1 - x.byte, x.of)
  <2>1. PICK j \in 0..c - 1 : j = i + l
    <3>1. i + l \in 0..c - 1
      BY <1>1
    <3> QED BY <3>1
  <2> DEFINE x == At(f, j)
  <2>2. /\ At(g, i) = x
        /\ x \in Frames /\ ~IsMouse(x.of) /\ x.byte <= FrameLen(x.of)
        /\ HasFrame(f, j + 1 - x.byte, x.of)
    BY <1>1, <1>2, <2>1 DEF Framed
  <2>3. j + 1 - x.byte >= l
    <3>1. j >= FrameLen(r)
      BY <1>1, <2>1
    <3> QED BY <1>1, <3>1, BehindFirst
  <2> HIDE DEF x
  <2>4. PICK b \in Nat \ {0}, m \in Nat \ {0} :
          b = x.byte /\ m = FrameLen(x.of)
    BY <2>2, FrameIs DEF Frames
  <2>5. /\ j + 1 - b + m <= c /\ j + 1 - b >= l
        /\ \A k \in 1..m : At(f, j + 1 - b + k - 1) = [of |-> x.of, byte |-> k]
    BY <1>1, <2>2, <2>3, <2>4 DEF HasFrame
  <2>6. ASSUME NEW k \in 1..m
        PROVE  At(g, i + 1 - b + k - 1) = [of |-> x.of, byte |-> k]
    <3>1. PICK n \in 0..c - l - 1 : n = i + 1 - b + k - 1
      <4>1. i + 1 - b + k - 1 \in 0..c - l - 1
        BY <2>1, <2>5
      <4> QED BY <4>1
    <3>2. n + l = j + 1 - b + k - 1
      BY <2>1, <3>1
    <3> QED BY <1>2, <2>5, <3>1, <3>2
  <2>7. 0 <= i + 1 - b /\ i + 1 - b + m <= c - l
    BY <2>1, <2>5
  <2>8. HasFrame(g, i + 1 - b, x.of)
    BY <1>2, <2>4, <2>6, <2>7 DEF HasFrame
  <2> QED BY <2>2, <2>4, <2>8
<1>4. Overflowable(g) <= Depth
  <2>1. c - l <= Depth
    BY <1>1, DepthAssumption
  <2> QED BY <1>2, <2>1
<1> QED BY <1>2, <1>3, <1>4 DEF Framed, g

-----------------------------------------------------------------------------
(***************************************************************************)
(* Every variable keeps its type.                                          *)
(***************************************************************************)

LEMMA ChordTyped ==
  ASSUME NEW old \in Vals, NEW new \in Vals
  PROVE  Chord(old, new) \in Seq(Vals)
<1> DEFINE kept == (old \cap Keys) \cap (new \cap Keys)
           a == (old \cap Modifiers) \cup kept
           b == (new \cap Modifiers) \cup kept
<1>1. a \in Vals /\ b \in Vals
  BY DEF Vals
<1> HIDE DEF a, b, kept
<1>2. \A P, Q, R \in BOOLEAN :
        (IF P THEN <<a>> ELSE <<>>) \o (IF Q THEN <<b>> ELSE <<>>)
          \o (IF R THEN <<new>> ELSE <<>>) \in Seq(Vals)
  <2>1. /\ <<>> \in Seq(Vals) /\ <<a>> \in Seq(Vals) /\ <<b>> \in Seq(Vals)
        /\ <<new>> \in Seq(Vals)
    BY <1>1
  <2> QED BY <2>1, ConcatProperties
<1> DEFINE P == new \cap Modifiers # old \cap Modifiers
           M == IF P THEN kept ELSE old \cap Keys
           Q == P /\ kept # old \cap Keys
           R == M # new \cap Keys
<1>3. Chord(old, new) = (IF Q THEN <<a>> ELSE <<>>)
                        \o (IF P THEN <<b>> ELSE <<>>)
                        \o (IF R THEN <<new>> ELSE <<>>)
  BY Zenon DEF Chord, a, b, kept
<1>4. P \in BOOLEAN /\ Q \in BOOLEAN /\ R \in BOOLEAN
  OBVIOUS
<1> HIDE DEF P, Q, R
<1> QED BY <1>2, <1>3, <1>4

LEMMA CallTyped ==
  ASSUME TypeOK, DataInv, NEW id \in Ids, NEW new \in Vals,
         NEW vals \in Seq(Vals), Call(id, new, vals)
  PROVE  TypeOK' /\ DataInv'
<1> DEFINE n(i) == IF id = "mouse" THEN 0 ELSE queued + i
           r(i) == [id |-> id, val |-> vals[i], goal |-> new, n |-> n(i)]
<1>1. Len(vals) \in Nat /\ \A i \in 1..Len(vals) : vals[i] \in Vals
  BY LenProperties, ElementOfSeq
<1>2. ASSUME NEW i \in 1..Len(vals) PROVE r(i) \in Reports
  <2>1. n(i) \in Nat /\ (id = "mouse" <=> n(i) = None)
    BY <1>1 DEF DataInv, None
  <2> HIDE DEF n
  <2> QED BY <1>1, <2>1 DEF Reports, IsMouse
<1>3. todo' = [i \in 1..Len(vals) |-> r(i)]
  BY DEF Call
<1> HIDE DEF r
<1>4. todo' \in Seq(Reports)
  BY <1>1, <1>2, <1>3
<1>5. report' \in [Ids -> Vals]
  BY DEF Call, DataInv
<1>6. made' \in Nat /\ queued' \in Nat
  BY <1>1 DEF Call, DataInv
<1>7. disturbed' \in BOOLEAN
  BY DEF Call, DataInv
<1>8. TypeOK'
  BY DEF Call, TypeOK
<1> QED BY <1>4, <1>5, <1>6, <1>7, <1>8 DEF Call, DataInv

LEMMA ValsAre ==
  /\ KeyboardReports \subseteq Vals /\ SUBSET Codes \subseteq Vals
  /\ {} \in Vals /\ {Button} \in Vals
<1>1. Button \in AllCodes /\ \A c \in Codes : c \in AllCodes
  BY DEF AllCodes
<1>2. KeyboardReports \subseteq Vals
  BY DEF Vals, AllCodes
<1> HIDE DEF AllCodes
<1> QED BY <1>1, <1>2 DEF Vals

LEMMA CallerCalls ==
  ASSUME DataInv, Caller
  PROVE  \E id \in Ids, new \in Vals, vals \in Seq(Vals) : Call(id, new, vals)
<1>1. \A id \in Ids : report[id] \in Vals
  BY DEF DataInv
<1>2. \A old, new \in Vals : Change(old, new) \in Seq(Vals)
  BY DEF Change
<1>3. CASE KeyboardSendReport
  <2>1. PICK new \in KeyboardReports :
          Call("keyboard", new, Chord(report["keyboard"], new))
    BY <1>3 DEF KeyboardSendReport
  <2>2. new \in Vals
    BY ValsAre
  <2>3. "keyboard" \in Ids
    BY DEF Ids
  <2>4. Chord(report["keyboard"], new) \in Seq(Vals)
    BY <1>1, <2>2, <2>3, ChordTyped
  <2> QED BY <2>1, <2>2, <2>3, <2>4
<1>4. CASE ConsumerSendReport
  <2>1. PICK new \in SUBSET Codes :
          Call("consumer", new, Change(report["consumer"], new))
    BY <1>4 DEF ConsumerSendReport
  <2>2. new \in Vals
    BY ValsAre
  <2>3. "consumer" \in Ids
    BY DEF Ids
  <2> QED BY <1>1, <1>2, <2>1, <2>2, <2>3
<1>5. CASE MouseSendReport
  <2>1. PICK new \in {{}, {Button}} :
          Call("mouse", new, Change(report["mouse"], new))
    BY <1>5 DEF MouseSendReport
  <2>2. new \in Vals
    BY ValsAre
  <2>3. "mouse" \in Ids
    BY DEF Ids
  <2> QED BY <1>1, <1>2, <2>1, <2>2, <2>3
<1>6. CASE MouseClick
  <2>1. {} \in Vals /\ {Button} \in Vals /\ "mouse" \in Ids
    BY ValsAre DEF Ids
  <2>2. Click(Button) \in Seq(Vals)
    <3> DEFINE d == {}
               b == {Button}
    <3>1. d \in Vals /\ b \in Vals
      BY <2>1
    <3>2. Click(Button) = (IF report["mouse"] = {} THEN <<>> ELSE <<d>>)
                          \o <<b, d>>
      BY Zenon DEF Click
    <3> HIDE DEF d, b
    <3>3. <<b, d>> \in Seq(Vals) /\ <<d>> \in Seq(Vals) /\ <<>> \in Seq(Vals)
      BY <3>1
    <3> QED BY <3>2, <3>3, ConcatProperties
  <2> QED BY <1>6, <2>1, <2>2 DEF MouseClick
<1> QED BY <1>3, <1>4, <1>5, <1>6 DEF Caller

LEMMA HeadOfTodo ==
  ASSUME NEW t \in Seq(Reports), t # <<>>
  PROVE  Head(t) \in Reports /\ Tail(t) \in Seq(Reports)
BY HeadTailProperties

LEMMA LoopTyped ==
  ASSUME TypeOK, DataInv, FrameInv, MainLoop,
         UNCHANGED <<report, made, queued>>
  PROVE  TypeOK' /\ DataInv'
<1> USE DEF hidVars
<1>1. CASE SendReport
  <2>1. todo # <<>> /\ todo \in Seq(Reports)
    BY <1>1 DEF SendReport, DataInv
  <2>2. \/ todo' = Tail(todo) /\ pc' = "idle"
        \/ todo' = todo /\ pc' = "mounted?"
    BY <1>1 DEF SendReport
  <2>3. todo' \in Seq(Reports) /\ (pc' = "mounted?" => todo' # <<>>)
        /\ pc' \in {"idle", "mounted?"}
    BY <2>1, <2>2, HeadOfTodo
  <2> QED BY <1>1, <2>3 DEF SendReport, TypeOK, DataInv
<1>2. CASE DropUnmounted
  BY <1>2, HeadOfTodo DEF DropUnmounted, TypeOK, DataInv
<1>3. CASE SendMouse
  <2>1. todo # <<>> /\ todo \in Seq(Reports)
    BY <1>3 DEF SendMouse, DataInv
  <2>2. out' \in Seq(Reports) /\ Len(out') = 1 /\ out' # <<>>
        /\ todo' \in Seq(Reports)
    BY <1>3, <2>1, HeadOfTodo DEF SendMouse
  <2> QED BY <1>3, <2>2 DEF SendMouse, TypeOK, DataInv
<1>4. CASE QueueReport
  <2>1. todo # <<>> /\ todo \in Seq(Reports) /\ tx_ff_hid \in Fifos
    BY <1>4 DEF QueueReport, DataInv
  <2>2. Head(todo) \in Reports /\ todo' \in Seq(Reports)
    BY <1>4, <2>1, HeadOfTodo DEF QueueReport
  <2>3. tx_ff_hid' \in Fifos
    BY <1>4, <2>1, <2>2, QueueTyped DEF QueueReport
  <2>4. over' \in BOOLEAN
    BY <1>4 DEF QueueReport, DataInv
  <2>5. tx_ff_hid'.rd \in Indices /\ tx_ff_hid'.wr \in Indices
    BY <2>3 DEF Fifos
  <2> QED BY <1>4, <2>2, <2>3, <2>4, <2>5 DEF QueueReport, TypeOK, DataInv
<1>5. CASE SendLastReport
  <2>1. tx_ff_hid \in Fifos /\ FifoCount(tx_ff_hid) # 0
    BY <1>5 DEF SendLastReport, DataInv
  <2>2. tx_ff_hid' \in Fifos
    BY <1>5, <2>1, CorrectedIs DEF SendLastReport
  <2>3. \/ /\ out' \in Seq(Reports) /\ Len(out') = 1 /\ out' # <<>>
           /\ pc' = "claim"
        \/ out' = <<>> /\ pc' = "garbled"
    <3>1. CASE IsWhole(HeadFrame(tx_ff_hid))
      <4>1. HeadFrame(tx_ff_hid)[1].of \in Reports
        BY <2>1, <3>1, HeadTyped
      <4>2. out' = <<HeadFrame(tx_ff_hid)[1].of>> /\ pc' = "claim"
        BY <1>5, <3>1 DEF SendLastReport
      <4> HIDE DEF HeadFrame
      <4> QED BY <4>1, <4>2
    <3>2. CASE ~IsWhole(HeadFrame(tx_ff_hid))
      BY <1>5, <3>2 DEF SendLastReport
    <3> QED BY <3>1, <3>2
  <2>4. tx_ff_hid'.rd \in Indices /\ tx_ff_hid'.wr \in Indices
    BY <2>2 DEF Fifos
  <2>5. out' \in Seq(Reports) /\ Len(out') <= 1
        /\ pc' \in {"claim", "garbled"}
        /\ (pc' \in {"claim", "xfer", "settle"}) = (out' # <<>>)
    <3>1. CASE out' = <<>> /\ pc' = "garbled"
      <4>1. <<>> \in Seq(Reports) /\ Len(<<>>) = 0
        BY EmptySeq
      <4> QED BY <3>1, <4>1
    <3>2. CASE out' # <<>>
      <4>1. out' \in Seq(Reports) /\ Len(out') = 1 /\ pc' = "claim"
        BY <2>3, <3>2
      <4> QED BY <3>2, <4>1
    <3> QED BY <2>3, <3>1, <3>2
  <2> QED BY <1>5, <2>2, <2>4, <2>5 DEF SendLastReport, TypeOK, DataInv
<1>6. CASE EdptClaim
  <2>1. dev' \in Devs
    BY <1>6 DEF EdptClaim, DataInv, Ep, Claimable, Devs, EpStates
  <2>2. dev'.mounted = dev.mounted /\ dev'.suspended = dev.suspended
        /\ dev'.connected = dev.connected /\ dev'.ep_in = dev.ep_in
    BY <1>6 DEF EdptClaim, DataInv, Ep, Devs
  <2>3. \A e \in {"hid", "ctl"} : dev'[e] \in {"free", "claimed", "busy"}
    BY <2>1 DEF Devs, EpStates
  <2>4. ok' \in BOOLEAN /\ pc' \in {"xfer", "settle"}
    BY <1>6 DEF EdptClaim, DataInv
  <2> QED BY <1>6, <2>1, <2>2, <2>3, <2>4 DEF EdptClaim, TypeOK, DataInv
<1>7. CASE EdptXfer
  <2>1. dev' \in Devs
    BY <1>7 DEF EdptXfer, DataInv, Ep, Devs, EpStates
  <2>2. dev'.mounted = dev.mounted /\ dev'.suspended = dev.suspended
        /\ dev'.connected = dev.connected /\ dev'.ep_in = dev.ep_in
    BY <1>7 DEF EdptXfer, DataInv, Ep, Devs
  <2>3. \A e \in {"hid", "ctl"} : dev'[e] \in {"free", "claimed", "busy"}
    BY <2>1 DEF Devs, EpStates
  <2>4. ok' \in BOOLEAN
    BY <1>7 DEF EdptXfer
  <2>5. wire' = out \/ wire' = wire
    BY <1>7 DEF EdptXfer
  <2> QED BY <1>7, <2>1, <2>2, <2>3, <2>4, <2>5 DEF EdptXfer, TypeOK, DataInv
<1>8. CASE Settle
  <2>1. tx_ff_hid \in Fifos /\ out[1] \in Reports
    BY <1>8 DEF Settle, DataInv, TypeOK
  <2>2. tx_ff_hid' \in Fifos
    <3>1. CASE out[1].id # "mouse" /\ Discard
      <4>1. FrameLen(out[1]) <= Depth
        BY <1>8, <3>1 DEF Settle, FrameInv, SendingPcs, IsMouse
      <4>2. FrameLen(out[1]) \in 0..2 * Depth
        BY <2>1, <4>1, FrameIs, DepthAssumption
      <4>3. tx_ff_hid' = AdvanceReadPointer(tx_ff_hid, FrameLen(out[1]))
        BY <1>8, <2>1, <3>1, FrameIs DEF Settle, Consumed
      <4> QED BY <2>1, <4>2, <4>3, ReadTyped
    <3>2. CASE ~(out[1].id # "mouse" /\ Discard)
      BY <1>8, <2>1, <3>2 DEF Settle
    <3> QED BY <3>1, <3>2
  <2>3. tx_ff_hid'.rd \in Indices /\ tx_ff_hid'.wr \in Indices
    BY <2>2 DEF Fifos
  <2>4. out' \in Seq(Reports) /\ Len(out') <= 1 /\ out' = <<>>
    <3>1. <<>> \in Seq(Reports) /\ Len(<<>>) = 0
      BY EmptySeq
    <3> QED BY <1>8, <3>1 DEF Settle
  <2>5. pc' = "idle" /\ ok' \in BOOLEAN
        /\ UNCHANGED <<todo, dev, wire, host, away, disturbed, over>>
    BY <1>8 DEF Settle
  <2>6. (pc' \in {"claim", "xfer", "settle"}) = (out' # <<>>)
    BY <2>4, <2>5
  <2> QED BY <2>2, <2>3, <2>4, <2>5, <2>6 DEF TypeOK, DataInv
<1> QED BY <1>1, <1>2, <1>3, <1>4, <1>5, <1>6, <1>7, <1>8 DEF MainLoop

LEMMA UsbTyped ==
  ASSUME TypeOK, DataInv, Usb, UNCHANGED <<report, made, queued>>
  PROVE  TypeOK' /\ DataInv'
<1> DEFINE DevOK(d) == /\ d \in Devs
                       /\ d.suspended => d.connected
                       /\ d.mounted => d.ep_in
<1>0. DevOK(dev) /\ dev \in Devs
  BY DEF TypeOK, DataInv
<1>1. ASSUME DevOK(dev'), UNCHANGED <<todo, pc, out, ok, tx_ff_hid, over>>,
             disturbed' \in BOOLEAN, wire' \in {<<>>, wire},
             host' \in [val : [Ids -> Vals], n : Nat]
      PROVE  TypeOK' /\ DataInv'
  <2>1. \A e \in {"hid", "ctl"} : dev'[e] \in {"free", "claimed", "busy"}
    BY <1>1 DEF Devs, EpStates
  <2>2. wire' \in Seq(Reports) /\ Len(wire') <= 1
    <3>1. <<>> \in Seq(Reports) /\ Len(<<>>) = 0
      BY EmptySeq
    <3>2. wire \in Seq(Reports) /\ Len(wire) <= 1
      BY DEF TypeOK, DataInv
    <3>3. CASE wire' = <<>>
      BY <3>1, <3>3
    <3>4. CASE wire' = wire
      BY <3>2, <3>4
    <3> QED BY <1>1, <3>3, <3>4
  <2> QED BY <1>1, <2>1, <2>2 DEF TypeOK, DataInv
<1>2. disturbed \in BOOLEAN /\ host \in [val : [Ids -> Vals], n : Nat]
  BY DEF DataInv
<1>3. CASE Poll
  <2>1. wire[1] \in Reports
    BY <1>3 DEF Poll, DataInv, TypeOK
  <2>2. host' \in [val : [Ids -> Vals], n : Nat]
    <3>1. [host.val EXCEPT ![wire[1].id] = wire[1].val] \in [Ids -> Vals]
      BY <1>2, <2>1 DEF Reports
    <3>2. (IF wire[1].id = "mouse" THEN host.n ELSE wire[1].n) \in Nat
      BY <1>2, <2>1 DEF Reports
    <3> QED BY <1>3, <3>1, <3>2 DEF Poll
  <2>3. DevOK(dev')
    BY <1>0, <1>3 DEF Poll, Completed, Devs, EpStates
  <2> HIDE DEF DevOK
  <2> QED BY <1>1, <1>2, <1>3, <2>2, <2>3 DEF Poll
<1>4. ASSUME NEW c \in BOOLEAN, Setup(c) PROVE TypeOK' /\ DataInv'
  <2>1. DevOK(dev')
    BY <1>0, <1>4 DEF Setup, Devs, EpStates
  <2> HIDE DEF DevOK
  <2> QED BY <1>1, <1>2, <1>4, <2>1 DEF Setup
<1>5. CASE Suspend
  <2>1. DevOK(dev')
    BY <1>0, <1>5 DEF Suspend, Devs, EpStates
  <2> HIDE DEF DevOK
  <2> QED BY <1>1, <1>2, <1>5, <2>1 DEF Suspend
<1>6. CASE Resume
  <2>1. DevOK(dev')
    BY <1>0, <1>6 DEF Resume, Devs, EpStates
  <2> HIDE DEF DevOK
  <2> QED BY <1>1, <1>2, <1>6, <2>1 DEF Resume
<1>7. CASE Unplug
  <2>1. DevOK(dev')
    BY <1>0, <1>7 DEF Unplug, Devs, EpStates
  <2> HIDE DEF DevOK
  <2> QED BY <1>1, <1>2, <1>7, <2>1 DEF Unplug
<1>8. CASE UsbdReset
  <2>1. DevOK(dev')
    BY <1>0, <1>8 DEF UsbdReset, Unconfigured, Devs, EpStates
  <2> HIDE DEF DevOK
  <2>2. disturbed' \in BOOLEAN
    BY <1>2, <1>8 DEF UsbdReset
  <2> QED BY <1>1, <1>2, <1>8, <2>1, <2>2 DEF UsbdReset
<1> QED BY <1>3, <1>4, <1>5, <1>6, <1>7, <1>8 DEF Usb

-----------------------------------------------------------------------------
(***************************************************************************)
(* A claim is followed by its transfer.                                    *)
(***************************************************************************)

LEMMA ClaimStep ==
  ASSUME IInv, [Next]_vars
  PROVE  ClaimInv'
<1> USE DEF ClaimInv
<1>1. dev \in Devs /\ ClaimInv
  BY DEF IInv, DataInv
<1>2. CASE Caller
  <2>1. UNCHANGED <<pc, dev>>
    BY <1>2, CallerCalls DEF Call, IInv
  <2> QED BY <1>1, <2>1
<1>3. CASE MainLoop
  <2>1. CASE pc # "xfer" /\ UNCHANGED dev
    BY <1>1, <2>1
  <2>2. CASE EdptClaim
    BY <1>1, <2>2 DEF EdptClaim, Ep, Devs
  <2>3. CASE EdptXfer
    BY <1>1, <2>3 DEF EdptXfer, Ep, Devs
  <2>4. (pc # "xfer" /\ UNCHANGED dev) \/ EdptClaim \/ EdptXfer
    BY <1>3 DEF MainLoop, SendReport, DropUnmounted, SendMouse, QueueReport,
                SendLastReport, Settle
  <2> QED BY <2>1, <2>2, <2>3, <2>4
<1>4. CASE Usb
  <2>1. UNCHANGED pc
    BY <1>4 DEF Usb, Poll, Setup, Suspend, Resume, Unplug, UsbdReset
  <2>2. CASE Poll
    BY <1>1, <2>1, <2>2 DEF Poll, Completed, Devs
  <2>3. ASSUME NEW c \in BOOLEAN, Setup(c) PROVE ClaimInv'
    BY <1>1, <2>1, <2>3 DEF Setup, Devs
  <2>4. CASE Suspend \/ Resume \/ Unplug
    BY <1>1, <2>1, <2>4 DEF Suspend, Resume, Unplug, Devs
  <2>5. CASE UsbdReset
    BY <2>5 DEF UsbdReset, Unconfigured
  <2> QED BY <1>4, <2>2, <2>3, <2>4, <2>5 DEF Usb
<1>5. CASE UNCHANGED vars
  BY <1>1, <1>5 DEF vars, hidVars
<1> QED BY <1>2, <1>3, <1>4, <1>5 DEF Next

-----------------------------------------------------------------------------
(***************************************************************************)
(* The FIFO stays cut into whole frames.                                   *)
(***************************************************************************)

LEMMA LoopFrames ==
  ASSUME IInv, MainLoop
  PROVE  FrameInv'
<1> DEFINE f == tx_ff_hid
           Out(p, o) == p \in SendingPcs /\ ~IsMouse(o[1])
<1>1. /\ f \in Fifos /\ todo \in Seq(Reports) /\ out \in Seq(Reports)
      /\ pc \in SendingPcs <=> out # <<>>
      /\ FrameInv
      /\ pc = "mounted?" => todo # <<>>
  BY DEF IInv, TypeOK, DataInv, SendingPcs
<1>2. ~over => Framed(f) /\ pc # "garbled"
  BY <1>1 DEF FrameInv
<1>3. CASE /\ UNCHANGED <<tx_ff_hid, over>>
           /\ pc' \notin SendingPcs \cup {"garbled"}
  BY <1>2, <1>3 DEF FrameInv
<1>4. CASE /\ UNCHANGED <<tx_ff_hid, over, out>>
           /\ pc \in SendingPcs /\ pc' \in SendingPcs
  <2>1. pc' # "garbled"
    BY <1>4 DEF SendingPcs
  <2> QED BY <1>1, <1>4, <2>1 DEF FrameInv
<1>5. CASE SendReport \/ DropUnmounted
  BY <1>3, <1>5 DEF SendReport, DropUnmounted, SendingPcs
<1>6. CASE SendMouse
  <2>1. IsMouse(out'[1]) /\ pc' # "garbled" /\ UNCHANGED <<tx_ff_hid, over>>
    BY <1>6 DEF SendMouse, IsMouse
  <2> QED BY <1>2, <2>1 DEF FrameInv
<1>7. CASE QueueReport
  <2> DEFINE r == Head(todo)
  <2>1. r \in Reports /\ ~IsMouse(r)
    BY <1>1, <1>7, HeadOfTodo DEF QueueReport, IsMouse
  <2>2. pc' = "idle" /\ tx_ff_hid' = WriteN(WriteN(f, Header(r)), Data(r))
    BY <1>7 DEF QueueReport
  <2>3. ~over' => ~over /\ ~(Overflowable(f) + FrameLen(r) > Depth)
    BY <1>7, <2>1, FrameIs DEF QueueReport
  <2>4. ASSUME ~over' PROVE Framed(tx_ff_hid')
    <3>1. Overflowable(f) \in Nat /\ FrameLen(r) \in Nat
      BY <1>1, <2>1, CountIs, FrameIs, DepthAssumption
    <3>2. Overflowable(f) + FrameLen(r) <= Depth
      BY <2>3, <2>4, <3>1, DepthAssumption
    <3> QED BY <1>1, <1>2, <2>1, <2>2, <2>3, <2>4, <3>2, QueueFramed
  <2> QED BY <2>2, <2>4 DEF FrameInv, SendingPcs
<1>8. CASE SendLastReport
  <2> DEFINE h == HeadFrame(f)
  <2> HIDE DEF h
  <2>1. /\ FifoCount(f) # 0 /\ over' = over
        /\ f' = CorrectReadIndex(f)
        /\ \/ IsWhole(h) /\ out' = <<h[1].of>> /\ pc' = "claim"
           \/ ~IsWhole(h) /\ out' = <<>> /\ pc' = "garbled"
    BY <1>8 DEF SendLastReport, h
  <2>2. pc' \in SendingPcs => FrameLen(out'[1]) <= Depth
    <3>1. IsWhole(h) => FrameLen(h[1].of) <= Depth
      BY <1>1, <2>1, HeadTyped DEF h
    <3> QED BY <2>1, <3>1 DEF SendingPcs
  <2>3. ASSUME ~over
        PROVE  /\ Framed(f') /\ pc' # "garbled" /\ HasFrame(f', 0, out'[1])
    <3>1. Framed(f) /\ Overflowable(f) <= Depth
      BY <1>2, <2>3 DEF Framed
    <3>2. f' = f /\ Overflowable(f) # 0
      <4>1. /\ Overflowable(f) <= Depth => CorrectReadIndex(f) = f
            /\ FifoCount(f) = Overflowable(CorrectReadIndex(f))
        BY <1>1, CorrectedIs
      <4> QED BY <2>1, <3>1, <4>1
    <3>3. /\ IsWhole(h) /\ HasFrame(f, 0, h[1].of)
      BY <1>1, <3>1, <3>2, HeadWhole DEF h
    <3> QED BY <2>1, <3>1, <3>2, <3>3
  <2> QED BY <2>1, <2>2, <2>3 DEF FrameInv
<1>9. CASE EdptClaim
  BY <1>4, <1>9 DEF EdptClaim, SendingPcs
<1>10. CASE EdptXfer
  BY <1>4, <1>10 DEF EdptXfer, SendingPcs
<1>11. CASE Settle
  <2>1. CASE out[1].id # "mouse" /\ Discard
    <3>1. out[1] \in Reports
      BY <1>1, <1>11 DEF Settle, SendingPcs
    <3>2. tx_ff_hid' = AdvanceReadPointer(f, FrameLen(out[1]))
      BY <1>11, <2>1, <3>1, FrameIs DEF Settle, Consumed
    <3>3. pc' = "idle" /\ over' = over
      BY <1>11 DEF Settle
    <3>4. ASSUME ~over PROVE Framed(tx_ff_hid')
      <4>1. HasFrame(f, 0, out[1])
        BY <1>1, <1>11, <2>1, <3>4 DEF Settle, FrameInv, SendingPcs, IsMouse
      <4> QED BY <1>1, <1>2, <3>1, <3>2, <3>4, <4>1, DropFramed
    <3> QED BY <3>3, <3>4 DEF FrameInv, SendingPcs
  <2>2. CASE ~(out[1].id # "mouse" /\ Discard)
    BY <1>3, <1>11, <2>2 DEF Settle, SendingPcs
  <2> QED BY <2>1, <2>2
<1> QED BY <1>5, <1>6, <1>7, <1>8, <1>9, <1>10, <1>11 DEF MainLoop

LEMMA FrameStep ==
  ASSUME IInv, [Next]_vars
  PROVE  FrameInv'
<1>1. CASE UNCHANGED <<pc, out, tx_ff_hid, over>>
  BY <1>1 DEF IInv, FrameInv
<1>2. CASE Caller
  <2>1. UNCHANGED <<pc, out, tx_ff_hid, over>>
    BY <1>2, CallerCalls DEF Call, IInv
  <2> QED BY <1>1, <2>1
<1>3. CASE Usb
  BY <1>1, <1>3 DEF Usb, Poll, Setup, Suspend, Resume, Unplug, UsbdReset
<1>4. CASE UNCHANGED vars
  BY <1>1, <1>4 DEF vars, hidVars
<1> QED BY <1>2, <1>3, <1>4, LoopFrames DEF Next

-----------------------------------------------------------------------------
(***************************************************************************)
(* The queued reports keep their order.                                    *)
(***************************************************************************)

LEMMA CellsTyped ==
  ASSUME NEW f \in Fifos, Framed(f)
  PROVE  /\ Overflowable(f) \in Nat
         /\ \A i \in 0..Overflowable(f) - 1 :
              At(f, i) \in Frames /\ At(f, i).of.n \in Nat
<1>1. Overflowable(f) \in Nat
  BY CountIs, DepthAssumption
<1>2. ASSUME NEW i \in 0..Overflowable(f) - 1
      PROVE  At(f, i) \in Frames /\ At(f, i).of.n \in Nat
  <2>1. At(f, i) \in Frames
    BY DEF Framed
  <2>2. At(f, i).of \in Reports
    BY <2>1 DEF Frames
  <2> QED BY <2>1, <2>2 DEF Reports
<1> QED BY <1>1, <1>2

(* The caller passes on one report that does not go to the FIFO.           *)
LEMMA LineOfTail ==
  ASSUME NEW h \in Nat, NEW w \in Seq(Reports), NEW f \in Fifos,
         NEW s \in Nat, NEW t \in Seq(Reports), NEW q \in Nat,
         Line(h, w, f, s, t, q), t # <<>>
  PROVE  Line(h, w, f, s, Tail(t), q)
<1> DEFINE Waits(u, j) == u[j].n # None =>
             /\ u[j].n <= q
             /\ Behind(h, w, u[j].n)
             /\ \A i \in 0..Overflowable(f) - 1 : At(f, i).of.n < u[j].n
             /\ \A i \in 1..j - 1 : u[i].n < u[j].n
<1>1. \A j \in 1..Len(t) : Waits(t, j)
  BY DEF Line
<1> DEFINE u == Tail(t)
<1>2. Len(t) \in Nat /\ Len(u) = Len(t) - 1
      /\ \A j \in 1..Len(u) : u[j] = t[j + 1]
  BY HeadTailProperties, LenProperties
<1> HIDE DEF u
<1>3. ASSUME NEW j \in 1..Len(u) PROVE Waits(u, j)
  <2>1. j + 1 \in 1..Len(t) /\ u[j] = t[j + 1]
    BY <1>2
  <2>2. Waits(t, j + 1)
    BY <1>1, <2>1
  <2>3. ASSUME u[j].n # None, NEW i \in 1..j - 1 PROVE u[i].n < u[j].n
    <3>1. i + 1 \in 1..(j + 1) - 1 /\ u[i] = t[i + 1]
      BY <1>2
    <3> QED BY <2>1, <2>2, <2>3, <3>1
  <2> QED BY <2>1, <2>2, <2>3
<1> QED BY <1>3 DEF Line, u

(* The buffer of the endpoint is emptied, by the host or by a reset.       *)
LEMMA LineWithoutWire ==
  ASSUME NEW h, NEW w \in Seq(Reports), NEW f, NEW s, NEW t, NEW q,
         Line(h, w, f, s, t, q)
  PROVE  Line(h, <<>>, f, s, t, q)
<1>1. Len(<<>>) = 0
  BY EmptySeq
<1>2. \A i \in 1..Len(<<>>) : FALSE
  BY <1>1
<1>3. \A n : Behind(h, w, n) => Behind(h, <<>>, n)
  BY <1>2 DEF Behind
<1> QED BY <1>2, <1>3 DEF Line

(* More of the FIFO was sent.                                              *)
LEMMA LineSent ==
  ASSUME NEW h \in Nat, NEW w \in Seq(Reports), NEW f \in Fifos,
         NEW s \in Nat, NEW t \in Seq(Reports), NEW q \in Nat,
         Line(h, w, f, 0, t, q)
  PROVE  Line(h, w, f, s, t, q)
<1>1. \A i \in 0..Overflowable(f) - 1 : i >= 0
  OBVIOUS
<1> QED BY <1>1 DEF Line

(* The host has taken what was in the endpoint's buffer.                   *)
LEMMA LineTaken ==
  ASSUME NEW h \in Nat, NEW r \in Reports, NEW f \in Fifos, Framed(f),
         NEW s \in Nat, NEW t \in Seq(Reports), NEW q \in Nat,
         Line(h, <<r>>, f, s, t, q)
  PROVE  Line(IF IsMouse(r) THEN h ELSE r.n, <<>>, f, s, t, q)
<1> DEFINE w == <<r>>
<1>1. Len(w) = 1 /\ w[1] = r /\ w \in Seq(Reports) /\ 1 \in 1..Len(w)
  OBVIOUS
<1>2. Line(h, w, f, s, t, q)
  OBVIOUS
<1> HIDE DEF w
<1>3. Line(h, <<>>, f, s, t, q)
  BY <1>1, <1>2, LineWithoutWire
<1>4. CASE IsMouse(r)
  BY <1>3, <1>4
<1>5. CASE ~IsMouse(r)
  <2>1. r.n <= q
    BY <1>1, <1>2 DEF Line
  <2>2. \A n : Behind(h, w, n) => Behind(r.n, <<>>, n)
    <3>1. Len(<<>>) = 0
      BY EmptySeq
    <3>2. \A i \in 1..Len(<<>>) : FALSE
      BY <3>1
    <3> QED BY <1>1, <3>2 DEF Behind
  <2>3. \A i \in 1..Len(<<>>) : FALSE
    <3>1. Len(<<>>) = 0
      BY EmptySeq
    <3> QED BY <3>1
  <2>4. Line(r.n, <<>>, f, s, t, q)
    BY <1>2, <2>1, <2>2, <2>3 DEF Line
  <2> QED BY <1>5, <2>4
<1> QED BY <1>4, <1>5

(* A mouse report overtakes the others without disturbing their order.     *)
LEMMA LineMouse ==
  ASSUME NEW h \in Nat, NEW w \in Seq(Reports), NEW r \in Reports, IsMouse(r),
         NEW f \in Fifos, Framed(f), NEW s \in Nat, NEW t \in Seq(Reports),
         NEW q \in Nat, Line(h, w, f, s, t, q)
  PROVE  Line(h, <<r>>, f, s, t, q)
<1> DEFINE v == <<r>>
<1>1. Len(v) = 1 /\ v[1] = r
  OBVIOUS
<1> HIDE DEF v
<1>2. r.n = 0
  BY DEF Reports, None
<1>3. \A n \in Nat : Behind(h, w, n) => Behind(h, v, n)
  BY <1>1, <1>2 DEF Behind
<1>4. \A i \in 1..Len(v) : v[i].n <= q /\ ~(v[i].n # None)
  BY <1>1, <1>2 DEF None
<1>5. \A i \in 0..Overflowable(f) - 1 : At(f, i).of.n \in Nat
  BY CellsTyped
<1>6. \A j \in 1..Len(t) : t[j].n \in Nat
  BY ElementOfSeq DEF Reports
<1>7. Line(h, v, f, s, t, q)
  BY <1>3, <1>4, <1>5, <1>6 DEF Line
<1> QED BY <1>7 DEF v

(* The first frame of the FIFO is put on the wire.                         *)
LEMMA LineFirst ==
  ASSUME NEW h \in Nat, NEW w \in Seq(Reports), NEW r \in Reports,
         ~IsMouse(r), NEW f \in Fifos, Framed(f), HasFrame(f, 0, r),
         NEW t \in Seq(Reports), NEW q \in Nat, Line(h, w, f, 0, t, q)
  PROVE  Line(h, <<r>>, f, FrameLen(r), t, q)
<1> DEFINE v == <<r>>
<1>1. Len(v) = 1 /\ v[1] = r
  OBVIOUS
<1> HIDE DEF v
<1>2. PICK c \in Nat, l \in Nat \ {0} :
        c = Overflowable(f) /\ l = FrameLen(r) /\ l <= c
  <2>1. Overflowable(f) \in Nat /\ FrameLen(r) \in Nat \ {0}
    BY CellsTyped, FrameIs
  <2>2. 0 + FrameLen(r) <= Overflowable(f)
    BY DEF HasFrame
  <2> QED BY <2>1, <2>2
<1>3. 0 \in 0..c - 1 /\ At(f, 0).of = r
  <2>1. 1 \in 1..l /\ 0 + 1 - 1 = 0 /\ 0 \in 0..c - 1
    BY <1>2
  <2>2. At(f, 0 + 1 - 1) = [of |-> r, byte |-> 1]
    BY <1>2, <2>1 DEF HasFrame
  <2> QED BY <2>1, <2>2
<1>4. r.n <= q /\ h < r.n /\ r.n \in Nat
  BY <1>2, <1>3 DEF Line, Behind, Reports
<1>5. ASSUME NEW i \in 0..c - 1
      PROVE  /\ At(f, i).of.n \in Nat
             /\ h < At(f, i).of.n
             /\ i >= l => r.n < At(f, i).of.n
  <2>1. At(f, i).of.n \in Nat
    BY <1>2, CellsTyped
  <2>2. h < At(f, i).of.n
    BY <1>2 DEF Line, Behind
  <2>3. ASSUME i >= l PROVE r.n < At(f, i).of.n
    <3> DEFINE x == At(f, i)
    <3>1. x \in Frames /\ HasFrame(f, i + 1 - x.byte, x.of)
      BY <1>2 DEF Framed
    <3>2. i + 1 - x.byte >= l
      BY <1>2, <2>3, BehindFirst
    <3> HIDE DEF x
    <3>3. PICK p \in 0..c - 1 : p = i + 1 - x.byte /\ p >= l
      <4>1. x.byte \in Nat \ {0}
        BY <3>1 DEF Frames
      <4> QED BY <1>2, <3>2, <4>1
    <3>4. At(f, p + 1 - 1) = [of |-> x.of, byte |-> 1]
      <4>1. FrameLen(x.of) \in Nat \ {0}
        BY <3>1, FrameIs DEF Frames
      <4> QED BY <3>1, <3>3, <4>1 DEF HasFrame
    <3>5. At(f, p).of = x.of /\ At(f, p).byte = 1
      <4>1. p + 1 - 1 = p
        OBVIOUS
      <4> QED BY <3>4, <4>1
    <3>6. 0 \in 0..p - 1
      BY <1>2, <3>3
    <3>7. At(f, 0).of.n < At(f, p).of.n
      BY <1>2, <3>5, <3>6 DEF Line
    <3> QED BY <1>3, <3>5, <3>7 DEF x
  <2> QED BY <2>1, <2>2, <2>3
<1>6. \A n \in Nat : h < n /\ r.n < n => Behind(h, v, n)
  BY <1>1 DEF Behind
<1>7. ASSUME NEW j \in 1..Len(t), t[j].n # None
      PROVE  Behind(h, v, t[j].n)
  <2>1. t[j].n \in Nat
    BY ElementOfSeq DEF Reports
  <2>2. h < t[j].n /\ At(f, 0).of.n < t[j].n
    BY <1>2, <1>3, <1>7 DEF Line, Behind
  <2> QED BY <1>3, <1>6, <2>1, <2>2
<1>8. \A i \in 1..Len(v) : v[i].n <= q /\ h < v[i].n
  BY <1>1, <1>4
<1>9. \A i \in 0..c - 1 : i >= l => Behind(h, v, At(f, i).of.n)
  BY <1>5, <1>6
<1>10. Line(h, v, f, l, t, q)
  BY <1>2, <1>7, <1>8, <1>9 DEF Line
<1> QED BY <1>2, <1>10 DEF v

(* The first frame of the FIFO is taken out.                               *)
LEMMA LineDropped ==
  ASSUME NEW h \in Nat, NEW w \in Seq(Reports), NEW r \in Reports,
         NEW f \in Fifos, Framed(f), HasFrame(f, 0, r),
         NEW s \in Nat, s = 0 \/ s = FrameLen(r),
         NEW t \in Seq(Reports), NEW q \in Nat, Line(h, w, f, s, t, q)
  PROVE  Line(h, w, AdvanceReadPointer(f, FrameLen(r)), 0, t, q)
<1> DEFINE g == AdvanceReadPointer(f, FrameLen(r))
<1>1. PICK c \in Nat, l \in Nat \ {0} :
        c = Overflowable(f) /\ l = FrameLen(r) /\ l <= c
  <2>1. Overflowable(f) \in Nat /\ FrameLen(r) \in Nat \ {0}
    BY CellsTyped, FrameIs
  <2>2. 0 + FrameLen(r) <= Overflowable(f)
    BY DEF HasFrame
  <2> QED BY <2>1, <2>2
<1>2. Overflowable(g) = c - l /\ \A i \in 0..c - l - 1 : At(g, i) = At(f, i + l)
  <2>1. FrameLen(r) \in 0..Overflowable(f)
    BY <1>1
  <2>2. /\ Overflowable(g) = Overflowable(f) - FrameLen(r)
        /\ \A i \in 0..Overflowable(g) - 1 : At(g, i) = At(f, i + FrameLen(r))
    BY <2>1, ReadDrops DEF Framed
  <2> HIDE DEF g
  <2> QED BY <1>1, <2>2
<1> HIDE DEF g
<1>3. ASSUME NEW i \in 0..c - l - 1
      PROVE  /\ At(g, i).of.n <= q
             /\ Behind(h, w, At(g, i).of.n)
             /\ At(g, i).byte = 1 =>
                  \A k \in 0..i - 1 : At(g, k).of.n < At(g, i).of.n
             /\ i + l \in 0..c - 1 /\ At(g, i) = At(f, i + l)
  <2>0. PICK m \in 0..c - 1 : m = i + l /\ m >= l
    <3>1. i + l \in 0..c - 1 /\ i + l >= l
      BY <1>1
    <3> QED BY <3>1
  <2>1. m >= s
    <3>1. s = 0 \/ s = l
      BY <1>1
    <3> QED BY <2>0, <3>1
  <2>2. At(g, i) = At(f, m)
    BY <1>2, <2>0
  <2>3. /\ At(f, m).of.n <= q
        /\ Behind(h, w, At(f, m).of.n)
        /\ At(f, m).byte = 1 =>
             \A k \in 0..m - 1 : At(f, k).of.n < At(f, m).of.n
    BY <1>1, <2>1 DEF Line
  <2>4. ASSUME At(g, i).byte = 1, NEW k \in 0..i - 1
        PROVE  At(g, k).of.n < At(g, i).of.n
    <3>1. k \in 0..c - l - 1
      BY <1>1
    <3>2. k + l \in 0..m - 1
      <4>1. k \in Nat /\ k <= i - 1 /\ i \in Nat
        OBVIOUS
      <4>2. k + l \in Nat /\ k + l <= m - 1
        BY <2>0, <4>1
      <4> QED BY <4>2
    <3>3. At(g, k) = At(f, k + l)
      BY <1>2, <3>1
    <3> QED BY <2>2, <2>3, <2>4, <3>2, <3>3
  <2> QED BY <2>0, <2>2, <2>3, <2>4
<1>4. ASSUME NEW j \in 1..Len(t), t[j].n # None, NEW i \in 0..c - l - 1
      PROVE  At(g, i).of.n < t[j].n
  <2>1. i + l \in 0..c - 1 /\ At(g, i) = At(f, i + l)
    BY <1>3
  <2> QED BY <1>1, <1>4, <2>1 DEF Line
<1>5. Line(h, w, g, 0, t, q)
  BY <1>2, <1>3, <1>4 DEF Line
<1> QED BY <1>5 DEF g

(* The caller's next report is put into the FIFO.                          *)
LEMMA LineQueued ==
  ASSUME NEW h \in Nat, NEW w \in Seq(Reports), NEW f \in Fifos, Framed(f),
         NEW t \in Seq(Reports), NEW q \in Nat, Line(h, w, f, 0, t, q),
         t # <<>>, ~IsMouse(Head(t)),
         Overflowable(f) + FrameLen(Head(t)) <= Depth
  PROVE  LET r == Head(t)
             g == WriteN(WriteN(f, Header(r)), Data(r))
         IN  Line(h, w, g, 0, Tail(t), q)
<1> DEFINE r == Head(t)
           g == WriteN(WriteN(f, Header(r)), Data(r))
           u == Tail(t)
<1>1. r \in Reports /\ r = t[1] /\ 1 \in 1..Len(t)
  BY HeadTailProperties, LenProperties
<1>2. PICK c \in Nat, l \in Nat \ {0} : c = Overflowable(f) /\ l = FrameLen(r)
  BY <1>1, CellsTyped, FrameIs
<1>3. /\ Overflowable(g) = c + l
      /\ \A i \in 0..c - 1 : At(g, i) = At(f, i)
      /\ \A k \in 1..l : At(g, c + k - 1) = [of |-> r, byte |-> k]
  BY <1>1, <1>2, QueueAppends
<1>4. Line(h, w, f, 0, u, q)
  BY LineOfTail
<1>5. /\ r.n \in Nat /\ r.n # None /\ r.n <= q /\ Behind(h, w, r.n)
      /\ \A i \in 0..c - 1 : At(f, i).of.n < r.n
  BY <1>1, <1>2 DEF Line, Reports
<1>6. ASSUME NEW j \in 1..Len(u), u[j].n # None PROVE r.n < u[j].n
  <2>1. j + 1 \in 1..Len(t) /\ u[j] = t[j + 1] /\ 1 \in 1..(j + 1) - 1
    BY HeadTailProperties, LenProperties
  <2>2. t[1].n < t[j + 1].n
    BY <1>6, <2>1 DEF Line
  <2> QED BY <1>1, <2>1, <2>2
<1> HIDE DEF g, r, u
<1>7. ASSUME NEW i \in 0..c + l - 1
      PROVE  \/ i \in 0..c - 1 /\ At(g, i) = At(f, i)
             \/ i >= c /\ At(g, i) = [of |-> r, byte |-> i - c + 1]
  <2>1. CASE i < c
    <3>1. i \in 0..c - 1
      BY <2>1
    <3> QED BY <1>3, <3>1
  <2>2. CASE i >= c
    <3>1. PICK k \in 1..l : k = i - c + 1
      BY <2>2
    <3>2. c + k - 1 = i
      BY <3>1
    <3> QED BY <1>3, <2>2, <3>1, <3>2
  <2> QED BY <2>1, <2>2
<1>8. ASSUME NEW i \in 0..c + l - 1
      PROVE  /\ At(g, i).of.n <= q
             /\ Behind(h, w, At(g, i).of.n)
             /\ At(g, i).byte = 1 =>
                  \A k \in 0..i - 1 : At(g, k).of.n < At(g, i).of.n
  <2>1. CASE i \in 0..c - 1 /\ At(g, i) = At(f, i)
    <3>1. /\ At(f, i).of.n <= q
          /\ Behind(h, w, At(f, i).of.n)
          /\ At(f, i).byte = 1 =>
               \A k \in 0..i - 1 : At(f, k).of.n < At(f, i).of.n
      BY <1>2, <2>1 DEF Line
    <3>2. \A k \in 0..i - 1 : At(g, k) = At(f, k)
      <4>1. \A k \in 0..i - 1 : k \in 0..c - 1
        BY <2>1
      <4> QED BY <1>3, <4>1
    <3> QED BY <2>1, <3>1, <3>2
  <2>2. CASE i >= c /\ At(g, i) = [of |-> r, byte |-> i - c + 1]
    <3>1. At(g, i).of = r /\ At(g, i).byte = i - c + 1
      BY <2>2
    <3>2. ASSUME At(g, i).byte = 1, NEW k \in 0..i - 1
          PROVE  At(g, k).of.n < At(g, i).of.n
      <4>1. k \in 0..c - 1
        BY <3>1, <3>2
      <4>2. At(g, k) = At(f, k)
        BY <1>3, <4>1
      <4> QED BY <1>5, <3>1, <4>1, <4>2
    <3> QED BY <1>5, <3>1, <3>2
  <2> QED BY <1>7, <2>1, <2>2
<1>9. ASSUME NEW j \in 1..Len(u), u[j].n # None, NEW i \in 0..c + l - 1
      PROVE  At(g, i).of.n < u[j].n
  <2>1. CASE i \in 0..c - 1 /\ At(g, i) = At(f, i)
    BY <1>2, <1>4, <1>9, <2>1 DEF Line
  <2>2. CASE i >= c /\ At(g, i) = [of |-> r, byte |-> i - c + 1]
    <3>1. At(g, i).of = r
      BY <2>2
    <3> QED BY <1>6, <1>9, <3>1
  <2> QED BY <1>7, <2>1, <2>2
<1>10. Line(h, w, g, 0, u, q)
  BY <1>3, <1>4, <1>8, <1>9 DEF Line
<1> QED BY <1>10 DEF g, r, u

(* The caller makes reports; those for the FIFO get the next numbers.      *)
LEMMA LineCalled ==
  ASSUME NEW h \in Nat, NEW w \in Seq(Reports), NEW f \in Fifos, Framed(f),
         NEW s \in Nat, NEW q \in Nat, Line(h, w, f, s, <<>>, q),
         NEW t \in Seq(Reports), NEW p \in Nat,
         \/ p = q /\ \A i \in 1..Len(t) : t[i].n = None
         \/ p = q + Len(t) /\ \A i \in 1..Len(t) : t[i].n = q + i
  PROVE  Line(h, w, f, s, t, p)
<1>1. Len(t) \in Nat
  BY LenProperties
<1>2. /\ h <= q
      /\ \A i \in 1..Len(w) : w[i].n <= q /\ (w[i].n # None => h < w[i].n)
      /\ \A i \in 0..Overflowable(f) - 1 :
           /\ At(f, i).of.n <= q
           /\ i >= s => Behind(h, w, At(f, i).of.n)
           /\ At(f, i).byte = 1 =>
                \A k \in 0..i - 1 : At(f, k).of.n < At(f, i).of.n
  BY DEF Line
<1>3. /\ \A i \in 0..Overflowable(f) - 1 : At(f, i).of.n \in Nat
      /\ \A i \in 1..Len(w) : w[i].n \in Nat
  BY CellsTyped, ElementOfSeq DEF Reports
<1>4. CASE p = q /\ \A i \in 1..Len(t) : t[i].n = None
  BY <1>2, <1>4 DEF Line
<1>5. CASE p = q + Len(t) /\ \A i \in 1..Len(t) : t[i].n = q + i
  <2>1. q <= p
    BY <1>1, <1>5
  <2>2. h <= p
    BY <1>2, <2>1
  <2>5. ASSUME NEW i \in 1..Len(w) PROVE w[i].n <= p
    <3>1. PICK n \in Nat : n = w[i].n /\ n <= q
      BY <1>2, <1>3
    <3> QED BY <2>1, <3>1
  <2>3. ASSUME NEW i \in 0..Overflowable(f) - 1
        PROVE  At(f, i).of.n <= p
    <3>1. PICK n \in Nat : n = At(f, i).of.n /\ n <= q
      BY <1>2, <1>3
    <3> QED BY <2>1, <3>1
  <2>4. ASSUME NEW j \in 1..Len(t)
        PROVE  /\ t[j].n <= p
               /\ Behind(h, w, t[j].n)
               /\ \A i \in 0..Overflowable(f) - 1 : At(f, i).of.n < t[j].n
               /\ \A i \in 1..j - 1 : t[i].n < t[j].n
    <3>1. PICK n \in Nat : n = t[j].n /\ q < n /\ n <= p
      BY <1>1, <1>5
    <3>2. Behind(h, w, n)
      <4>1. h < n
        BY <1>2, <3>1
      <4>2. ASSUME NEW i \in 1..Len(w) PROVE w[i].n < n
        <5>1. PICK m \in Nat : m = w[i].n /\ m <= q
          BY <1>2, <1>3
        <5> QED BY <3>1, <5>1
      <4> QED BY <4>1, <4>2 DEF Behind
    <3>3. ASSUME NEW i \in 0..Overflowable(f) - 1 PROVE At(f, i).of.n < n
      <4>1. PICK m \in Nat : m = At(f, i).of.n /\ m <= q
        BY <1>2, <1>3
      <4> QED BY <3>1, <4>1
    <3>4. ASSUME NEW i \in 1..j - 1 PROVE t[i].n < t[j].n
      <4>1. i \in 1..Len(t) /\ i < j
        BY <1>1
      <4>2. t[i].n = q + i /\ t[j].n = q + j
        BY <1>5, <4>1
      <4> QED BY <4>1, <4>2
    <3> QED BY <3>1, <3>2, <3>3, <3>4
  <2> QED BY <1>2, <2>2, <2>3, <2>4, <2>5 DEF Line
<1> QED BY <1>4, <1>5

LEMMA JustSentIs ==
  ASSUME TypeOK, DataInv
  PROVE  /\ JustSent \in Nat
         /\ pc # "settle" => JustSent = 0
         /\ pc = "settle" =>
              /\ out[1] \in Reports
              /\ JustSent = IF ~IsMouse(out[1]) /\ ok THEN FrameLen(out[1])
                                                      ELSE 0
<1>1. CASE pc # "settle"
  BY <1>1 DEF JustSent
<1>2. CASE pc = "settle"
  <2>1. out[1] \in Reports
    BY <1>2 DEF TypeOK, DataInv
  <2>2. (out[1].n # None) = ~IsMouse(out[1])
    BY <2>1 DEF Reports
  <2>3. FrameLen(out[1]) \in Nat /\ Len(FrameOf(out[1])) = FrameLen(out[1])
    BY <2>1, FrameIs
  <2> QED BY <1>2, <2>1, <2>2, <2>3 DEF JustSent
<1> QED BY <1>1, <1>2

LEMMA JustSentTyped ==
  TypeOK /\ DataInv =>
    JustSent \in Nat /\ (pc # "settle" => JustSent = 0)
BY JustSentIs

LEMMA OnlyOne ==
  ASSUME NEW s \in Seq(Reports), s # <<>>, Len(s) <= 1
  PROVE  s = <<s[1]>> /\ s[1] \in Reports
<1>1. Len(s) = 1
  <2>1. PICK n \in Nat \ {0} : n = Len(s)
    BY EmptySeq
  <2>2. n <= 1
    BY <2>1
  <2>3. n = 1
    BY <2>2
  <2> QED BY <2>1, <2>3
<1>2. DOMAIN s = 1..1 /\ s[1] \in Reports
  BY <1>1, LenProperties, ElementOfSeq
<1> DEFINE u == <<s[1]>>
<1>3. Len(u) = 1 /\ u[1] = s[1] /\ u \in Seq(Reports)
  BY <1>2
<1> HIDE DEF u
<1>4. s = u
  BY <1>1, <1>3, SeqEqual
<1> QED BY <1>2, <1>4 DEF u

LEMMA CallOrder ==
  ASSUME IInv, Caller
  PROVE  OrderInv'
<1> SUFFICES ASSUME ~over' PROVE OrderInv'
  BY DEF OrderInv
<1>1. PICK id \in Ids, new \in Vals, vals \in Seq(Vals) : Call(id, new, vals)
  BY CallerCalls DEF IInv
<1>2. UNCHANGED <<pc, out, ok, tx_ff_hid, wire, host, over>> /\ todo = <<>>
  BY <1>1 DEF Call
<1>3. JustSent' = JustSent /\ JustSent \in Nat
  BY <1>2, JustSentIs DEF JustSent, IInv
<1>4. Line(host.n, wire, tx_ff_hid, JustSent, <<>>, queued)
      /\ Framed(tx_ff_hid)
  BY <1>2 DEF IInv, OrderInv, FrameInv
<1>5. /\ todo' \in Seq(Reports) /\ queued' \in Nat
      /\ host.n \in Nat /\ wire \in Seq(Reports) /\ tx_ff_hid \in Fifos
      /\ queued \in Nat
  BY <1>1, CallTyped DEF IInv, DataInv
<1>6. Len(vals) \in Nat
  BY LenProperties
<1>7. Len(todo') = Len(vals)
  BY <1>1, <1>6 DEF Call
<1>8. \A i \in 1..Len(vals) :
        todo'[i].n = IF id = "mouse" THEN 0 ELSE queued + i
  BY <1>1 DEF Call
<1>9. queued' = IF id = "mouse" THEN queued ELSE queued + Len(vals)
  BY <1>1 DEF Call
<1>10. \/ queued' = queued /\ \A i \in 1..Len(todo') : todo'[i].n = None
       \/ /\ queued' = queued + Len(todo')
          /\ \A i \in 1..Len(todo') : todo'[i].n = queued + i
  <2>1. CASE id = "mouse"
    BY <1>7, <1>8, <1>9, <2>1 DEF None
  <2>2. CASE id # "mouse"
    BY <1>7, <1>8, <1>9, <2>2
  <2> QED BY <2>1, <2>2
<1>11. Line(host.n, wire, tx_ff_hid, JustSent, todo', queued')
  BY <1>3, <1>4, <1>5, <1>10, LineCalled
<1> QED BY <1>2, <1>3, <1>11 DEF OrderInv

LEMMA LoopOrder ==
  ASSUME IInv, MainLoop, UNCHANGED <<report, made, queued>>
  PROVE  OrderInv'
<1> DEFINE f == tx_ff_hid
           L(w, g, s, t) == Line(host.n, w, g, s, t, queued)
<1> HIDE DEF L
<1> SUFFICES ASSUME ~over' PROVE OrderInv'
  BY DEF OrderInv
<1>1. TypeOK' /\ DataInv'
  BY LoopTyped DEF IInv
<1>2. /\ f \in Fifos /\ todo \in Seq(Reports) /\ wire \in Seq(Reports)
      /\ host.n \in Nat /\ queued \in Nat /\ JustSent \in Nat
      /\ pc = "mounted?" => todo # <<>>
  BY JustSentIs DEF IInv, DataInv
<1>3. /\ JustSent' \in Nat
      /\ pc' # "settle" => JustSent' = 0
      /\ pc # "settle" => JustSent = 0
      /\ pc = "settle" =>
           /\ out[1] \in Reports
           /\ JustSent = IF ~IsMouse(out[1]) /\ ok THEN FrameLen(out[1]) ELSE 0
  <2>1. JustSent' \in Nat /\ (pc' # "settle" => JustSent' = 0)
    <3>1. (TypeOK /\ DataInv)'
      BY <1>1
    <3>2. (JustSent \in Nat /\ (pc # "settle" => JustSent = 0))'
      BY <3>1, JustSentTyped, PTL
    <3> QED BY <3>2
  <2> QED BY <2>1, JustSentIs DEF IInv
<1>4. ~over /\ host' = host
  <2>1. CASE QueueReport
    <3>1. over => over'
      BY <2>1 DEF QueueReport
    <3> QED BY <2>1, <3>1 DEF QueueReport
  <2>2. CASE ~QueueReport
    <3>1. UNCHANGED <<over, host>>
      BY <2>2 DEF MainLoop, SendReport, DropUnmounted, SendMouse,
                  SendLastReport, EdptClaim, EdptXfer, Settle
    <3> QED BY <3>1
  <2> QED BY <2>1, <2>2
<1>5. L(wire, f, JustSent, todo) /\ Framed(f)
  BY <1>4 DEF IInv, OrderInv, FrameInv, L
<1>6. L(wire', f', JustSent', todo') => OrderInv'
  BY <1>4 DEF OrderInv, L
<1>7. CASE SendReport \/ DropUnmounted \/ SendMouse
  <2>1. /\ UNCHANGED <<tx_ff_hid, wire>> /\ pc # "settle" /\ pc' # "settle"
        /\ todo # <<>> /\ todo' \in {todo, Tail(todo)}
    BY <1>2, <1>7 DEF SendReport, DropUnmounted, SendMouse
  <2>2. L(wire, f, 0, todo) /\ L(wire, f, 0, Tail(todo))
    BY <1>2, <1>3, <1>5, <2>1, LineOfTail DEF L
  <2> QED BY <1>3, <1>6, <2>1, <2>2
<1>8. CASE QueueReport
  <2> DEFINE r == Head(todo)
  <2>1. /\ pc # "settle" /\ pc' # "settle" /\ wire' = wire /\ todo # <<>>
        /\ ~IsMouse(r) /\ r \in Reports /\ todo' = Tail(todo)
        /\ f' = WriteN(WriteN(f, Header(r)), Data(r))
    BY <1>2, <1>8, HeadOfTodo DEF QueueReport, IsMouse
  <2>2. ~(Overflowable(f) + FrameLen(r) > Depth)
    BY <1>8, <2>1, FrameIs DEF QueueReport
  <2>3. Overflowable(f) \in Nat /\ FrameLen(r) \in Nat
    <3>1. Overflowable(f) \in Nat
      BY <1>2, CountIs, DepthAssumption
    <3>2. FrameLen(r) \in Nat
      BY <2>1, FrameIs
    <3> QED BY <3>1, <3>2
  <2>4. Overflowable(f) + FrameLen(r) <= Depth
    BY <2>2, <2>3, DepthAssumption
  <2>5. L(wire, f, 0, todo)
    BY <1>3, <1>5, <2>1
  <2>6. L(wire, f', 0, todo')
    BY <1>2, <1>5, <2>1, <2>4, <2>5, LineQueued DEF L
  <2> QED BY <1>3, <1>6, <2>1, <2>6
<1>9. CASE SendLastReport
  <2>1. /\ pc # "settle" /\ pc' # "settle" /\ UNCHANGED <<wire, todo>>
        /\ f' = CorrectReadIndex(f)
    BY <1>9 DEF SendLastReport
  <2>2. f' = f
    <3>1. Overflowable(f) <= Depth => CorrectReadIndex(f) = f
      BY <1>2, CorrectedIs
    <3> QED BY <1>5, <2>1, <3>1 DEF Framed
  <2> QED BY <1>3, <1>5, <1>6, <2>1, <2>2
<1>10. CASE EdptClaim
  <2>1. /\ pc # "settle" /\ UNCHANGED <<wire, todo, tx_ff_hid>>
        /\ pc' = "settle" => ok' = FALSE
    BY <1>10 DEF EdptClaim
  <2>2. JustSent' = 0
    BY <1>3, <2>1 DEF JustSent
  <2> QED BY <1>3, <1>5, <1>6, <2>1, <2>2
<1>11. CASE EdptXfer
  <2>1. /\ pc = "xfer" /\ pc' = "settle" /\ UNCHANGED <<todo, tx_ff_hid, out>>
        /\ wire' = IF ok' /\ Ep = "hid" THEN out ELSE wire
    BY <1>11 DEF EdptXfer
  <2>2. L(wire, f, 0, todo)
    BY <1>3, <1>5, <2>1
  <2>3. CASE wire' = wire
    <3>1. L(wire, f, JustSent', todo)
      BY <1>2, <1>3, <2>2, LineSent DEF L
    <3> QED BY <1>6, <2>1, <2>3, <3>1
  <2>4. CASE wire' = out /\ ok'
    <3>1. out = <<out[1]>> /\ out[1] \in Reports
      <4>1. out # <<>> /\ Len(out) <= 1 /\ out \in Seq(Reports)
        BY <2>1 DEF IInv, TypeOK, DataInv
      <4> QED BY <4>1, OnlyOne
    <3>2. CASE IsMouse(out[1])
      <4>1. L(<<out[1]>>, f, 0, todo)
        BY <1>2, <1>5, <2>2, <3>1, <3>2, LineMouse DEF L
      <4>2. L(<<out[1]>>, f, JustSent', todo)
        <5>1. <<out[1]>> \in Seq(Reports)
          BY <3>1
        <5> QED BY <1>2, <1>3, <4>1, <5>1, LineSent DEF L
      <4> QED BY <1>6, <2>1, <2>4, <3>1, <4>2
    <3>3. CASE ~IsMouse(out[1])
      <4>1. HasFrame(f, 0, out[1])
        BY <1>4, <2>1, <3>3 DEF IInv, FrameInv, SendingPcs
      <4>2. L(<<out[1]>>, f, FrameLen(out[1]), todo)
        BY <1>2, <1>5, <2>2, <3>1, <3>3, <4>1, LineFirst DEF L
      <4>3. JustSent' = FrameLen(out[1])
        <5>1. out[1].n # None /\ Len(FrameOf(out[1])) = FrameLen(out[1])
          BY <3>1, <3>3, FrameIs DEF Reports
        <5> QED BY <2>1, <2>4, <5>1 DEF JustSent
      <4> QED BY <1>6, <2>1, <2>4, <3>1, <4>2, <4>3
    <3> QED BY <3>2, <3>3
  <2> QED BY <2>1, <2>3, <2>4
<1>12. CASE Settle
  <2>1. /\ pc = "settle" /\ pc' # "settle" /\ UNCHANGED <<todo, wire>>
        /\ out[1] \in Reports
    BY <1>3, <1>12 DEF Settle
  <2>2. CASE out[1].id # "mouse" /\ Discard
    <3>1. f' = AdvanceReadPointer(f, FrameLen(out[1]))
      BY <1>12, <2>1, <2>2, FrameIs DEF Settle, Consumed
    <3>2. HasFrame(f, 0, out[1])
      BY <1>4, <2>1, <2>2 DEF IInv, FrameInv, SendingPcs, IsMouse
    <3>3. JustSent = 0 \/ JustSent = FrameLen(out[1])
      BY <1>3, <2>1
    <3>4. L(wire, f', 0, todo)
      BY <1>2, <1>5, <2>1, <3>1, <3>2, <3>3, LineDropped DEF L
    <3> QED BY <1>3, <1>6, <2>1, <3>4
  <2>3. CASE ~(out[1].id # "mouse" /\ Discard)
    <3>1. f' = f
      BY <1>12, <2>3 DEF Settle
    <3>2. JustSent = 0
      BY <1>3, <2>1, <2>3 DEF Discard, IsMouse
    <3> QED BY <1>3, <1>5, <1>6, <2>1, <3>1, <3>2
  <2> QED BY <2>2, <2>3
<1> QED BY <1>7, <1>8, <1>9, <1>10, <1>11, <1>12 DEF MainLoop

LEMMA UsbOrder ==
  ASSUME IInv, Usb, UNCHANGED <<report, made, queued>>
  PROVE  OrderInv'
<1> SUFFICES ASSUME ~over' PROVE OrderInv'
  BY DEF OrderInv
<1>1. UNCHANGED <<todo, pc, out, ok, tx_ff_hid, over>>
  BY DEF Usb, Poll, Setup, Suspend, Resume, Unplug, UsbdReset
<1>2. /\ tx_ff_hid \in Fifos /\ todo \in Seq(Reports) /\ wire \in Seq(Reports)
      /\ host.n \in Nat /\ queued \in Nat /\ JustSent \in Nat
      /\ Framed(tx_ff_hid)
      /\ Line(host.n, wire, tx_ff_hid, JustSent, todo, queued)
  BY <1>1, JustSentIs DEF IInv, DataInv, OrderInv, FrameInv
<1>3. JustSent' = JustSent
  BY <1>1 DEF JustSent
<1>4. CASE UNCHANGED <<wire, host>>
  BY <1>1, <1>2, <1>3, <1>4 DEF OrderInv
<1>5. CASE Poll
  <2>1. wire = <<wire[1]>> /\ wire[1] \in Reports
    <3>1. wire # <<>> /\ Len(wire) <= 1 /\ wire \in Seq(Reports)
      BY <1>5 DEF Poll, IInv, TypeOK, DataInv
    <3> QED BY <3>1, OnlyOne
  <2>2. wire' = <<>>
        /\ host'.n = IF IsMouse(wire[1]) THEN host.n ELSE wire[1].n
    BY <1>5 DEF Poll, IsMouse
  <2>3. Line(host.n, <<wire[1]>>, tx_ff_hid, JustSent, todo, queued)
    BY <1>2, <2>1
  <2>4. Line(host'.n, <<>>, tx_ff_hid, JustSent, todo, queued)
    BY <1>2, <2>1, <2>2, <2>3, LineTaken
  <2> QED BY <1>1, <1>3, <2>2, <2>4 DEF OrderInv
<1>6. CASE UsbdReset
  <2>1. wire' = <<>> /\ host' = host
    BY <1>6 DEF UsbdReset
  <2>2. Line(host.n, <<>>, tx_ff_hid, JustSent, todo, queued)
    BY <1>2, LineWithoutWire
  <2> QED BY <1>1, <1>3, <2>1, <2>2 DEF OrderInv
<1>7. (\E c \in BOOLEAN : Setup(c)) \/ Suspend \/ Resume \/ Unplug =>
        UNCHANGED <<wire, host>>
  BY DEF Setup, Suspend, Resume, Unplug
<1> QED BY <1>4, <1>5, <1>6, <1>7 DEF Usb

-----------------------------------------------------------------------------
(***************************************************************************)
(* The theorems.                                                           *)
(***************************************************************************)

LEMMA InitInv ==
  ASSUME Init
  PROVE  IInv
<1> DEFINE f == FifoConfig(NoCell)
<1>1. /\ todo = <<>> /\ pc = "idle" /\ out = <<>> /\ ok = FALSE
      /\ tx_ff_hid = f /\ dev = Unconfigured /\ wire = <<>>
      /\ host = [val |-> [id \in Ids |-> {}], n |-> 0]
      /\ disturbed = FALSE /\ over = FALSE
      /\ report = [id \in Ids |-> {}] /\ made = 0 /\ queued = 0
  BY DEF Init, HidInit, NoCell
<1>2. <<>> \in Seq(Reports) /\ Len(<<>>) = 0
  BY EmptySeq
<1>3. f \in Fifos /\ f.rd \in Indices /\ f.wr \in Indices
  BY DepthAssumption DEF FifoConfig, Fifos, Cells, Indices
<1>4. Overflowable(f) = 0
  BY DEF FifoConfig, Overflowable, CountBetween
<1>5. dev \in Devs /\ dev.hid = "free" /\ dev.ctl = "free"
      /\ dev.suspended = FALSE /\ dev.mounted = FALSE
  BY <1>1 DEF Unconfigured, Devs, EpStates
<1> HIDE DEF f
<1>6. DataInv
  <2>1. host \in [val : [Ids -> Vals], n : Nat] /\ report \in [Ids -> Vals]
    BY <1>1, ValsAre
  <2> QED BY <1>1, <1>2, <1>3, <1>5, <2>1 DEF DataInv
<1>7. TypeOK
  <2>1. \A e \in {"hid", "ctl"} : dev[e] \in {"free", "claimed", "busy"}
    BY <1>5
  <2>2. (pc \in {"claim", "xfer", "settle"}) = (out # <<>>)
    BY <1>1
  <2> QED BY <1>1, <1>2, <1>3, <1>5, <2>1, <2>2 DEF TypeOK
<1>8. ClaimInv
  BY <1>5 DEF ClaimInv
<1>9. Framed(f)
  BY <1>4, DepthAssumption DEF Framed
<1>10. FrameInv
  BY <1>1, <1>9 DEF FrameInv, SendingPcs
<1>11. Line(0, <<>>, f, 0, <<>>, 0)
  BY <1>2, <1>4 DEF Line
<1>12. OrderInv
  BY <1>1, <1>11 DEF OrderInv, JustSent
<1> QED BY <1>6, <1>7, <1>8, <1>10, <1>12 DEF IInv

LEMMA NextInv ==
  ASSUME IInv, [Next]_vars
  PROVE  IInv'
<1>1. CASE Caller
  <2>1. TypeOK' /\ DataInv'
    BY <1>1, CallerCalls, CallTyped DEF IInv
  <2> QED BY <1>1, <2>1, ClaimStep, FrameStep, CallOrder DEF IInv
<1>2. CASE (MainLoop \/ Usb) /\ UNCHANGED <<report, made, queued>>
  <2>1. TypeOK' /\ DataInv'
    BY <1>2, LoopTyped, UsbTyped DEF IInv
  <2>2. OrderInv'
    BY <1>2, LoopOrder, UsbOrder
  <2> QED BY <2>1, <2>2, ClaimStep, FrameStep DEF IInv
<1>3. CASE UNCHANGED vars
  BY <1>3 DEF vars, hidVars, IInv, TypeOK, DataInv, ClaimInv, FrameInv,
              OrderInv, JustSent
<1> QED BY <1>1, <1>2, <1>3 DEF Next

THEOREM Invariance == Spec => []IInv
BY InitInv, NextInv, PTL DEF Spec

(* Every variable keeps its type: the endpoints are in one of their states *)
(* and there is a report in hand exactly while one is being sent.          *)
THEOREM TypeCorrect == Spec => []TypeOK
<1>1. IInv => TypeOK
  BY DEF IInv
<1> QED BY <1>1, Invariance, PTL

(* As long as nothing was overwritten, whatever the host does the bytes    *)
(* SendLastReport reads are a whole report, as SendReport_ put it there.   *)
THEOREM FramesAreKept == Spec => []FramesKept
<1>1. IInv => FramesKept
  BY DEF IInv, FrameInv, FramesKept
<1> QED BY <1>1, Invariance, PTL

(* No reset, suspend or configuration between the claim of an endpoint and *)
(* its transfer leaves the endpoint claimed for ever.                      *)
THEOREM NoClaimIsLeft == Spec => []NoClaimLeft
<1>1. IInv => NoClaimLeft
  BY DEF IInv, ClaimInv, NoClaimLeft
<1> QED BY <1>1, Invariance, PTL

(* No queued report reaches the host twice or after a later one, however   *)
(* many reports are made and however often the host goes away.             *)
THEOREM OnceAndInOrder == Spec => []NeverTwice
<1>1. IInv => NeverTwice
  <2> SUFFICES ASSUME IInv, ~over PROVE NeverTwice
    BY DEF NeverTwice
  <2> DEFINE f == tx_ff_hid
             c == Overflowable(f)
             cells == PeekN(f, FifoCount(f))
             s == JustSent
  <2>1. /\ f \in Fifos /\ Framed(f) /\ s \in Nat
        /\ Line(host.n, wire, f, s, todo, queued)
        /\ wire \in Seq(Reports) /\ todo \in Seq(Reports)
    BY JustSentIs DEF IInv, DataInv, FrameInv, OrderInv
  <2>2. c \in 0..c /\ c \in Nat /\ c <= Depth
    BY <2>1, CellsTyped DEF Framed
  <2>3. FifoCount(f) = c
    BY <2>1, <2>2, CorrectedIs
  <2>4. cells = [i \in 1..c |-> At(f, i - 1)]
    BY <2>1, <2>2, <2>3, PeekIs
  <2> HIDE DEF cells, c
  <2>5. Len(cells) = c /\ \A i \in 1..c : cells[i] = At(f, i - 1)
    BY <2>2, <2>4
  <2>6. \A i \in 1..c : i - 1 \in 0..c - 1
    BY <2>2
  <2>7. DOMAIN wire = 1..Len(wire) /\ DOMAIN todo = 1..Len(todo)
    BY <2>1, LenProperties
  <2> DEFINE waiting == s + 1..Len(cells)
             IsNew(n) == host.n < n /\ \A i \in DOMAIN wire : wire[i].n < n
  <2>8. \A n : Behind(host.n, wire, n) <=> IsNew(n)
    BY <2>7 DEF Behind
  <2>9. \A j \in waiting : j \in 1..c /\ j - 1 \in 0..c - 1 /\ j - 1 >= s
    BY <2>1, <2>2, <2>5
  <2> HIDE DEF IsNew, s
  <2>10. \A i \in DOMAIN wire : IsQueued(wire[i].n) => host.n < wire[i].n
    BY <2>1, <2>7 DEF Line, IsQueued
  <2>11. ASSUME NEW j \in waiting
         PROVE  /\ IsNew(cells[j].of.n)
                /\ HeaderOf(cells[j]) =>
                     \A i \in s + 1..j - 1 : cells[i].of.n < cells[j].of.n
    <3>1. cells[j] = At(f, j - 1) /\ j \in 1..c /\ j - 1 \in 0..c - 1
          /\ j - 1 >= s
      BY <2>5, <2>9
    <3>2. IsNew(cells[j].of.n)
      BY <2>1, <2>8, <3>1 DEF Line, c
    <3>3. ASSUME HeaderOf(cells[j]), NEW i \in s + 1..j - 1
          PROVE  cells[i].of.n < cells[j].of.n
      <4>1. i \in 1..c /\ i - 1 \in 0..(j - 1) - 1
        BY <2>1, <2>2, <3>1
      <4>2. cells[i] = At(f, i - 1)
        BY <2>5, <4>1
      <4>3. At(f, i - 1).of.n < At(f, j - 1).of.n
        BY <2>1, <3>1, <3>3, <4>1 DEF Line, c, HeaderOf
      <4> QED BY <3>1, <4>2, <4>3
    <3> QED BY <3>2, <3>3
  <2>12. ASSUME NEW j \in DOMAIN todo, IsQueued(todo[j].n)
         PROVE  /\ IsNew(todo[j].n)
                /\ \A i \in waiting : cells[i].of.n < todo[j].n
                /\ \A i \in 1..j - 1 : todo[i].n < todo[j].n
    <3>1. /\ Behind(host.n, wire, todo[j].n)
          /\ \A i \in 0..c - 1 : At(f, i).of.n < todo[j].n
          /\ \A i \in 1..j - 1 : todo[i].n < todo[j].n
      BY <2>1, <2>7, <2>12 DEF Line, IsQueued, c
    <3>2. ASSUME NEW i \in waiting PROVE cells[i].of.n < todo[j].n
      <4>1. cells[i] = At(f, i - 1) /\ i - 1 \in 0..c - 1
        BY <2>5, <2>9
      <4> QED BY <3>1, <4>1
    <3> QED BY <2>8, <3>1, <3>2
  <2> QED BY <2>10, <2>11, <2>12 DEF NeverTwice, cells, IsNew, s
<1> QED BY <1>1, Invariance, PTL

-----------------------------------------------------------------------------
(***************************************************************************)
(* What a host that stays ready gets.  Under way are the queued reports on *)
(* the wire, in the FIFO without its first s bytes, and with the caller.   *)
(***************************************************************************)

Under(w, f, s, t) ==
  {r \in {w[i] : i \in 1..Len(w)}
           \cup {At(f, i).of : i \in s..Overflowable(f) - 1}
           \cup {t[i] : i \in 1..Len(t)} : ~IsMouse(r)}

(* Every number the host has not seen yet is under way.                    *)
Covered(U, h, q) == \A n \in h + 1..q : \E r \in U : r.n = n

Of(U, id) == {r \in U : r.id = id}

(* The last report of a class that is under way or, if there is none, what *)
(* the host holds, is what the class has composed.                         *)
LastIs(U, v, x) ==
  \/ U = {} /\ v = x
  \/ \E r \in U : r.val = x /\ \A s \in U : s.n <= r.n

(* What a report of the keyboard may change at once, from a to b on the    *)
(* way to g.                                                               *)
Legal(a, b, g) ==
  /\ a \cap Modifiers = b \cap Modifiers \/ a \cap Keys = b \cap Keys
  /\ a \cap Modifiers # b \cap Modifiers => b \cap Keys \subseteq g
  /\ ~((b \cap Keys) \subseteq a) => b \cap Modifiers = g \cap Modifiers

(* Each of the reports U follows another one of them or, the first, v.     *)
Follows(U, v, r) ==
  \/ Legal(v, r.val, r.goal) /\ \A s \in U : r.n <= s.n
  \/ \E p \in U : /\ p.n < r.n /\ Legal(p.val, r.val, r.goal)
                  /\ \A s \in U : s.n <= p.n \/ r.n <= s.n

Delivery(U, h, v, x, q) ==
  /\ Covered(U, h, q)
  /\ \A id \in Ids \ {"mouse"} : LastIs(Of(U, id), v[id], x[id])
  /\ \A r \in Of(U, "keyboard") :
       Follows(Of(U, "keyboard"), v["keyboard"], r)

DeliveryInv ==
  Sound => Delivery(Under(wire, tx_ff_hid, JustSent, todo),
                    host.n, host.val, report, queued)

(* A device that was not disturbed is ready, or nothing was made yet; what *)
(* is in the endpoint's buffer keeps the endpoint busy.                    *)
Ready == dev.mounted /\ ~dev.suspended
Untouched == /\ pc = "idle" /\ todo = <<>> /\ wire = <<>>
             /\ FifoCount(tx_ff_hid) = 0

ReadyInv ==
  /\ wire # <<>> => dev.hid = "busy"
  /\ dev.mounted => dev.connected
  /\ ~disturbed => Ready \/ Untouched
  /\ report["keyboard"] \subseteq Modifiers \cup Keys

LEMMA UnderIs ==
  ASSUME NEW w, NEW f, NEW s, NEW t, NEW r
  PROVE  r \in Under(w, f, s, t) <=>
           /\ ~IsMouse(r)
           /\ \/ \E i \in 1..Len(w) : w[i] = r
              \/ \E i \in s..Overflowable(f) - 1 : At(f, i).of = r
              \/ \E i \in 1..Len(t) : t[i] = r
BY DEF Under

LEMMA UnderTyped ==
  ASSUME NEW w \in Seq(Reports), NEW f \in Fifos, Framed(f), NEW s \in Nat,
         NEW t \in Seq(Reports), NEW r \in Under(w, f, s, t)
  PROVE  r \in Reports /\ r.n \in Nat \ {None} /\ r.id \in Ids \ {"mouse"}
<1>1. r \in Reports
  <2>1. CASE \E i \in 1..Len(w) : w[i] = r
    BY <2>1, ElementOfSeq
  <2>2. CASE \E i \in s..Overflowable(f) - 1 : At(f, i).of = r
    <3>1. PICK i \in s..Overflowable(f) - 1 : At(f, i).of = r
      BY <2>2
    <3>2. i \in 0..Overflowable(f) - 1
      BY CellsTyped
    <3>3. At(f, i) \in Frames
      BY <3>2, CellsTyped
    <3> QED BY <3>1, <3>3 DEF Frames
  <2>3. CASE \E i \in 1..Len(t) : t[i] = r
    BY <2>3, ElementOfSeq
  <2> QED BY <2>1, <2>2, <2>3, UnderIs
<1>2. ~IsMouse(r)
  BY UnderIs
<1> QED BY <1>1, <1>2 DEF Reports, IsMouse

(* What is under way has numbers that the host has not seen.               *)
LEMMA UnderLine ==
  ASSUME NEW h \in Nat, NEW w \in Seq(Reports), NEW f \in Fifos, Framed(f),
         NEW s \in Nat, NEW t \in Seq(Reports), NEW q \in Nat,
         Line(h, w, f, s, t, q), NEW r \in Under(w, f, s, t)
  PROVE  r.n \in h + 1..q
<1>1. r.n \in Nat /\ r.n # None
  BY UnderTyped
<1>2. CASE \E i \in 1..Len(w) : w[i] = r
  <2>1. h < r.n /\ r.n <= q
    BY <1>1, <1>2 DEF Line
  <2> QED BY <1>1, <2>1
<1>3. CASE \E i \in s..Overflowable(f) - 1 : At(f, i).of = r
  <2>1. PICK i \in s..Overflowable(f) - 1 : At(f, i).of = r
    BY <1>3
  <2>2. i \in 0..Overflowable(f) - 1 /\ i >= s
    BY CellsTyped
  <2>3. h < r.n /\ r.n <= q
    BY <2>1, <2>2 DEF Line, Behind
  <2> QED BY <1>1, <2>3
<1>4. CASE \E i \in 1..Len(t) : t[i] = r
  <2>1. h < r.n /\ r.n <= q
    BY <1>1, <1>4 DEF Line, Behind
  <2> QED BY <1>1, <2>1
<1> QED BY <1>2, <1>3, <1>4, UnderIs

(* The steps of the loop only move what is under way.                      *)
LEMMA UnderTail ==
  ASSUME NEW w, NEW f, NEW s, NEW t \in Seq(Reports), t # <<>>,
         IsMouse(Head(t))
  PROVE  Under(w, f, s, Tail(t)) = Under(w, f, s, t)
<1> DEFINE u == Tail(t)
<1>1. /\ t[1] = Head(t) /\ Len(t) \in Nat \ {0} /\ Len(u) = Len(t) - 1
      /\ \A i \in 1..Len(u) : u[i] = t[i + 1]
  BY HeadTailProperties, LenProperties, EmptySeq
<1> HIDE DEF u
<1>2. ASSUME NEW r, ~IsMouse(r)
      PROVE  (\E i \in 1..Len(u) : u[i] = r) <=> (\E i \in 1..Len(t) : t[i] = r)
  <2>1. ASSUME NEW i \in 1..Len(u), u[i] = r
        PROVE  \E j \in 1..Len(t) : t[j] = r
    <3>1. i + 1 \in 1..Len(t) /\ t[i + 1] = r
      BY <1>1, <2>1
    <3> QED BY <3>1
  <2>2. ASSUME NEW j \in 1..Len(t), t[j] = r
        PROVE  \E i \in 1..Len(u) : u[i] = r
    <3>1. j # 1
      BY <1>1, <1>2, <2>2
    <3>2. j - 1 \in 1..Len(u) /\ (j - 1) + 1 = j
      BY <1>1, <3>1
    <3>3. u[j - 1] = r
      BY <1>1, <2>2, <3>2
    <3> QED BY <3>2, <3>3
  <2> QED BY <2>1, <2>2
<1>3. \A r : r \in Under(w, f, s, u) <=> r \in Under(w, f, s, t)
  BY <1>2, UnderIs
<1> QED BY <1>3 DEF Under, u

LEMMA UnderQueued ==
  ASSUME NEW w, NEW f \in Fifos, Framed(f), NEW t \in Seq(Reports), t # <<>>,
         ~IsMouse(Head(t)),
         Overflowable(f) + FrameLen(Head(t)) <= Depth
  PROVE  Under(w, WriteN(WriteN(f, Header(Head(t))), Data(Head(t))), 0,
               Tail(t))
           = Under(w, f, 0, t)
<1> DEFINE r == Head(t)
           g == WriteN(WriteN(f, Header(r)), Data(r))
           u == Tail(t)
<1>1. /\ r \in Reports /\ t[1] = r /\ Len(t) \in Nat \ {0}
      /\ Len(u) = Len(t) - 1 /\ \A i \in 1..Len(u) : u[i] = t[i + 1]
  BY HeadTailProperties, LenProperties, EmptySeq
<1>2. PICK c \in Nat, l \in Nat \ {0} : c = Overflowable(f) /\ l = FrameLen(r)
  BY <1>1, CellsTyped, FrameIs
<1>3. /\ Overflowable(g) = c + l
      /\ \A i \in 0..c - 1 : At(g, i) = At(f, i)
      /\ \A k \in 1..l : At(g, c + k - 1) = [of |-> r, byte |-> k]
  BY <1>1, <1>2, QueueAppends
<1> HIDE DEF g, r, u
<1>4. ASSUME NEW x, x \in Under(w, g, 0, u) PROVE x \in Under(w, f, 0, t)
  <2>1. CASE \E i \in 0..c + l - 1 : At(g, i).of = x
    <3>1. PICK i \in 0..c + l - 1 : At(g, i).of = x
      BY <2>1
    <3>2. CASE i < c
      <4>1. i \in 0..c - 1 /\ At(f, i).of = x
        BY <1>3, <3>1, <3>2
      <4> QED BY <1>2, <1>4, <4>1, UnderIs
    <3>3. CASE i >= c
      <4>1. PICK k \in 1..l : k = i - c + 1
        BY <3>3
      <4>2. c + k - 1 = i
        BY <4>1
      <4>3. At(g, i) = [of |-> r, byte |-> k]
        BY <1>3, <4>2
      <4>4. x = r
        BY <3>1, <4>3
      <4>5. x = t[1] /\ 1 \in 1..Len(t)
        BY <1>1, <4>4
      <4> QED BY <1>4, <4>5, UnderIs
    <3> QED BY <3>2, <3>3
  <2>2. CASE \E i \in 1..Len(u) : u[i] = x
    <3>1. PICK i \in 1..Len(u) : u[i] = x
      BY <2>2
    <3>2. i + 1 \in 1..Len(t) /\ t[i + 1] = x
      BY <1>1, <3>1
    <3> QED BY <1>4, <3>2, UnderIs
  <2>3. CASE \E i \in 1..Len(w) : w[i] = x
    BY <1>4, <2>3, UnderIs
  <2> QED BY <1>3, <1>4, <2>1, <2>2, <2>3, UnderIs
<1>5. ASSUME NEW x, x \in Under(w, f, 0, t) PROVE x \in Under(w, g, 0, u)
  <2>1. CASE \E i \in 0..c - 1 : At(f, i).of = x
    <3>1. PICK i \in 0..c - 1 : At(f, i).of = x
      BY <2>1
    <3>2. i \in 0..(c + l) - 1 /\ At(g, i).of = x
      BY <1>3, <3>1
    <3> QED BY <1>3, <1>5, <3>2, UnderIs
  <2>2. CASE \E i \in 1..Len(t) : t[i] = x
    <3>1. PICK i \in 1..Len(t) : t[i] = x
      BY <2>2
    <3>2. CASE i = 1
      <4>1. 1 \in 1..l /\ c + 1 - 1 = c /\ c \in 0..(c + l) - 1
        OBVIOUS
      <4>2. At(g, c) = [of |-> r, byte |-> 1]
        BY <1>3, <4>1
      <4>3. At(g, c).of = x
        BY <1>1, <3>1, <3>2, <4>2
      <4> QED BY <1>3, <1>5, <4>1, <4>3, UnderIs
    <3>3. CASE i # 1
      <4>1. i - 1 \in 1..Len(u) /\ (i - 1) + 1 = i
        BY <1>1, <3>3
      <4>2. u[i - 1] = x
        BY <1>1, <3>1, <4>1
      <4> QED BY <1>5, <4>1, <4>2, UnderIs
    <3> QED BY <3>2, <3>3
  <2>3. CASE \E i \in 1..Len(w) : w[i] = x
    BY <1>5, <2>3, UnderIs
  <2> QED BY <1>2, <1>5, <2>1, <2>2, <2>3, UnderIs
<1> QED BY <1>4, <1>5 DEF g, r, u

LEMMA UnderMouse ==
  ASSUME NEW r \in Reports, IsMouse(r), NEW f, NEW s, NEW t
  PROVE  Under(<<r>>, f, s, t) = Under(<<>>, f, s, t)
<1>1. \A x : ~IsMouse(x) => ~(\E i \in 1..Len(<<r>>) : <<r>>[i] = x)
  BY DEF IsMouse
<1>2. \A x : ~(\E i \in 1..Len(<<>>) : <<>>[i] = x)
  OBVIOUS
<1>3. \A x : x \in Under(<<r>>, f, s, t) <=> x \in Under(<<>>, f, s, t)
  BY <1>1, <1>2, UnderIs
<1> QED BY <1>3 DEF Under

(* The report on the wire is ahead of all others.                          *)
LEMMA UnderTaken ==
  ASSUME NEW r \in Reports, ~IsMouse(r), NEW f, NEW s, NEW t
  PROVE  Under(<<r>>, f, s, t) = {r} \cup Under(<<>>, f, s, t)
<1>1. \A x : (\E i \in 1..Len(<<r>>) : <<r>>[i] = x) <=> x = r
  <2>1. Len(<<r>>) = 1 /\ <<r>>[1] = r
    OBVIOUS
  <2> HIDE DEF None
  <2>2. ASSUME NEW x, x = r PROVE \E i \in 1..Len(<<r>>) : <<r>>[i] = x
    <3>1. 1 \in 1..Len(<<r>>) /\ <<r>>[1] = x
      BY <2>1, <2>2
    <3> QED BY <3>1
  <2>3. ASSUME NEW x, NEW i \in 1..Len(<<r>>), <<r>>[i] = x PROVE x = r
    BY <2>1, <2>3
  <2> QED BY <2>2, <2>3
<1>2. \A x : ~(\E i \in 1..Len(<<>>) : <<>>[i] = x)
  OBVIOUS
<1>3. \A x : x \in Under(<<r>>, f, s, t)
               <=> x = r \/ x \in Under(<<>>, f, s, t)
  BY <1>1, <1>2, UnderIs
<1> QED BY <1>3

LEMMA UnderFirst ==
  ASSUME NEW r \in Reports, ~IsMouse(r), NEW f \in Fifos, Framed(f),
         HasFrame(f, 0, r), NEW t
  PROVE  Under(<<r>>, f, FrameLen(r), t) = Under(<<>>, f, 0, t)
<1> DEFINE U == Under(<<r>>, f, FrameLen(r), t)
           V == Under(<<>>, f, FrameLen(r), t)
           W == Under(<<>>, f, 0, t)
<1>1. PICK c \in Nat, l \in Nat \ {0} : c = Overflowable(f) /\ l = FrameLen(r)
  BY CellsTyped, FrameIs
<1>2. l <= c /\ \A i \in 0..l - 1 : At(f, i).of = r
  <2>1. l <= c
    BY <1>1 DEF HasFrame
  <2>2. ASSUME NEW i \in 0..l - 1 PROVE At(f, i).of = r
    <3>1. i + 1 \in 1..l /\ 0 + (i + 1) - 1 = i
      OBVIOUS
    <3>2. At(f, 0 + (i + 1) - 1) = [of |-> r, byte |-> i + 1]
      BY <1>1, <3>1 DEF HasFrame
    <3> QED BY <3>1, <3>2
  <2> QED BY <2>1, <2>2
<1>3. U = {r} \cup V
  BY UnderTaken
<1>4. r \in W
  <2>1. 0 \in 0..c - 1 /\ At(f, 0).of = r
    BY <1>2
  <2> QED BY <1>1, <2>1, UnderIs
<1>5. ASSUME NEW x, x \in V PROVE x \in W
  <2>1. \A i \in l..c - 1 : i \in 0..c - 1
    OBVIOUS
  <2> QED BY <1>1, <1>5, <2>1, UnderIs
<1>6. ASSUME NEW x, x \in W, x # r PROVE x \in V
  <2>1. CASE \E i \in 0..c - 1 : At(f, i).of = x
    <3>1. PICK i \in 0..c - 1 : At(f, i).of = x
      BY <2>1
    <3>2. i >= l
      BY <1>2, <1>6, <3>1
    <3>3. i \in l..c - 1
      BY <3>2
    <3> QED BY <1>1, <1>6, <3>1, <3>3, UnderIs
  <2>2. CASE \E i \in 1..Len(t) : t[i] = x
    BY <1>6, <2>2, UnderIs
  <2>3. ~(\E i \in 1..Len(<<>>) : <<>>[i] = x)
    OBVIOUS
  <2> QED BY <1>1, <1>6, <2>1, <2>2, <2>3, UnderIs
<1> QED BY <1>3, <1>4, <1>5, <1>6

LEMMA UnderDropped ==
  ASSUME NEW r \in Reports, NEW f \in Fifos, Framed(f), HasFrame(f, 0, r),
         NEW w, NEW t
  PROVE  Under(w, AdvanceReadPointer(f, FrameLen(r)), 0, t)
           = Under(w, f, FrameLen(r), t)
<1> DEFINE g == AdvanceReadPointer(f, FrameLen(r))
<1>1. PICK c \in 0..Depth, l \in Nat \ {0} :
        c = Overflowable(f) /\ l = FrameLen(r) /\ l <= c
  <2>1. FrameLen(r) <= Overflowable(f)
    BY FrameIs, CellsTyped DEF HasFrame
  <2>2. Overflowable(f) \in 0..Depth
    BY CellsTyped DEF Framed
  <2> QED BY <2>1, <2>2, FrameIs
<1>2. /\ Overflowable(g) = c - l
      /\ \A i \in 0..c - l - 1 : At(g, i) = At(f, i + l)
  <2>1. l \in 0..Overflowable(f)
    BY <1>1
  <2> QED BY <1>1, <2>1, ReadDrops DEF Framed
<1> HIDE DEF g
<1>3. ASSUME NEW x
      PROVE  (\E i \in 0..(c - l) - 1 : At(g, i).of = x)
               <=> (\E i \in l..c - 1 : At(f, i).of = x)
  <2>1. ASSUME NEW i \in 0..(c - l) - 1, At(g, i).of = x
        PROVE  \E j \in l..c - 1 : At(f, j).of = x
    <3>1. i + l \in l..c - 1 /\ At(f, i + l).of = x
      BY <1>2, <2>1
    <3> QED BY <3>1
  <2>2. ASSUME NEW j \in l..c - 1, At(f, j).of = x
        PROVE  \E i \in 0..(c - l) - 1 : At(g, i).of = x
    <3>1. j - l \in 0..(c - l) - 1 /\ (j - l) + l = j
      OBVIOUS
    <3>2. At(g, j - l).of = x
      BY <1>2, <2>2, <3>1
    <3> QED BY <3>1, <3>2
  <2> QED BY <2>1, <2>2
<1>4. ASSUME NEW x
      PROVE  x \in Under(w, g, 0, t) <=> x \in Under(w, f, l, t)
  <2>1. x \in Under(w, g, 0, t) <=>
          /\ ~IsMouse(x)
          /\ \/ \E i \in 1..Len(w) : w[i] = x
             \/ \E i \in 0..(c - l) - 1 : At(g, i).of = x
             \/ \E i \in 1..Len(t) : t[i] = x
    BY <1>2, UnderIs
  <2>2. x \in Under(w, f, l, t) <=>
          /\ ~IsMouse(x)
          /\ \/ \E i \in 1..Len(w) : w[i] = x
             \/ \E i \in l..c - 1 : At(f, i).of = x
             \/ \E i \in 1..Len(t) : t[i] = x
    BY <1>1, UnderIs
  <2> QED BY <1>3, <2>1, <2>2
<1>5. Under(w, g, 0, t) = Under(w, f, l, t)
  BY <1>4 DEF Under
<1> QED BY <1>1, <1>5 DEF g

(* What the caller makes is added.                                         *)
LEMMA UnderCalled ==
  ASSUME NEW w, NEW f, NEW s, NEW t
  PROVE  Under(w, f, s, t)
           = Under(w, f, s, <<>>) \cup {r \in {t[i] : i \in 1..Len(t)} :
                                          ~IsMouse(r)}
<1>1. \A x : ~(\E i \in 1..Len(<<>>) : <<>>[i] = x)
  OBVIOUS
<1>2. \A x : x \in Under(w, f, s, t) <=>
               \/ x \in Under(w, f, s, <<>>)
               \/ ~IsMouse(x) /\ \E i \in 1..Len(t) : t[i] = x
  BY <1>1, UnderIs
<1> QED BY <1>2

-----------------------------------------------------------------------------
(***************************************************************************)
(* The chords.                                                             *)
(***************************************************************************)

LEMMA SplitCodes ==
  ASSUME NEW a \in SUBSET Modifiers, NEW b \in SUBSET Keys
  PROVE  (a \cup b) \cap Modifiers = a /\ (a \cup b) \cap Keys = b
BY CodeAssumption

LEMMA JoinCodes ==
  ASSUME NEW v \in SUBSET (Modifiers \cup Keys)
  PROVE  v = (v \cap Modifiers) \cup (v \cap Keys)
OBVIOUS

(* The reports of a chord lead from old to new in legal steps.             *)
Steps(vals, old, new) ==
  /\ vals = <<>> => old = new
  /\ vals # <<>> => vals[Len(vals)] = new /\ Legal(old, vals[1], new)
  /\ \A i \in 1..Len(vals) - 1 : Legal(vals[i], vals[i + 1], new)

LEMMA StepsOf ==
  ASSUME NEW a, NEW b, NEW c, NEW old, NEW new
  PROVE  /\ old = new => Steps(<<>>, old, new)
         /\ Legal(old, new, new) => Steps(<<new>>, old, new)
         /\ Legal(old, a, new) /\ Legal(a, new, new) =>
              Steps(<<a, new>>, old, new)
         /\ Legal(old, a, new) /\ Legal(a, b, new) /\ Legal(b, new, new) =>
              Steps(<<a, b, new>>, old, new)
<1>1. old = new => Steps(<<>>, old, new)
  BY DEF Steps
<1>2. Legal(old, new, new) => Steps(<<new>>, old, new)
  <2> DEFINE v == <<new>>
  <2>1. v # <<>> /\ Len(v) = 1 /\ v[1] = new
    OBVIOUS
  <2> HIDE DEF v
  <2>2. Legal(old, new, new) => Steps(v, old, new)
    BY <2>1 DEF Steps
  <2> QED BY <2>2 DEF v
<1>3. Legal(old, a, new) /\ Legal(a, new, new) => Steps(<<a, new>>, old, new)
  <2> DEFINE v == <<a, new>>
  <2>1. v # <<>> /\ Len(v) = 2 /\ v[1] = a /\ v[2] = new
    OBVIOUS
  <2> HIDE DEF v
  <2>2. \A i \in 1..Len(v) - 1 : i = 1
    BY <2>1
  <2>3. Legal(old, a, new) /\ Legal(a, new, new) => Steps(v, old, new)
    BY <2>1, <2>2 DEF Steps
  <2> QED BY <2>3 DEF v
<1>4. Legal(old, a, new) /\ Legal(a, b, new) /\ Legal(b, new, new) =>
        Steps(<<a, b, new>>, old, new)
  <2> DEFINE v == <<a, b, new>>
  <2>1. v # <<>> /\ Len(v) = 3 /\ v[1] = a /\ v[2] = b /\ v[3] = new
    OBVIOUS
  <2> HIDE DEF v
  <2>2. \A i \in 1..Len(v) - 1 : i = 1 \/ i = 2
    BY <2>1
  <2>3. Legal(old, a, new) /\ Legal(a, b, new) /\ Legal(b, new, new) =>
          Steps(v, old, new)
    BY <2>1, <2>2 DEF Steps
  <2> QED BY <2>3 DEF v
<1> QED BY <1>1, <1>2, <1>3, <1>4

LEMMA PairIs ==
  ASSUME NEW S, NEW a \in S, NEW b \in S
  PROVE  <<a>> \o <<b>> = <<a, b>>
<1> DEFINE s == <<a>> \o <<b>>
           t == <<a, b>>
<1>1. /\ <<a>> \in Seq(S) /\ Len(<<a>>) = 1 /\ <<a>>[1] = a
      /\ <<b>> \in Seq(S) /\ Len(<<b>>) = 1 /\ <<b>>[1] = b
      /\ t \in Seq(S) /\ Len(t) = 2 /\ t[1] = a /\ t[2] = b
  OBVIOUS
<1>2. s \in Seq(S) /\ Len(s) = 2 /\ s[1] = a /\ s[2] = b
  BY <1>1, ConcatProperties
<1> HIDE DEF s, t
<1>3. \A i \in 1..Len(s) : s[i] = t[i]
  <2>1. \A i \in 1..2 : i = 1 \/ i = 2
    OBVIOUS
  <2> QED BY <1>1, <1>2, <2>1
<1>4. s = t
  BY <1>1, <1>2, <1>3, SeqEqual
<1> QED BY <1>4 DEF s, t

LEMMA TripleIs ==
  ASSUME NEW S, NEW a \in S, NEW b \in S, NEW c \in S
  PROVE  <<a>> \o <<b>> \o <<c>> = <<a, b, c>>
<1> DEFINE s == <<a, b>> \o <<c>>
           t == <<a, b, c>>
<1>1. /\ <<a, b>> \in Seq(S) /\ Len(<<a, b>>) = 2
      /\ <<a, b>>[1] = a /\ <<a, b>>[2] = b
      /\ <<c>> \in Seq(S) /\ Len(<<c>>) = 1 /\ <<c>>[1] = c
      /\ t \in Seq(S) /\ Len(t) = 3 /\ t[1] = a /\ t[2] = b /\ t[3] = c
  OBVIOUS
<1>2. s \in Seq(S) /\ Len(s) = 3 /\ s[1] = a /\ s[2] = b /\ s[3] = c
  BY <1>1, ConcatProperties
<1> HIDE DEF s, t
<1>3. \A i \in 1..Len(s) : s[i] = t[i]
  <2>1. \A i \in 1..3 : i = 1 \/ i = 2 \/ i = 3
    OBVIOUS
  <2> QED BY <1>1, <1>2, <2>1
<1>4. s = t
  BY <1>1, <1>2, <1>3, SeqEqual
<1>5. <<a>> \o <<b>> = <<a, b>>
  BY PairIs
<1> QED BY <1>4, <1>5 DEF s, t

LEMMA ChordSteps ==
  ASSUME NEW old \in SUBSET (Modifiers \cup Keys),
         NEW new \in SUBSET (Modifiers \cup Keys)
  PROVE  Steps(Chord(old, new), old, new)
<1> DEFINE mo == old \cap Modifiers
           mn == new \cap Modifiers
           ko == old \cap Keys
           kn == new \cap Keys
           kept == ko \cap kn
<1>1. /\ mo \subseteq Modifiers /\ mn \subseteq Modifiers
      /\ ko \subseteq Keys /\ kn \subseteq Keys /\ kept \subseteq Keys
      /\ kept \subseteq ko /\ kept \subseteq kn /\ kept \subseteq old
      /\ kept \subseteq new
  OBVIOUS
<1>2. old = mo \cup ko /\ new = mn \cup kn
  BY JoinCodes
<1>3. /\ (mo \cup kept) \cap Modifiers = mo /\ (mo \cup kept) \cap Keys = kept
      /\ (mn \cup kept) \cap Modifiers = mn /\ (mn \cup kept) \cap Keys = kept
  <2>1. mo \in SUBSET Modifiers /\ mn \in SUBSET Modifiers
        /\ kept \in SUBSET Keys
    BY <1>1
  <2> HIDE DEF mo, mn, kept
  <2> QED BY <2>1, SplitCodes
<1>4. Chord(old, new) =
        (IF mn # mo /\ kept # ko THEN << mo \cup kept >> ELSE <<>>)
        \o (IF mn # mo THEN << mn \cup kept >> ELSE <<>>)
        \o (IF (IF mn # mo THEN kept ELSE ko) # kn THEN <<new>> ELSE <<>>)
  BY DEF Chord
<1>5. Legal(old, mo \cup kept, new)
  BY <1>1, <1>3 DEF Legal
<1>6. Legal(mo \cup kept, mn \cup kept, new)
  BY <1>1, <1>3 DEF Legal
<1>7. kept = ko => Legal(old, mn \cup kept, new)
  BY <1>1, <1>3 DEF Legal
<1>8. Legal(mn \cup kept, new, new)
  BY <1>1, <1>3 DEF Legal
<1>9. mn = mo => Legal(old, new, new)
  BY DEF Legal
<1>10. kept = kn => mn \cup kept = new
  BY <1>2
<1>11. mn = mo /\ ko = kn => old = new
  BY <1>2
<1> HIDE DEF mo, mn, ko, kn, kept
<1>12. ASSUME NEW a, NEW b, NEW c
       PROVE  /\ <<a>> \o <<b>> \o <<c>> = <<a, b, c>>
              /\ <<a>> \o <<b>> \o <<>> = <<a, b>>
              /\ <<>> \o <<b>> \o <<c>> = <<b, c>>
              /\ <<>> \o <<b>> \o <<>> = <<b>>
              /\ <<>> \o <<>> \o <<c>> = <<c>>
  <2> DEFINE S == {a, b, c}
  <2>1. a \in S /\ b \in S /\ c \in S
    OBVIOUS
  <2>2. /\ <<>> \in Seq(S) /\ <<b>> \in Seq(S) /\ <<c>> \in Seq(S)
        /\ <<a, b>> \in Seq(S)
    BY <2>1
  <2> HIDE DEF S
  <2>3. /\ <<a>> \o <<b>> = <<a, b>> /\ <<b>> \o <<c>> = <<b, c>>
        /\ <<a>> \o <<b>> \o <<c>> = <<a, b, c>>
    BY <2>1, PairIs, TripleIs
  <2>4. /\ <<a, b>> \o <<>> = <<a, b>> /\ <<b>> \o <<>> = <<b>>
        /\ <<>> \o <<b>> = <<b>> /\ <<>> \o <<c>> = <<c>>
        /\ <<>> \o <<>> = <<>>
    BY <2>2, ConcatEmptySeq
  <2> QED BY Zenon, <2>3, <2>4
<1>13. <<>> \o <<>> \o <<>> = <<>>
  OBVIOUS
<1>14. CASE mn # mo /\ kept # ko /\ kept # kn
  <2>1. Chord(old, new) = << mo \cup kept, mn \cup kept, new >>
    BY <1>4, <1>12, <1>14
  <2> QED BY <1>5, <1>6, <1>8, <2>1, StepsOf
<1>15. CASE mn # mo /\ kept # ko /\ kept = kn
  <2>1. Chord(old, new) = << mo \cup kept, new >>
    <3>1. <<mo \cup kept>> \o <<new>> \o <<>> = <<mo \cup kept, new>>
      BY <1>12
    <3> QED BY <1>4, <1>10, <1>15, <3>1
  <2>2. Legal(mo \cup kept, new, new)
    BY <1>6, <1>10, <1>15
  <2> QED BY <1>5, <2>1, <2>2, StepsOf
<1>16. CASE mn # mo /\ kept = ko /\ kept # kn
  <2>1. Chord(old, new) = << mn \cup kept, new >>
    BY <1>4, <1>12, <1>16
  <2> QED BY <1>7, <1>8, <1>16, <2>1, StepsOf
<1>17. CASE mn # mo /\ kept = ko /\ kept = kn
  <2>1. Chord(old, new) = << new >>
    BY <1>4, <1>10, <1>12, <1>17
  <2>2. Legal(old, new, new)
    BY <1>7, <1>10, <1>17
  <2> QED BY <2>1, <2>2, StepsOf
<1>18. CASE mn = mo /\ ko # kn
  <2>1. Chord(old, new) = << new >>
    BY <1>4, <1>12, <1>18
  <2> QED BY <1>9, <1>18, <2>1, StepsOf
<1>19. CASE mn = mo /\ ko = kn
  <2>1. Chord(old, new) = <<>>
    BY <1>4, <1>13, <1>19
  <2> QED BY <1>11, <1>19, <2>1, StepsOf
<1> QED BY <1>14, <1>15, <1>16, <1>17, <1>18, <1>19

-----------------------------------------------------------------------------
(***************************************************************************)
(* What the host's poll and a call do to the reports under way.            *)
(***************************************************************************)

LEMMA DeliveryTaken ==
  ASSUME NEW V, NEW r, r.n \in Nat, r.id \in Ids \ {"mouse"},
         \A s \in V : s.n \in Nat /\ r.n < s.n,
         NEW h \in Nat, NEW q \in Nat, h < r.n,
         NEW v \in [Ids -> Vals], NEW x,
         Delivery({r} \cup V, h, v, x, q)
  PROVE  /\ Delivery(V, r.n, [v EXCEPT ![r.id] = r.val], x, q)
         /\ r.id = "keyboard" => Legal(v["keyboard"], r.val, r.goal)
<1> DEFINE U == {r} \cup V
           u == [v EXCEPT ![r.id] = r.val]
<1>1. /\ Covered(U, h, q)
      /\ \A id \in Ids \ {"mouse"} : LastIs(Of(U, id), v[id], x[id])
      /\ \A s \in Of(U, "keyboard") :
           Follows(Of(U, "keyboard"), v["keyboard"], s)
  BY DEF Delivery
<1>2. /\ u[r.id] = r.val
      /\ \A id \in Ids : id # r.id => u[id] = v[id]
      /\ r.id \in Ids
  OBVIOUS
<1>3. ASSUME NEW id, id # r.id PROVE Of(U, id) = Of(V, id)
  BY <1>3 DEF Of
<1>4. r \in Of(U, r.id) /\ Of(U, r.id) = {r} \cup Of(V, r.id)
  BY DEF Of
<1>5. \A id : \A s \in Of(V, id) : s \in V /\ s.n \in Nat /\ r.n < s.n
  BY DEF Of
<1> HIDE DEF U, u
<1>6. Covered(V, r.n, q)
  <2> SUFFICES ASSUME NEW n \in r.n + 1..q
               PROVE  \E s \in V : s.n = n
    BY DEF Covered
  <2>1. n \in h + 1..q /\ n # r.n
    OBVIOUS
  <2>2. PICK s \in U : s.n = n
    BY <1>1, <2>1 DEF Covered
  <2> QED BY <2>1, <2>2 DEF U
<1>7. ASSUME NEW id \in Ids \ {"mouse"}
      PROVE  LastIs(Of(V, id), u[id], x[id])
  <2>1. CASE id # r.id
    <3>1. Of(U, id) = Of(V, id) /\ u[id] = v[id]
      BY <1>2, <1>3, <2>1
    <3> QED BY <1>1, <3>1
  <2>2. CASE id = r.id
    <3>1. PICK s \in Of(U, id) :
            s.val = x[id] /\ \A o \in Of(U, id) : o.n <= s.n
      BY <1>1, <1>4, <2>2 DEF LastIs
    <3>2. CASE s = r
      <4>1. \A o \in Of(V, id) : r.n < o.n /\ o.n <= r.n /\ o.n \in Nat
        BY <1>4, <1>5, <2>2, <3>1, <3>2
      <4>2. Of(V, id) = {}
        BY <4>1
      <4> QED BY <1>2, <2>2, <3>1, <3>2, <4>2 DEF LastIs
    <3>3. CASE s # r
      <4>1. s \in Of(V, id) /\ \A o \in Of(V, id) : o.n <= s.n
        BY <1>4, <2>2, <3>1, <3>3
      <4> QED BY <3>1, <4>1 DEF LastIs
    <3> QED BY <3>2, <3>3
  <2> QED BY <2>1, <2>2
<1>8. ASSUME NEW s \in Of(V, "keyboard")
      PROVE  Follows(Of(V, "keyboard"), u["keyboard"], s)
  <2> DEFINE K == Of(U, "keyboard")
             L == Of(V, "keyboard")
  <2>1. CASE r.id # "keyboard"
    <3>1. K = L /\ u["keyboard"] = v["keyboard"]
      BY <1>2, <1>3, <2>1 DEF Ids
    <3> QED BY <1>1, <3>1
  <2>2. CASE r.id = "keyboard"
    <3>1. K = {r} \cup L /\ u["keyboard"] = r.val
      BY <1>2, <1>4, <2>2
    <3>2. Follows(K, v["keyboard"], s)
      BY <1>1, <3>1
    <3>3. s.n \in Nat /\ r.n < s.n
      BY <1>5
    <3>4. ~(\A o \in K : s.n <= o.n)
      BY <3>1, <3>3
    <3>5. PICK p \in K : /\ p.n < s.n /\ Legal(p.val, s.val, s.goal)
                         /\ \A o \in K : o.n <= p.n \/ s.n <= o.n
      BY <3>2, <3>4 DEF Follows
    <3>6. CASE p = r
      <4>1. \A o \in L : s.n <= o.n
        <5> TAKE o \in L
        <5>1. o.n \in Nat /\ r.n < o.n
          BY <1>5
        <5>2. o.n <= r.n \/ s.n <= o.n
          BY <3>1, <3>5, <3>6
        <5> QED BY <5>1, <5>2
      <4>2. Legal(u["keyboard"], s.val, s.goal)
        BY <3>1, <3>5, <3>6
      <4> QED BY <4>1, <4>2 DEF Follows
    <3>7. CASE p # r
      <4>1. p \in L /\ \A o \in L : o.n <= p.n \/ s.n <= o.n
        BY <3>1, <3>5, <3>7
      <4> QED BY <3>5, <4>1 DEF Follows
    <3> QED BY <3>6, <3>7
  <2> QED BY <2>1, <2>2
<1>9. ASSUME r.id = "keyboard"
      PROVE  Legal(v["keyboard"], r.val, r.goal)
  <2> DEFINE K == Of(U, "keyboard")
  <2>1. K = {r} \cup Of(V, "keyboard") /\ r \in K
    BY <1>4, <1>9
  <2>2. Follows(K, v["keyboard"], r)
    BY <1>1, <2>1
  <2>3. \A p \in K : ~(p.n < r.n)
    <3> TAKE p \in K
    <3>1. CASE p = r
      BY <3>1
    <3>2. CASE p \in Of(V, "keyboard")
      BY <1>5, <3>2
    <3> QED BY <2>1, <3>1, <3>2
  <2> QED BY <2>2, <2>3 DEF Follows
<1> QED BY <1>6, <1>7, <1>8, <1>9 DEF Delivery, u

(* The reports of a call, after number q.                                  *)
Made(id, vals, new, q) ==
  {[id |-> id, val |-> vals[i], goal |-> new, n |-> q + i] : i \in 1..Len(vals)}

LEMMA LastExtended ==
  ASSUME NEW U, NEW q \in Nat, \A r \in U : r.n \in Nat /\ r.n <= q,
         NEW v, NEW old, LastIs(U, v, old), NEW id, NEW new,
         NEW vals \in Seq(Vals),
         vals = <<>> => old = new,
         vals # <<>> => vals[Len(vals)] = new
  PROVE  LastIs(U \cup Made(id, vals, new, q), v, new)
<1>1. CASE vals = <<>>
  <2>1. Made(id, vals, new, q) = {}
    BY <1>1 DEF Made
  <2> QED BY <1>1, <2>1
<1>2. CASE vals # <<>>
  <2>1. PICK m \in Nat \ {0} : m = Len(vals)
    BY <1>2, EmptySeq, LenProperties
  <2> DEFINE r == [id |-> id, val |-> vals[m], goal |-> new, n |-> q + m]
  <2>2. r \in Made(id, vals, new, q) /\ r.val = new /\ r.n = q + m
    <3>1. m \in 1..Len(vals)
      BY <2>1
    <3>2. r \in Made(id, vals, new, q)
      BY <3>1 DEF Made
    <3>3. vals[m] = new
      BY <1>2, <2>1
    <3> QED BY <3>2, <3>3
  <2>3. \A s \in U : s.n <= r.n
    <3> TAKE s \in U
    <3>1. PICK k \in Nat : k = s.n /\ k <= q
      OBVIOUS
    <3>2. k <= q + m
      BY <3>1
    <3> QED BY <2>2, <3>1, <3>2
  <2>4. \A s \in Made(id, vals, new, q) : s.n <= r.n
    BY <2>1, <2>2 DEF Made
  <2> HIDE DEF r
  <2> QED BY <2>2, <2>3, <2>4 DEF LastIs
<1> QED BY <1>1, <1>2

LEMMA ChainExtended ==
  ASSUME NEW U, NEW q \in Nat, \A r \in U : r.n \in Nat /\ r.n <= q,
         NEW v, NEW old, LastIs(U, v, old), NEW id, NEW new,
         NEW vals \in Seq(Vals), Steps(vals, old, new),
         \A r \in U : Follows(U, v, r),
         NEW r \in U \cup Made(id, vals, new, q)
  PROVE  Follows(U \cup Made(id, vals, new, q), v, r)
<1> DEFINE T == Made(id, vals, new, q)
           t(i) == [id |-> id, val |-> vals[i], goal |-> new, n |-> q + i]
<1>1. PICK m \in Nat : m = Len(vals)
  BY LenProperties
<1>2. /\ \A i \in 1..m : t(i) \in T
      /\ \A s \in T : \E i \in 1..m : s = t(i)
  BY <1>1 DEF Made
<1>3. \A i : t(i).n = q + i /\ t(i).val = vals[i] /\ t(i).goal = new
  OBVIOUS
<1> HIDE DEF T, t
<1>4. \A s \in T : s.n \in Nat /\ q < s.n
  BY <1>2, <1>3
<1>5. CASE r \in U
  <2>1. \A s \in T : r.n <= s.n
    <3> TAKE s \in T
    <3>1. s.n \in Nat /\ q < s.n /\ r.n \in Nat /\ r.n <= q
      BY <1>4, <1>5
    <3> QED BY <3>1
  <2>2. Follows(U, v, r)
    BY <1>5
  <2>3. CASE Legal(v, r.val, r.goal) /\ \A s \in U : r.n <= s.n
    BY <2>1, <2>3 DEF Follows, T
  <2>4. CASE \E p \in U : /\ p.n < r.n /\ Legal(p.val, r.val, r.goal)
                          /\ \A s \in U : s.n <= p.n \/ r.n <= s.n
    <3>1. PICK p \in U : /\ p.n < r.n /\ Legal(p.val, r.val, r.goal)
                         /\ \A s \in U : s.n <= p.n \/ r.n <= s.n
      BY <2>4
    <3>2. p \in U \cup T /\ \A s \in U \cup T : s.n <= p.n \/ r.n <= s.n
      BY <2>1, <3>1
    <3> QED BY <3>1, <3>2 DEF Follows, T
  <2> QED BY <2>2, <2>3, <2>4 DEF Follows
<1>6. ASSUME NEW i \in 1..m, r = t(i)
      PROVE  Follows(U \cup T, v, r)
  <2>1. r.n = q + i /\ r.val = vals[i] /\ r.goal = new
    BY <1>3, <1>6
  <2>2. CASE i = 1
    <3>1. Legal(old, r.val, r.goal)
      <4>1. vals # <<>>
        BY <1>1, <2>2
      <4> QED BY <2>1, <2>2, <4>1 DEF Steps
    <3>2. \A s \in T : r.n <= s.n
      <4> TAKE s \in T
      <4>1. PICK j \in 1..m : s = t(j)
        BY <1>2
      <4>2. s.n = q + j
        BY <1>3, <4>1
      <4> QED BY <2>1, <2>2, <4>2
    <3>3. CASE U = {} /\ v = old
      BY <3>1, <3>2, <3>3 DEF Follows
    <3>4. CASE \E p \in U : p.val = old /\ \A s \in U : s.n <= p.n
      <4>1. PICK p \in U : p.val = old /\ \A s \in U : s.n <= p.n
        BY <3>4
      <4>2. p.n < r.n
        <5>1. p.n \in Nat /\ p.n <= q
          OBVIOUS
        <5> QED BY <2>1, <2>2, <5>1
      <4>3. p \in U \cup T /\ \A s \in U \cup T : s.n <= p.n \/ r.n <= s.n
        BY <3>2, <4>1
      <4> QED BY <3>1, <4>1, <4>2, <4>3 DEF Follows
    <3> QED BY <3>3, <3>4 DEF LastIs
  <2>3. CASE i # 1
    <3>1. PICK k \in 1..m - 1 : i = k + 1
      <4>1. i - 1 \in 1..m - 1 /\ i = (i - 1) + 1
        BY <2>3
      <4> QED BY <4>1
    <3>2. t(k) \in T /\ t(k).n = q + k /\ t(k).val = vals[k]
      BY <1>2, <1>3, <3>1
    <3>3. t(k).n < r.n /\ Legal(t(k).val, r.val, r.goal)
      <4>1. Legal(vals[k], vals[k + 1], new)
        BY <1>1, <3>1 DEF Steps
      <4>2. q + k < q + i
        BY <3>1
      <4> QED BY <2>1, <3>1, <3>2, <4>1, <4>2
    <3>4. \A s \in T : s.n <= t(k).n \/ r.n <= s.n
      <4> TAKE s \in T
      <4>1. PICK j \in 1..m : s = t(j)
        BY <1>2
      <4>2. s.n = q + j
        BY <1>3, <4>1
      <4>3. q + j <= q + k \/ q + i <= q + j
        BY <3>1
      <4> QED BY <2>1, <3>2, <4>2, <4>3
    <3>5. \A s \in U : s.n <= t(k).n
      <4> TAKE s \in U
      <4>1. PICK n \in Nat : n = s.n /\ n <= q
        OBVIOUS
      <4>2. n <= q + k
        BY <4>1, <3>1
      <4> QED BY <3>2, <4>1, <4>2
    <3>6. t(k) \in U \cup T /\ \A s \in U \cup T : s.n <= t(k).n \/ r.n <= s.n
      BY <3>2, <3>4, <3>5
    <3> QED BY <3>3, <3>6 DEF Follows
  <2> QED BY <2>2, <2>3
<1> QED BY <1>2, <1>5, <1>6 DEF T

(* A call adds its reports, if they are for the FIFO.                      *)
LEMMA DeliveryCalled ==
  ASSUME NEW U, NEW q \in Nat, NEW h \in Nat,
         \A r \in U : r.n \in Nat /\ r.n <= q,
         NEW v, NEW x \in [Ids -> Vals], Delivery(U, h, v, x, q),
         NEW id \in Ids \ {"mouse"}, NEW new \in Vals, NEW vals \in Seq(Vals),
         vals = <<>> => x[id] = new,
         vals # <<>> => vals[Len(vals)] = new,
         id = "keyboard" => Steps(vals, x[id], new)
  PROVE  Delivery(U \cup Made(id, vals, new, q), h, v,
                  [x EXCEPT ![id] = new], q + Len(vals))
<1> DEFINE T == Made(id, vals, new, q)
           y == [x EXCEPT ![id] = new]
<1>1. PICK m \in Nat : m = Len(vals)
  BY LenProperties
<1>2. /\ Covered(U, h, q)
      /\ \A c \in Ids \ {"mouse"} : LastIs(Of(U, c), v[c], x[c])
      /\ \A s \in Of(U, "keyboard") :
           Follows(Of(U, "keyboard"), v["keyboard"], s)
  BY DEF Delivery
<1>3. y[id] = new /\ \A c \in Ids : c # id => y[c] = x[c]
  OBVIOUS
<1>4. Of(U \cup T, id) = Of(U, id) \cup T
  BY DEF Of, Made
<1>5. ASSUME NEW c, c # id PROVE Of(U \cup T, c) = Of(U, c)
  BY <1>5 DEF Of, Made
<1>6. \A r \in Of(U, id) : r.n \in Nat /\ r.n <= q
  BY DEF Of
<1>7. Covered(U \cup T, h, q + m)
  <2> SUFFICES ASSUME NEW n \in h + 1..q + m
               PROVE  \E r \in U \cup T : r.n = n
    BY DEF Covered
  <2>1. CASE n <= q
    <3>1. n \in h + 1..q
      BY <2>1
    <3> QED BY <1>2, <3>1 DEF Covered
  <2>2. CASE n > q
    <3>1. PICK i \in 1..m : n = q + i
      <4>1. n - q \in 1..m /\ n = q + (n - q)
        BY <2>2
      <4> QED BY <4>1
    <3>2. [id |-> id, val |-> vals[i], goal |-> new, n |-> q + i] \in T
      BY <1>1, <3>1 DEF Made
    <3> QED BY <3>1, <3>2
  <2> QED BY <2>1, <2>2
<1> HIDE DEF T, y
<1>8. ASSUME NEW c \in Ids \ {"mouse"}
      PROVE  LastIs(Of(U \cup T, c), v[c], y[c])
  <2>1. CASE c = id
    <3>1. LastIs(Of(U, id), v[id], x[id])
      BY <1>2
    <3>2. LastIs(Of(U, id) \cup T, v[id], new)
      BY <1>6, <3>1, LastExtended DEF T
    <3> QED BY <1>3, <1>4, <2>1, <3>2
  <2>2. CASE c # id
    BY <1>2, <1>3, <1>5, <2>2
  <2> QED BY <2>1, <2>2
<1>9. ASSUME NEW s \in Of(U \cup T, "keyboard")
      PROVE  Follows(Of(U \cup T, "keyboard"), v["keyboard"], s)
  <2>1. CASE id = "keyboard"
    <3>1. LastIs(Of(U, id), v[id], x[id]) /\ Steps(vals, x[id], new)
      BY <1>2, <2>1
    <3>2. \A r \in Of(U, id) : Follows(Of(U, id), v[id], r)
      BY <1>2, <2>1
    <3>3. s \in Of(U, id) \cup T
      BY <1>4, <2>1
    <3>4. Follows(Of(U, id) \cup T, v[id], s)
      BY <1>6, <3>1, <3>2, <3>3, ChainExtended DEF T
    <3> QED BY <1>4, <2>1, <3>4
  <2>2. CASE id # "keyboard"
    <3>1. Of(U \cup T, "keyboard") = Of(U, "keyboard")
      BY <1>5, <2>2
    <3>2. s \in Of(U, "keyboard")
      BY <3>1
    <3>3. Follows(Of(U, "keyboard"), v["keyboard"], s)
      BY <1>2, <3>2
    <3> QED BY <3>1, <3>3
  <2> QED BY <2>1, <2>2
<1>10. Delivery(U \cup T, h, v, y, q + m)
  BY <1>7, <1>8, <1>9 DEF Delivery
<1> QED BY <1>1, <1>10 DEF T, y

-----------------------------------------------------------------------------
(***************************************************************************)
(* A host that stays ready: every step.                                    *)
(***************************************************************************)

(* What each of the classes sends, and what it is after.                   *)
LEMMA CallerValues ==
  ASSUME DataInv, ReadyInv, Caller
  PROVE  \E id \in Ids, new \in Vals, vals \in Seq(Vals) :
           /\ Call(id, new, vals)
           /\ id = "keyboard" => /\ new \subseteq Modifiers \cup Keys
                                 /\ Steps(vals, report[id], new)
           /\ id # "mouse" => /\ vals = <<>> => report[id] = new
                              /\ vals # <<>> => vals[Len(vals)] = new
<1>1. \A id \in Ids : report[id] \in Vals
  BY DEF DataInv
<1>2. CASE KeyboardSendReport
  <2>1. PICK new \in KeyboardReports :
          Call("keyboard", new, Chord(report["keyboard"], new))
    BY <1>2 DEF KeyboardSendReport
  <2>2. new \in Vals /\ new \subseteq Modifiers \cup Keys
    BY ValsAre, CodeAssumption
  <2>3. Chord(report["keyboard"], new) \in Seq(Vals)
    BY <1>1, <2>2, ChordTyped DEF Ids
  <2>4. Steps(Chord(report["keyboard"], new), report["keyboard"], new)
    BY <2>2, ChordSteps DEF ReadyInv
  <2>5. "keyboard" \in Ids
    BY DEF Ids
  <2> DEFINE vals == Chord(report["keyboard"], new)
  <2>6. Steps(vals, report["keyboard"], new)
    BY <2>4
  <2> HIDE DEF vals
  <2>7. /\ vals = <<>> => report["keyboard"] = new
        /\ vals # <<>> => vals[Len(vals)] = new
    BY <2>6 DEF Steps
  <2> QED BY <2>1, <2>2, <2>3, <2>5, <2>6, <2>7 DEF vals
<1>3. CASE ConsumerSendReport
  <2>1. PICK new \in SUBSET Codes :
          Call("consumer", new, Change(report["consumer"], new))
    BY <1>3 DEF ConsumerSendReport
  <2>2. new \in Vals /\ "consumer" \in Ids /\ "consumer" # "keyboard"
    BY ValsAre DEF Ids
  <2> DEFINE vals == Change(report["consumer"], new)
  <2>3. /\ vals = <<>> \/ vals = <<new>>
        /\ vals = <<>> => report["consumer"] = new
    BY DEF Change
  <2> HIDE DEF vals
  <2>4. vals \in Seq(Vals) /\ (vals # <<>> => vals[Len(vals)] = new)
    <3>1. <<>> \in Seq(Vals) /\ <<new>> \in Seq(Vals)
          /\ <<new>>[Len(<<new>>)] = new
      BY <2>2
    <3> QED BY <2>3, <3>1
  <2> QED BY <2>1, <2>2, <2>3, <2>4 DEF vals
<1>4. CASE MouseSendReport \/ MouseClick
  <2>1. "mouse" \in Ids
    BY DEF Ids
  <2>2. {} \in Vals /\ {Button} \in Vals
    BY ValsAre
  <2>3. \E new \in Vals, vals \in Seq(Vals) : Call("mouse", new, vals)
    <3>1. CASE MouseSendReport
      <4>1. PICK new \in {{}, {Button}} :
              Call("mouse", new, Change(report["mouse"], new))
        BY <3>1 DEF MouseSendReport
      <4>2. new \in Vals
        BY <2>2
      <4>3. Change(report["mouse"], new) \in Seq(Vals)
        BY <4>2 DEF Change
      <4> QED BY <4>1, <4>2, <4>3
    <3>2. CASE MouseClick
      <4>1. <<>> \in Seq(Vals) /\ <<{}>> \in Seq(Vals)
            /\ <<{Button}, {}>> \in Seq(Vals)
        BY <2>2
      <4>2. Click(Button) \in Seq(Vals)
        BY <4>1, ConcatProperties DEF Click
      <4> QED BY <2>2, <3>2, <4>2 DEF MouseClick
    <3> QED BY <1>4, <3>1, <3>2
  <2> QED BY <2>1, <2>3
<1> QED BY <1>2, <1>3, <1>4 DEF Caller

LEMMA ReadyStep ==
  ASSUME IInv, ReadyInv, [Next]_vars
  PROVE  ReadyInv'
<1>1. CASE Caller
  <2>1. PICK id \in Ids, new \in Vals, vals \in Seq(Vals) :
          /\ Call(id, new, vals)
          /\ id = "keyboard" => new \subseteq Modifiers \cup Keys
    BY <1>1, CallerValues DEF IInv
  <2>2. UNCHANGED <<dev, wire>>
        /\ disturbed' = (disturbed \/ ~dev.mounted \/ dev.suspended)
        /\ report' = [report EXCEPT ![id] = new]
    BY <2>1 DEF Call
  <2>3. report'["keyboard"] \subseteq Modifiers \cup Keys
    <3>1. report \in [Ids -> Vals] /\ "keyboard" \in Ids
      BY DEF IInv, DataInv, Ids
    <3> QED BY <2>1, <2>2, <3>1 DEF ReadyInv
  <2> QED BY <2>2, <2>3 DEF ReadyInv, Ready
<1>2. CASE MainLoop /\ UNCHANGED <<report, made, queued>>
  <2>1. UNCHANGED disturbed /\ dev'.mounted = dev.mounted
        /\ dev'.suspended = dev.suspended /\ dev'.connected = dev.connected
    <3>1. dev \in Devs
      BY DEF IInv, DataInv
    <3>2. CASE EdptClaim \/ EdptXfer
      BY <3>1, <3>2 DEF EdptClaim, EdptXfer, Ep, Devs
    <3>3. CASE ~(EdptClaim \/ EdptXfer)
      BY <1>2, <3>3 DEF MainLoop, SendReport, DropUnmounted, SendMouse,
                        QueueReport, SendLastReport, Settle
    <3> QED BY <3>2, <3>3
  <2>2. wire' # <<>> => dev'.hid = "busy"
    <3>1. dev \in Devs
      BY DEF IInv, DataInv
    <3>2. CASE EdptClaim
      BY <3>1, <3>2 DEF EdptClaim, Ep, Claimable, Devs, ReadyInv
    <3>3. CASE EdptXfer
      BY <3>1, <3>3 DEF EdptXfer, Ep, Devs, ReadyInv
    <3>4. CASE ~(EdptClaim \/ EdptXfer)
      <4>1. UNCHANGED <<wire, dev>>
        BY <1>2, <3>4 DEF MainLoop, SendReport, DropUnmounted, SendMouse,
                          QueueReport, SendLastReport, Settle
      <4> QED BY <4>1 DEF ReadyInv
    <3> QED BY <3>2, <3>3, <3>4
  <2>3. ~Untouched
    BY <1>2 DEF Untouched, MainLoop, SendReport, DropUnmounted, SendMouse,
                QueueReport, SendLastReport, EdptClaim, EdptXfer, Settle
  <2> QED BY <1>2, <2>1, <2>2, <2>3 DEF ReadyInv, Ready
<1>3. CASE Usb /\ UNCHANGED <<report, made, queued>>
  <2>1. UNCHANGED <<todo, pc, tx_ff_hid>>
    BY <1>3 DEF Usb, Poll, Setup, Suspend, Resume, Unplug, UsbdReset
  <2>2. dev \in Devs
    BY DEF IInv, DataInv
  <2>3. /\ wire' # <<>> => dev'.hid = "busy"
        /\ dev'.mounted => dev'.connected
    <3>1. CASE Poll
      BY <2>2, <3>1 DEF Poll, Completed, Devs, ReadyInv
    <3>2. ASSUME NEW c \in BOOLEAN, Setup(c)
          PROVE  wire' = wire /\ dev'.hid = dev.hid /\ dev'.connected
      BY <2>2, <3>2 DEF Setup, Devs
    <3>3. CASE Suspend \/ Resume \/ Unplug
      BY <2>2, <3>3 DEF Suspend, Resume, Unplug, Devs, ReadyInv
    <3>4. CASE UsbdReset
      BY <3>4 DEF UsbdReset, Unconfigured
    <3> QED BY <1>3, <3>1, <3>2, <3>3, <3>4 DEF Usb, ReadyInv
  <2>4. ASSUME ~disturbed' PROVE Ready' \/ Untouched'
    <3>1. ~disturbed /\ (wire = <<>> => wire' = <<>>)
      BY <1>3, <2>4 DEF Usb, Poll, Setup, Suspend, Resume, Unplug, UsbdReset
    <3>2. CASE Untouched
      BY <2>1, <3>1, <3>2 DEF Untouched
    <3>3. CASE Ready
      BY <1>3, <2>2, <2>4, <3>3 DEF Usb, Poll, Completed, Setup, Suspend,
         Resume, Unplug, UsbdReset, Devs, ReadyInv, Ready
    <3> QED BY <3>1, <3>2, <3>3 DEF ReadyInv
  <2> QED BY <1>3, <2>3, <2>4 DEF ReadyInv
<1>4. CASE UNCHANGED vars
  BY <1>4 DEF vars, hidVars, ReadyInv, Ready, Untouched
<1> QED BY <1>1, <1>2, <1>3, <1>4 DEF Next

(* The ghosts in the same state.                                           *)
LEMMA DeliveryParts ==
  ASSUME IInv, DeliveryInv, Sound
  PROVE  /\ wire \in Seq(Reports) /\ tx_ff_hid \in Fifos
         /\ Framed(tx_ff_hid) /\ JustSent \in Nat
         /\ todo \in Seq(Reports) /\ host.n \in Nat /\ queued \in Nat
         /\ host.val \in [Ids -> Vals] /\ report \in [Ids -> Vals]
         /\ Line(host.n, wire, tx_ff_hid, JustSent, todo, queued)
         /\ Delivery(Under(wire, tx_ff_hid, JustSent, todo),
                     host.n, host.val, report, queued)
BY JustSentIs DEF IInv, DataInv, FrameInv, OrderInv, DeliveryInv, Sound

LEMMA CallDelivery ==
  ASSUME IInv, ReadyInv, DeliveryInv, Caller
  PROVE  DeliveryInv'
<1> SUFFICES ASSUME Sound' PROVE DeliveryInv'
  BY DEF DeliveryInv
<1>1. PICK id \in Ids, new \in Vals, vals \in Seq(Vals) :
        /\ Call(id, new, vals)
        /\ id = "keyboard" => Steps(vals, report[id], new)
        /\ id # "mouse" => /\ vals = <<>> => report[id] = new
                           /\ vals # <<>> => vals[Len(vals)] = new
  BY CallerValues DEF IInv
<1>2. UNCHANGED <<pc, out, ok, tx_ff_hid, wire, host, over>> /\ todo = <<>>
      /\ (disturbed => disturbed') /\ report' = [report EXCEPT ![id] = new]
  BY <1>1 DEF Call
<1>3. Sound /\ JustSent' = JustSent
  BY <1>2 DEF Sound, JustSent
<1> DEFINE U == Under(wire, tx_ff_hid, JustSent, <<>>)
<1>4. /\ Delivery(U, host.n, host.val, report, queued)
      /\ queued \in Nat /\ host.n \in Nat
      /\ report \in [Ids -> Vals]
      /\ \A r \in U : r.n \in Nat /\ r.n <= queued
  <2>1. /\ wire \in Seq(Reports) /\ tx_ff_hid \in Fifos /\ JustSent \in Nat
        /\ Framed(tx_ff_hid) /\ <<>> \in Seq(Reports)
        /\ host.n \in Nat /\ queued \in Nat /\ report \in [Ids -> Vals]
        /\ Line(host.n, wire, tx_ff_hid, JustSent, <<>>, queued)
        /\ Delivery(U, host.n, host.val, report, queued)
    BY <1>2, <1>3, DeliveryParts
  <2>2. ASSUME NEW r \in U PROVE r.n \in Nat /\ r.n <= queued
    <3>1. r.n \in host.n + 1..queued
      BY <2>1, UnderLine
    <3> QED BY <2>1, <3>1
  <2> QED BY <2>1, <2>2
<1>5. Under(wire, tx_ff_hid, JustSent, todo')
        = U \cup {r \in {todo'[i] : i \in 1..Len(todo')} : ~IsMouse(r)}
  BY UnderCalled
<1>6. /\ Len(todo') = Len(vals)
      /\ \A i \in 1..Len(vals) :
           todo'[i] = [id |-> id, val |-> vals[i], goal |-> new,
                       n |-> IF id = "mouse" THEN 0 ELSE queued + i]
      /\ queued' = IF id = "mouse" THEN queued ELSE queued + Len(vals)
  <2>1. Len(vals) \in Nat
    BY LenProperties
  <2> QED BY <1>1, <2>1 DEF Call
<1> HIDE DEF U
<1>7. CASE id = "mouse"
  <2>1. ASSUME NEW i \in 1..Len(todo') PROVE IsMouse(todo'[i])
    <3>1. i \in 1..Len(vals)
      BY <1>6
    <3>2. todo'[i] = [id |-> id, val |-> vals[i], goal |-> new, n |-> 0]
      BY <1>6, <1>7, <3>1
    <3> QED BY <1>7, <3>2 DEF IsMouse
  <2>2. Under(wire, tx_ff_hid, JustSent, todo') = U
    BY <1>5, <2>1
  <2>3. \A c \in Ids \ {"mouse"} : report'[c] = report[c]
    BY <1>2, <1>4, <1>7
  <2>4. Delivery(U, host.n, host.val, report', queued)
    BY <1>4, <2>3 DEF Delivery
  <2> QED BY <1>2, <1>3, <1>6, <1>7, <2>2, <2>4 DEF DeliveryInv
<1>8. CASE id # "mouse"
  <2>1. \A i \in 1..Len(vals) :
          todo'[i] = [id |-> id, val |-> vals[i], goal |-> new,
                      n |-> queued + i]
    BY <1>6, <1>8
  <2>2. ASSUME NEW i \in 1..Len(vals) PROVE ~IsMouse(todo'[i])
    <3>1. todo'[i] = [id |-> id, val |-> vals[i], goal |-> new,
                      n |-> queued + i]
      BY <2>1
    <3> QED BY <1>8, <3>1 DEF IsMouse
  <2>3. {r \in {todo'[i] : i \in 1..Len(todo')} : ~IsMouse(r)}
          = {todo'[i] : i \in 1..Len(vals)}
    BY <1>6, <2>2
  <2>4. {todo'[i] : i \in 1..Len(vals)} = Made(id, vals, new, queued)
    BY <2>1 DEF Made
  <2>5. Under(wire, tx_ff_hid, JustSent, todo')
          = U \cup Made(id, vals, new, queued)
    BY <1>5, <2>3, <2>4
  <2>6. Delivery(U \cup Made(id, vals, new, queued), host.n, host.val,
                 report', queued + Len(vals))
    BY <1>1, <1>2, <1>4, <1>8, DeliveryCalled
  <2> QED BY <1>2, <1>3, <1>6, <1>8, <2>5, <2>6 DEF DeliveryInv
<1> QED BY <1>7, <1>8

(* The loop moves reports and drops none.                                  *)
LEMMA LoopDelivery ==
  ASSUME IInv, ReadyInv, DeliveryInv, MainLoop,
         UNCHANGED <<report, made, queued>>
  PROVE  DeliveryInv'
<1> DEFINE f == tx_ff_hid
<1> SUFFICES ASSUME Sound' PROVE DeliveryInv'
  BY DEF DeliveryInv
<1>1. UNCHANGED <<disturbed, host>> /\ (over => over')
  <2>1. CASE QueueReport
    BY <2>1 DEF QueueReport
  <2>2. CASE ~QueueReport
    BY <2>2 DEF MainLoop, SendReport, DropUnmounted, SendMouse,
                SendLastReport, EdptClaim, EdptXfer, Settle
  <2> QED BY <2>1, <2>2
<1>2. Sound
  BY <1>1 DEF Sound
<1>3. /\ wire \in Seq(Reports) /\ f \in Fifos /\ Framed(f)
      /\ JustSent \in Nat /\ todo \in Seq(Reports)
      /\ Delivery(Under(wire, f, JustSent, todo),
                  host.n, host.val, report, queued)
  BY <1>2, DeliveryParts
<1>4. /\ pc # "settle" => JustSent = 0
      /\ pc' # "settle" => JustSent' = 0
      /\ pc = "settle" =>
           /\ out[1] \in Reports
           /\ JustSent = IF ~IsMouse(out[1]) /\ ok THEN FrameLen(out[1]) ELSE 0
  BY JustSentIs DEF IInv, JustSent
<1>5. dev.mounted /\ ~dev.suspended
  <2>1. ~Untouched
    BY DEF Untouched, MainLoop, SendReport, DropUnmounted, SendMouse,
           QueueReport, SendLastReport, EdptClaim, EdptXfer, Settle
  <2> QED BY <1>2, <2>1 DEF Sound, ReadyInv, Ready
<1>6. Under(wire', f', JustSent', todo') = Under(wire, f, JustSent, todo)
        => DeliveryInv'
  BY <1>1, <1>3 DEF DeliveryInv
<1> HIDE DEF f
<1>7. CASE SendReport
  <2>1. /\ UNCHANGED <<wire, tx_ff_hid>> /\ todo' = todo
        /\ pc # "settle" /\ pc' # "settle"
    BY <1>5, <1>7 DEF SendReport
  <2> QED BY <1>4, <1>6, <2>1 DEF f
<1>8. CASE DropUnmounted
  BY <1>5, <1>8 DEF DropUnmounted
<1>9. CASE SendMouse
  <2>1. /\ UNCHANGED <<wire, tx_ff_hid>> /\ todo' = Tail(todo)
        /\ pc # "settle" /\ pc' # "settle" /\ IsMouse(Head(todo))
        /\ todo # <<>>
    BY <1>9 DEF SendMouse, IsMouse, IInv, DataInv
  <2>2. Under(wire, f, 0, todo') = Under(wire, f, 0, todo)
    BY <1>3, <2>1, UnderTail
  <2> QED BY <1>4, <1>6, <2>1, <2>2 DEF f
<1>10. CASE QueueReport
  <2> DEFINE r == Head(todo)
  <2>1. /\ wire' = wire /\ todo' = Tail(todo) /\ todo # <<>>
        /\ pc # "settle" /\ pc' # "settle"
        /\ ~IsMouse(r) /\ r \in Reports
        /\ f' = WriteN(WriteN(f, Header(r)), Data(r))
    BY <1>3, <1>10, HeadOfTodo DEF QueueReport, IsMouse, IInv, DataInv, f
  <2>2. ~(Overflowable(f) + FrameLen(r) > Depth)
    BY <1>10, <2>1, FrameIs DEF QueueReport, Sound, f
  <2>3. Overflowable(f) \in Nat /\ FrameLen(r) \in Nat
    BY <1>3, <2>1, CellsTyped, FrameIs
  <2>4. Overflowable(f) + FrameLen(r) <= Depth
    BY <2>2, <2>3, DepthAssumption
  <2>5. Under(wire, f', 0, todo') = Under(wire, f, 0, todo)
    BY <1>3, <2>1, <2>4, UnderQueued
  <2> QED BY <1>4, <1>6, <2>1, <2>5
<1>11. CASE SendLastReport
  <2>1. /\ pc # "settle" /\ pc' # "settle" /\ UNCHANGED <<wire, todo>>
        /\ f' = CorrectReadIndex(f)
    BY <1>11 DEF SendLastReport, f
  <2>2. f' = f
    BY <1>3, <2>1, CorrectedIs DEF Framed
  <2> QED BY <1>4, <1>6, <2>1, <2>2
<1>12. CASE EdptClaim
  <2>1. /\ pc # "settle" /\ UNCHANGED <<wire, todo>> /\ f' = f
        /\ pc' = "settle" => ok' = FALSE
    BY <1>12 DEF EdptClaim, f
  <2>2. JustSent' = 0
    BY <1>4, <2>1 DEF JustSent
  <2> QED BY <1>4, <1>6, <2>1, <2>2
<1>13. CASE EdptXfer
  <2>1. /\ pc = "xfer" /\ pc' = "settle" /\ UNCHANGED <<todo, out>> /\ f' = f
        /\ ok' = (dev[Ep] # "busy")
        /\ wire' = IF ok' /\ Ep = "hid" THEN out ELSE wire
    BY <1>13 DEF EdptXfer, f
  <2>2. Ep = "hid"
    BY <1>5 DEF IInv, TypeOK, Ep
  <2>3. CASE ~ok'
    <3>1. wire' = wire /\ JustSent' = 0
      BY <2>1, <2>3 DEF JustSent
    <3> QED BY <1>4, <1>6, <2>1, <3>1
  <2>4. CASE ok'
    <3>1. wire' = out /\ wire = <<>>
      BY <2>1, <2>2, <2>4 DEF ReadyInv
    <3>2. out = <<out[1]>> /\ out[1] \in Reports
      <4>1. out # <<>> /\ Len(out) <= 1 /\ out \in Seq(Reports)
        BY <2>1 DEF IInv, TypeOK, DataInv
      <4> QED BY <4>1, OnlyOne
    <3>3. CASE IsMouse(out[1])
      <4>1. JustSent' = 0
        BY <2>1, <3>2, <3>3 DEF JustSent, Reports
      <4>2. Under(<<out[1]>>, f, 0, todo) = Under(<<>>, f, 0, todo)
        BY <3>2, <3>3, UnderMouse
      <4> QED BY <1>4, <1>6, <2>1, <3>1, <3>2, <4>1, <4>2
    <3>4. CASE ~IsMouse(out[1])
      <4>1. HasFrame(f, 0, out[1])
        BY <1>2, <2>1, <3>4 DEF IInv, FrameInv, SendingPcs, Sound, f
      <4>2. JustSent' = FrameLen(out[1])
        <5>1. out[1].n # None /\ Len(FrameOf(out[1])) = FrameLen(out[1])
          BY <3>2, <3>4, FrameIs DEF Reports
        <5> QED BY <2>1, <2>4, <5>1 DEF JustSent
      <4>3. Under(<<out[1]>>, f, FrameLen(out[1]), todo)
              = Under(<<>>, f, 0, todo)
        BY <1>3, <3>2, <3>4, <4>1, UnderFirst
      <4> QED BY <1>4, <1>6, <2>1, <3>1, <3>2, <4>2, <4>3
    <3> QED BY <3>3, <3>4
  <2> QED BY <2>3, <2>4
<1>14. CASE Settle
  <2>1. /\ pc = "settle" /\ pc' # "settle" /\ UNCHANGED <<todo, wire>>
        /\ out[1] \in Reports
        /\ f' = IF ~IsMouse(out[1]) /\ ok
                  THEN AdvanceReadPointer(f, FrameLen(out[1])) ELSE f
    <3>1. pc = "settle" /\ out[1] \in Reports
      BY <1>4, <1>14 DEF Settle
    <3>2. Consumed(out[1]) = FrameLen(out[1])
      BY <3>1, FrameIs DEF Consumed
    <3> QED BY <1>5, <1>14, <3>1, <3>2 DEF Settle, Discard, IsMouse, f
  <2>2. CASE ~IsMouse(out[1]) /\ ok
    <3>1. HasFrame(f, 0, out[1])
      BY <1>2, <2>1, <2>2 DEF IInv, FrameInv, SendingPcs, Sound, f
    <3>2. Under(wire, f', 0, todo) = Under(wire, f, FrameLen(out[1]), todo)
      BY <1>3, <2>1, <2>2, <3>1, UnderDropped
    <3> QED BY <1>4, <1>6, <2>1, <2>2, <3>2
  <2>3. CASE ~(~IsMouse(out[1]) /\ ok)
    <3>1. f' = f /\ JustSent = 0
      BY <1>4, <2>1, <2>3
    <3> QED BY <1>4, <1>6, <2>1, <3>1
  <2> QED BY <2>2, <2>3
<1> QED BY <1>7, <1>8, <1>9, <1>10, <1>11, <1>12, <1>13, <1>14 DEF MainLoop

LEMMA WireFirst ==
  ASSUME IInv, DeliveryInv, Sound, wire # <<>>, ~IsMouse(wire[1])
  PROVE  LET r == wire[1]
             V == Under(<<>>, tx_ff_hid, JustSent, todo)
         IN  /\ Delivery(V, r.n, [host.val EXCEPT ![r.id] = r.val],
                         report, queued)
             /\ r.id = "keyboard" =>
                  Legal(host.val["keyboard"], r.val, r.goal)
<1> DEFINE r == wire[1]
           V == Under(<<>>, tx_ff_hid, JustSent, todo)
<1>1. wire = <<r>> /\ r \in Reports
  <2>1. Len(wire) <= 1 /\ wire \in Seq(Reports)
    BY DEF IInv, TypeOK, DataInv
  <2> QED BY <2>1, OnlyOne
<1> HIDE DEF r
<1>2. /\ tx_ff_hid \in Fifos /\ Framed(tx_ff_hid) /\ JustSent \in Nat
      /\ todo \in Seq(Reports) /\ host.n \in Nat /\ queued \in Nat
      /\ host.val \in [Ids -> Vals]
      /\ Line(host.n, <<r>>, tx_ff_hid, JustSent, todo, queued)
      /\ Delivery(Under(<<r>>, tx_ff_hid, JustSent, todo),
                  host.n, host.val, report, queued)
  BY <1>1, DeliveryParts
<1>3. ~IsMouse(r)
  BY DEF r
<1>4. Under(<<r>>, tx_ff_hid, JustSent, todo) = {r} \cup V
  BY <1>1, <1>3, UnderTaken
<1>5. r.n \in Nat /\ r.id \in Ids \ {"mouse"} /\ r.n # None
  BY <1>1, <1>3 DEF Reports, IsMouse
<1>6. host.n < r.n
  <2>1. Len(<<r>>) = 1 /\ <<r>>[1] = r /\ 1 \in 1..Len(<<r>>)
    OBVIOUS
  <2>2. <<r>>[1].n # None => host.n < <<r>>[1].n
    BY <1>2, <2>1 DEF Line
  <2> QED BY <1>5, <2>1, <2>2
<1>7. Line(r.n, <<>>, tx_ff_hid, JustSent, todo, queued)
  BY <1>1, <1>2, <1>3, LineTaken
<1>8. ASSUME NEW s \in V PROVE s.n \in Nat /\ r.n < s.n
  <2>1. <<>> \in Seq(Reports)
    OBVIOUS
  <2>2. s.n \in r.n + 1..queued
    BY <1>2, <1>5, <1>7, <2>1, UnderLine
  <2> QED BY <1>2, <1>5, <2>2
<1> HIDE DEF V
<1>9. Delivery({r} \cup V, host.n, host.val, report, queued)
  BY <1>2, <1>4
<1>10. /\ Delivery(V, r.n, [host.val EXCEPT ![r.id] = r.val], report, queued)
       /\ r.id = "keyboard" => Legal(host.val["keyboard"], r.val, r.goal)
  BY <1>2, <1>5, <1>6, <1>8, <1>9, DeliveryTaken
<1> QED BY <1>10 DEF r, V

LEMMA UsbDelivery ==
  ASSUME IInv, ReadyInv, DeliveryInv, Usb, UNCHANGED <<report, made, queued>>
  PROVE  DeliveryInv'
<1> SUFFICES ASSUME Sound' PROVE DeliveryInv'
  BY DEF DeliveryInv
<1>1. UNCHANGED <<todo, pc, out, ok, tx_ff_hid, over>>
  BY DEF Usb, Poll, Setup, Suspend, Resume, Unplug, UsbdReset
<1>2. JustSent' = JustSent
  BY <1>1 DEF JustSent
<1>3. ~disturbed
  BY DEF Sound, Usb, Poll, Setup, Suspend, Resume, Unplug, UsbdReset
<1>4. Sound
  BY <1>1, <1>3 DEF Sound
<1>5. Delivery(Under(wire, tx_ff_hid, JustSent, todo),
               host.n, host.val, report, queued)
  BY <1>4 DEF DeliveryInv
<1>6. CASE UNCHANGED <<wire, host>>
  BY <1>1, <1>2, <1>5, <1>6 DEF DeliveryInv
<1>7. CASE Poll
  <2>1. /\ wire # <<>> /\ wire' = <<>>
        /\ host'.val = [host.val EXCEPT ![wire[1].id] = wire[1].val]
        /\ host'.n = IF IsMouse(wire[1]) THEN host.n ELSE wire[1].n
    BY <1>7 DEF Poll, IsMouse
  <2>2. CASE IsMouse(wire[1])
    <3>1. wire = <<wire[1]>> /\ wire[1] \in Reports
      <4>1. Len(wire) <= 1 /\ wire \in Seq(Reports)
        BY DEF IInv, TypeOK, DataInv
      <4> QED BY <2>1, <4>1, OnlyOne
    <3>2. Under(<<wire[1]>>, tx_ff_hid, JustSent, todo)
            = Under(<<>>, tx_ff_hid, JustSent, todo)
      BY <2>2, <3>1, UnderMouse
    <3>3. \A id \in Ids \ {"mouse"} : host'.val[id] = host.val[id]
      <4>1. host.val \in [Ids -> Vals]
        BY <1>4, DeliveryParts
      <4> QED BY <2>1, <2>2, <4>1 DEF IsMouse
    <3>4. "keyboard" \in Ids \ {"mouse"}
      BY DEF Ids
    <3>5. Delivery(Under(<<>>, tx_ff_hid, JustSent, todo),
                   host.n, host'.val, report, queued)
      BY <1>5, <3>1, <3>2, <3>3, <3>4 DEF Delivery
    <3> QED BY <1>1, <1>2, <2>1, <2>2, <3>5 DEF DeliveryInv
  <2>3. CASE ~IsMouse(wire[1])
    <3>1. Delivery(Under(<<>>, tx_ff_hid, JustSent, todo), wire[1].n,
                   [host.val EXCEPT ![wire[1].id] = wire[1].val],
                   report, queued)
      BY <1>4, <2>1, <2>3, WireFirst
    <3> QED BY <1>1, <1>2, <2>1, <2>3, <3>1 DEF DeliveryInv
  <2> QED BY <2>2, <2>3
<1>8. CASE UsbdReset
  <2>1. ~dev.connected
    BY <1>8 DEF UsbdReset, Sound
  <2>2. Untouched
    BY <1>3, <2>1 DEF ReadyInv, Ready
  <2>3. wire' = wire /\ host' = host
    BY <1>8, <2>2 DEF UsbdReset, Untouched
  <2> QED BY <1>6, <2>3
<1>9. (\E c \in BOOLEAN : Setup(c)) \/ Suspend \/ Resume \/ Unplug =>
        UNCHANGED <<wire, host>>
  BY DEF Setup, Suspend, Resume, Unplug
<1> QED BY <1>6, <1>7, <1>8, <1>9 DEF Usb

LEMMA InitDelivery ==
  ASSUME Init
  PROVE  ReadyInv /\ DeliveryInv
<1> DEFINE f == FifoConfig(NoCell)
<1>1. /\ todo = <<>> /\ pc = "idle" /\ out = <<>> /\ ok = FALSE
      /\ tx_ff_hid = f /\ dev = Unconfigured /\ wire = <<>>
      /\ host = [val |-> [id \in Ids |-> {}], n |-> 0]
      /\ disturbed = FALSE /\ over = FALSE
      /\ report = [id \in Ids |-> {}] /\ made = 0 /\ queued = 0
  BY DEF Init, HidInit, NoCell
<1>2. f \in Fifos
  BY DepthAssumption DEF FifoConfig, Fifos, Cells, Indices
<1>3. Overflowable(f) = 0
  BY DEF FifoConfig, Overflowable, CountBetween
<1> HIDE DEF f
<1>4. FifoCount(f) = 0
  BY <1>2, <1>3, CorrectedIs, DepthAssumption
<1>5. ReadyInv
  <2>1. ~dev.mounted
    BY <1>1 DEF Unconfigured
  <2>2. report["keyboard"] = {}
    BY <1>1 DEF Ids
  <2> QED BY <1>1, <1>4, <2>1, <2>2 DEF ReadyInv, Untouched
<1>6. JustSent = 0
  BY <1>1 DEF JustSent
<1>7. Under(<<>>, f, 0, <<>>) = {}
  <2>1. Len(<<>>) = 0
    OBVIOUS
  <2>2. \A i : ~(i \in 1..0) /\ ~(i \in 0..0 - 1)
    OBVIOUS
  <2> QED BY <1>3, <2>1, <2>2 DEF Under
<1>8. Delivery({}, 0, host.val, report, 0)
  <2>1. \A id : Of({}, id) = {}
    BY DEF Of
  <2>2. Covered({}, 0, 0)
    BY DEF Covered
  <2>3. \A id \in Ids : host.val[id] = report[id]
    BY <1>1
  <2> QED BY <2>1, <2>2, <2>3 DEF Delivery, LastIs
<1>9. DeliveryInv
  BY <1>1, <1>6, <1>7, <1>8 DEF DeliveryInv
<1> QED BY <1>5, <1>9

LEMMA NextDelivery ==
  ASSUME IInv, ReadyInv, DeliveryInv, [Next]_vars
  PROVE  DeliveryInv'
<1>1. CASE UNCHANGED vars
  BY <1>1 DEF vars, hidVars, DeliveryInv, Sound, JustSent
<1>2. CASE Caller
  BY <1>2, CallDelivery
<1>3. CASE (MainLoop \/ Usb) /\ UNCHANGED <<report, made, queued>>
  BY <1>3, LoopDelivery, UsbDelivery
<1> QED BY <1>1, <1>2, <1>3 DEF Next

(* The device is ready until it is disturbed, and what is under way is     *)
(* what the host misses.                                                   *)
THEOREM DeliveryIsKept == Spec => [](ReadyInv /\ DeliveryInv)
<1>1. Init => ReadyInv /\ DeliveryInv
  BY InitDelivery
<1>2. IInv /\ ReadyInv /\ DeliveryInv /\ [Next]_vars
        => ReadyInv' /\ DeliveryInv'
  BY ReadyStep, NextDelivery
<1> QED BY <1>1, <1>2, Invariance, PTL DEF Spec

(* The properties count headers: every frame in the FIFO whose bytes are   *)
(* still to be sent has its header among them.                             *)
LEMMA HeaderAhead ==
  ASSUME IInv, ~over, NEW i \in JustSent..Overflowable(tx_ff_hid) - 1
  PROVE  \E j \in JustSent..Overflowable(tx_ff_hid) - 1 :
           /\ At(tx_ff_hid, j).byte = 1
           /\ At(tx_ff_hid, j).of = At(tx_ff_hid, i).of
<1> DEFINE f == tx_ff_hid
           r == At(f, i).of
           b == At(f, i).byte
<1>1. f \in Fifos /\ Framed(f) /\ JustSent \in Nat
  BY JustSentIs DEF IInv, DataInv, FrameInv
<1>2. PICK c \in Nat, s \in Nat : c = Overflowable(f) /\ s = JustSent
  BY <1>1, CellsTyped
<1>3. i \in 0..c - 1 /\ i >= s
  BY <1>1, <1>2
<1>4. At(f, i) \in Frames
  BY <1>1, <1>2, <1>3, CellsTyped
<1>5. PICK k \in Nat \ {0}, l \in Nat \ {0} :
        k = b /\ l = FrameLen(r) /\ k <= l
  <2>1. b <= FrameLen(r)
    BY <1>1, <1>2, <1>3 DEF Framed
  <2> QED BY <1>4, <2>1, FrameIs DEF Frames
<1>6. HasFrame(f, i + 1 - k, r)
  BY <1>1, <1>2, <1>3, <1>5 DEF Framed
<1> HIDE DEF f, r, b
<1>7. PICK j \in Int : j = i + 1 - k
  BY <1>3
<1>8. j \in 0..c - 1
  BY <1>2, <1>3, <1>5, <1>6, <1>7 DEF HasFrame
<1>9. At(f, j) = [of |-> r, byte |-> 1]
  <2>1. 1 \in 1..l /\ j + 1 - 1 = j
    BY <1>7
  <2>2. At(f, j + 1 - 1) = [of |-> r, byte |-> 1]
    BY <1>5, <1>6, <1>7, <2>1 DEF HasFrame
  <2> QED BY <2>1, <2>2
<1>10. j >= s
  <2>1. CASE s = 0
    BY <1>8, <2>1
  <2>2. CASE s # 0
    <3>1. /\ out[1] \in Reports /\ s = FrameLen(out[1])
          /\ HasFrame(f, 0, out[1])
      BY <1>2, <2>2, JustSentIs DEF IInv, FrameInv, SendingPcs, f
    <3> SUFFICES ASSUME j < s PROVE FALSE
      BY <1>8
    <3>2. j + 1 \in 1..s /\ 0 + (j + 1) - 1 = j
      BY <1>8
    <3>3. At(f, 0 + (j + 1) - 1) = [of |-> out[1], byte |-> j + 1]
      BY <3>1, <3>2 DEF HasFrame
    <3>4. j + 1 = 1 /\ out[1] = r
      BY <1>9, <3>2, <3>3
    <3>5. l = s /\ i + 1 = k
      BY <1>3, <1>5, <1>7, <3>1, <3>4
    <3> QED BY <1>3, <1>5, <3>5
  <2> QED BY <2>1, <2>2
<1>11. At(f, j).byte = 1 /\ At(f, j).of = r
  BY <1>9
<1> QED BY <1>2, <1>8, <1>10, <1>11 DEF f, r

LEMMA UnderWayIs ==
  ASSUME IInv, ~over
  PROVE  UnderWay = {r.n : r \in Under(wire, tx_ff_hid, JustSent, todo)}
<1> DEFINE f == tx_ff_hid
           U == Under(wire, f, JustSent, todo)
           cells == PeekN(f, FifoCount(f))
           headers == {j \in JustSent + 1..Len(cells) : HeaderOf(cells[j])}
<1>1. /\ f \in Fifos /\ Framed(f) /\ JustSent \in Nat
      /\ wire \in Seq(Reports) /\ todo \in Seq(Reports)
  BY JustSentIs DEF IInv, DataInv, FrameInv
<1>2. PICK c \in Nat, s \in Nat : c = Overflowable(f) /\ s = JustSent
  BY <1>1, CellsTyped
<1>3. Len(cells) = c /\ \A i \in 1..c : cells[i] = At(f, i - 1)
  <2>1. c \in 0..Overflowable(f) /\ c <= Depth
    BY <1>1, <1>2 DEF Framed
  <2>2. FifoCount(f) = c
    BY <1>1, <1>2, <2>1, CorrectedIs
  <2>3. cells = [i \in 1..c |-> At(f, i - 1)]
    BY <1>1, <1>2, <2>1, <2>2, PeekIs
  <2> HIDE DEF cells
  <2> QED BY <2>3
<1>4. DOMAIN wire = 1..Len(wire) /\ DOMAIN todo = 1..Len(todo)
  BY <1>1, LenProperties
<1> HIDE DEF cells
<1>5. UnderWay = {n \in {wire[i].n : i \in DOMAIN wire}
                        \cup {cells[j].of.n : j \in headers}
                        \cup {todo[i].n : i \in DOMAIN todo} : IsQueued(n)}
  BY Zenon DEF UnderWay, cells, f
<1>6. ASSUME NEW r \in Reports, r.n # None PROVE ~IsMouse(r)
  BY <1>6 DEF Reports
<1>7. ASSUME NEW n \in UnderWay PROVE \E r \in U : r.n = n
  <2>1. n # None
    BY <1>5 DEF IsQueued
  <2>2. CASE n \in {wire[i].n : i \in DOMAIN wire}
    <3>1. PICK i \in 1..Len(wire) : wire[i].n = n
      BY <1>4, <2>2
    <3>2. ~IsMouse(wire[i])
      BY <1>1, <1>6, <2>1, <3>1, ElementOfSeq
    <3>3. wire[i] \in U
      BY <3>2, UnderIs
    <3> QED BY <3>1, <3>3
  <2>3. CASE n \in {cells[j].of.n : j \in headers}
    <3>1. PICK j \in headers : cells[j].of.n = n
      BY <2>3
    <3>2. j - 1 \in s..c - 1 /\ cells[j] = At(f, j - 1)
      BY <1>2, <1>3
    <3>3. ~IsMouse(At(f, j - 1).of)
      <4>1. j - 1 \in 0..c - 1
        BY <3>2
      <4> QED BY <1>1, <1>2, <4>1 DEF Framed
    <3>4. At(f, j - 1).of \in U
      BY <1>2, <3>2, <3>3, UnderIs
    <3> QED BY <3>1, <3>2, <3>4
  <2>4. CASE n \in {todo[i].n : i \in DOMAIN todo}
    <3>1. PICK i \in 1..Len(todo) : todo[i].n = n
      BY <1>4, <2>4
    <3>2. ~IsMouse(todo[i])
      BY <1>1, <1>6, <2>1, <3>1, ElementOfSeq
    <3>3. todo[i] \in U
      BY <3>2, UnderIs
    <3> QED BY <3>1, <3>3
  <2> QED BY <1>5, <2>2, <2>3, <2>4
<1>8. ASSUME NEW r \in U PROVE r.n \in UnderWay
  <2>1. IsQueued(r.n)
    BY <1>1, UnderTyped DEF IsQueued
  <2>2. CASE \E i \in 1..Len(wire) : wire[i] = r
    BY <1>4, <1>5, <2>1, <2>2
  <2>3. CASE \E i \in 1..Len(todo) : todo[i] = r
    BY <1>4, <1>5, <2>1, <2>3
  <2>4. CASE \E i \in JustSent..Overflowable(f) - 1 : At(f, i).of = r
    <3>1. PICK j \in JustSent..Overflowable(f) - 1 :
            At(f, j).byte = 1 /\ At(f, j).of = r
      BY <2>4, HeaderAhead
    <3>2. j + 1 \in 1..c /\ j + 1 \in s + 1..c /\ (j + 1) - 1 = j
      BY <1>2, <3>1
    <3>3. cells[j + 1] = At(f, j)
      BY <1>3, <3>2
    <3>4. j + 1 \in headers /\ cells[j + 1].of.n = r.n
      BY <1>2, <1>3, <3>1, <3>2, <3>3 DEF HeaderOf
    <3> QED BY <1>5, <2>1, <3>4
  <2> QED BY <2>2, <2>3, <2>4, UnderIs
<1> QED BY <1>7, <1>8

(* A host that stays ready gets every queued report, however many there    *)
(* are, however long they are and however full the FIFO becomes, unless it *)
(* overflows.                                                              *)
THEOREM AllAreDelivered == Spec => []NothingLost
<1>1. IInv /\ DeliveryInv => NothingLost
  <2> SUFFICES ASSUME IInv, DeliveryInv, Sound
               PROVE  UnderWay = host.n + 1..queued
    BY DEF NothingLost
  <2> DEFINE U == Under(wire, tx_ff_hid, JustSent, todo)
  <2>1. UnderWay = {r.n : r \in U}
    BY UnderWayIs DEF Sound
  <2>2. \A r \in U : r.n \in host.n + 1..queued
    BY DeliveryParts, UnderLine
  <2>3. \A n \in host.n + 1..queued : \E r \in U : r.n = n
    BY DeliveryParts DEF Delivery, Covered
  <2> HIDE DEF U
  <2> QED BY <2>1, <2>2, <2>3
<1> QED BY <1>1, Invariance, DeliveryIsKept, PTL

(* When nothing is under way, such a host holds what the keyboard and the  *)
(* consumer class have composed.                                           *)
THEOREM HostIsUpToDate == Spec => []HostHoldsLast
<1>1. IInv /\ DeliveryInv => HostHoldsLast
  <2> SUFFICES ASSUME IInv, DeliveryInv, Sound, UnderWay = {},
                      NEW id \in Ids \ {"mouse"}
               PROVE  host.val[id] = report[id]
    BY DEF HostHoldsLast
  <2> DEFINE U == Under(wire, tx_ff_hid, JustSent, todo)
  <2>1. UnderWay = {r.n : r \in U}
    BY UnderWayIs DEF Sound
  <2>2. U = {}
    BY <2>1
  <2>3. LastIs(Of(U, id), host.val[id], report[id])
    BY DeliveryParts DEF Delivery
  <2>4. Of(U, id) = {}
    BY <2>2 DEF Of
  <2> QED BY <2>3, <2>4 DEF LastIs
<1> QED BY <1>1, Invariance, DeliveryIsKept, PTL

(* Whatever the caller composes from whatever was composed before, each    *)
(* report of the keyboard that such a host gets changes modifiers or keys, *)
(* keys go up before the modifiers change and down after it.               *)
THEOREM ChordsAreOrdered == Spec => ChordOrdered
<1> DEFINE Ordered ==
             Sound => LET was == host.val["keyboard"]
                          is == host.val'["keyboard"] IN
               /\ \/ was \cap Modifiers = is \cap Modifiers
                  \/ was \cap Keys = is \cap Keys
               /\ was \cap Modifiers # is \cap Modifiers =>
                    is \cap Keys \subseteq wire[1].goal
               /\ ~((is \cap Keys) \subseteq was) =>
                    is \cap Modifiers = wire[1].goal \cap Modifiers
<1>1. IInv /\ DeliveryInv /\ [Next]_vars => [Ordered]_host
  <2> SUFFICES ASSUME IInv, DeliveryInv, [Next]_vars, host' # host, Sound
               PROVE  Ordered
    OBVIOUS
  <2>1. Poll
    BY DEF Next, Caller, KeyboardSendReport, ConsumerSendReport,
           MouseSendReport, MouseClick, Call, MainLoop, SendReport,
           DropUnmounted, SendMouse, QueueReport, SendLastReport, EdptClaim,
           EdptXfer, Settle, Usb, Setup, Suspend, Resume, Unplug, UsbdReset,
           vars, hidVars
  <2>2. /\ wire # <<>>
        /\ host'.val = [host.val EXCEPT ![wire[1].id] = wire[1].val]
    BY <2>1 DEF Poll
  <2>3. host.val \in [Ids -> Vals] /\ "keyboard" \in Ids
    BY DEF IInv, DataInv, Ids
  <2>4. CASE wire[1].id = "keyboard"
    <3>1. Legal(host.val["keyboard"], wire[1].val, wire[1].goal)
      BY <2>2, <2>4, WireFirst DEF IsMouse
    <3>2. host.val'["keyboard"] = wire[1].val
      BY <2>2, <2>3, <2>4
    <3> QED BY <3>1, <3>2 DEF Legal
  <2>5. CASE wire[1].id # "keyboard"
    <3>1. host.val'["keyboard"] = host.val["keyboard"]
      BY <2>2, <2>3, <2>5
    <3> QED BY <3>1
  <2> QED BY <2>4, <2>5
<1> QED BY <1>1, Invariance, DeliveryIsKept, PTL DEF Spec, ChordOrdered

=============================================================================
