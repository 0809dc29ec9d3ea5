--------------------------- MODULE PlaybackProofs ---------------------------
(***************************************************************************)
(* Proofs about modules RingBuffer and Playback, for a ring of any size,   *)
(* packets of any length and any bounds.                                   *)
(*                                                                         *)
(* First the ring: what a write, a read and a drop do to the queue it      *)
(* stands for, wherever the blocks are split at the end of the array.      *)
(* Then the samples: packets are decoded in the host's order, so the       *)
(* samples written grow, with odd and even ones taking turns, and what the *)
(* device was given last is smaller than everything that is left.          *)
(***************************************************************************)
EXTENDS Playback, FiniteSetTheorems, SequenceTheorems, TLAPS
-----------------------------------------------------------------------------
(* The inductive invariant.                                                *)

RingType == [readPos : 0..(SIZE - 1), bufferSize : 0..SIZE, buffer : [0..(SIZE - 1) -> Nat]]

\* The cell that is k cells behind cell p.
Pos(p, k) == IF p + k < SIZE THEN p + k ELSE p + k - SIZE

\* The ring r holds the end of w.
Holds(r, w) ==
    /\ r.bufferSize <= Len(w)
    /\ \A i \in 1..r.bufferSize : r.buffer[Pos(r.readPos, i - 1)] = w[Len(w) - r.bufferSize + i]

RingInv ==
    /\ ring \in RingType
    /\ written \in Seq(Nat) /\ Len(written) <= SIZE
    /\ Holds(ring, written)

\* Packets are numbers in the order of the host's; none is decoded twice.
QueueInv ==
    /\ received \in Nat /\ decoded \in 0..received
    /\ flagPlayAudio \in BOOLEAN
    /\ audioData \in Seq(Nat)
    /\ \A i \in 1..Len(audioData) :
         /\ decoded < audioData[i] /\ audioData[i] <= received
         /\ recv = "push" => audioData[i] < received
         /\ \A j \in 1..Len(audioData) : i < j => audioData[i] < audioData[j]
    /\ recv = "push" => decoded < received
    /\ aPc = "decode" => decoded # 0
    /\ aPc = "check" /\ flagPlayAudio => audioData # <<>>

\* The last sample of the packets that have been written.
Top == 2 * MaxFrames * (IF aPc = "decode" THEN decoded - 1 ELSE decoded)

\* Samples alternate and grow, up to top.
Growing(w, top) ==
    /\ Len(w) % 2 = 0
    /\ \A i \in 1..Len(w) : /\ w[i] % 2 = i % 2 /\ 0 < w[i] /\ w[i] <= top
                            /\ \A j \in 1..Len(w) : i < j => w[i] < w[j]

OrderInv ==
    /\ Growing(written, Top)
    /\ ring.bufferSize % 2 = 0
    /\ last \in Nat /\ last <= Top
    /\ \A i \in 1..Len(written) : Len(written) - ring.bufferSize < i => last < written[i]

\* The constructor starts the audio thread.
StartInv == win = "ctor" => aPc = "off"

IndInv == RingInv /\ QueueInv /\ OrderInv /\ StartInv

USE SizeAssumption
-----------------------------------------------------------------------------
(* The ring.                                                               *)

\* Positions in the array: the remainder is a subtraction.
LEMMA PosIs ==
  ASSUME NEW p \in 0..(SIZE - 1), NEW k \in 0..SIZE
  PROVE  (p + k) % SIZE = Pos(p, k) /\ Pos(p, k) \in 0..(SIZE - 1)
<1>1. CASE p + k < SIZE
    BY <1>1 DEF Pos
<1>2. CASE ~ (p + k < SIZE)
    BY <1>2 DEF Pos
<1> QED BY <1>1, <1>2

\* Two steps forward are one.
LEMMA PosAdd ==
  ASSUME NEW p \in 0..(SIZE - 1), NEW k \in Nat, NEW l \in Nat, k + l <= SIZE
  PROVE  Pos(Pos(p, k), l) = Pos(p, k + l)
BY DEF Pos

\* Different distances are different cells.
LEMMA PosDiffer ==
  ASSUME NEW p \in 0..(SIZE - 1), NEW k \in 0..(SIZE - 1), NEW l \in 0..(SIZE - 1), k # l
  PROVE  Pos(p, k) # Pos(p, l)
BY DEF Pos

\* What drop() does to the fields.
LEMMA DropFields ==
  ASSUME NEW r \in RingType, NEW n \in 0..r.bufferSize, NEW q, q = Drop(r, n)
  PROVE  /\ q \in RingType /\ q.buffer = r.buffer
         /\ q.readPos = Pos(r.readPos, n) /\ q.bufferSize = r.bufferSize - n
<1>1. r.readPos \in 0..(SIZE - 1) /\ r.bufferSize \in 0..SIZE /\ n \in 0..SIZE
    BY DEF RingType
<1>2. (r.readPos + n) % SIZE = Pos(r.readPos, n) /\ Pos(r.readPos, n) \in 0..(SIZE - 1)
    BY <1>1, PosIs
<1>3. q = [r EXCEPT !.readPos = Pos(r.readPos, n), !.bufferSize = r.bufferSize - n]
    BY <1>2 DEF Drop
<1>4. r.bufferSize - n \in 0..SIZE
    BY <1>1
<1> QED BY <1>2, <1>3, <1>4 DEF RingType

\* read() leaves the ring as drop() does, although it computes the position by itself.
LEMMA ReadIsDrop ==
  ASSUME NEW r \in RingType, NEW n \in 0..r.bufferSize
  PROVE  AfterRead(r, n) = Drop(r, n)
<1>1. r.readPos \in 0..(SIZE - 1) /\ r.bufferSize \in 0..SIZE /\ n \in 0..SIZE
    BY DEF RingType
<1>2. (r.readPos + n) % SIZE = Pos(r.readPos, n)
    BY <1>1, PosIs
<1>3. (IF n = 0 THEN r.readPos
       ELSE IF SIZE <= r.readPos + n THEN n - (SIZE - r.readPos) ELSE r.readPos + n) = Pos(r.readPos, n)
    BY <1>1 DEF Pos
<1> QED BY <1>2, <1>3 DEF AfterRead, Drop, RingType

\* What is left is the end of what was there.
LEMMA DropHolds ==
  ASSUME NEW r \in RingType, NEW n \in 0..r.bufferSize, NEW q, q = Drop(r, n),
         NEW w \in Seq(Nat), Holds(r, w)
  PROVE  Holds(q, w)
<1>1. /\ q.buffer = r.buffer /\ q.readPos = Pos(r.readPos, n) /\ q.bufferSize = r.bufferSize - n
    BY DropFields
<1>2. /\ r.readPos \in 0..(SIZE - 1) /\ r.bufferSize \in 0..SIZE /\ n \in Nat /\ Len(w) \in Nat
      /\ r.bufferSize <= Len(w)
    BY DEF RingType, Holds
<1>3. ASSUME NEW i \in 1..q.bufferSize
      PROVE  q.buffer[Pos(q.readPos, i - 1)] = w[Len(w) - q.bufferSize + i]
  <2>1. PICK j : j = n + i
    OBVIOUS
  <2>2. j \in 1..r.bufferSize /\ i - 1 \in Nat /\ n + (i - 1) <= SIZE /\ n + (i - 1) = j - 1
    BY <1>1, <1>2, <2>1
  <2>3. Pos(q.readPos, i - 1) = Pos(r.readPos, j - 1)
    <3>1. PICK k \in Nat : k = i - 1 /\ n + k <= SIZE /\ n + k = j - 1
      BY <2>2
    <3>2. r.readPos \in 0..(SIZE - 1) /\ n \in Nat
      BY <1>2
    <3>3. Pos(Pos(r.readPos, n), k) = Pos(r.readPos, n + k)
      BY <3>1, <3>2, PosAdd
    <3> QED BY <1>1, <3>1, <3>3
  <2>4. r.buffer[Pos(r.readPos, j - 1)] = w[Len(w) - r.bufferSize + j]
    BY <2>2 DEF Holds
  <2>5. Len(w) - q.bufferSize + i = Len(w) - r.bufferSize + j
    BY <1>1, <1>2, <2>1
  <2> QED BY <1>1, <2>3, <2>4, <2>5
<1>4. q.bufferSize <= Len(w)
    BY <1>1, <1>2
<1> QED BY <1>3, <1>4 DEF Holds

\* Values in a row are a sequence.
LEMMA SeqOfValues ==
  ASSUME NEW n \in Nat, NEW v \in [1..n -> Nat]
  PROVE  v \in Seq(Nat) /\ Len(v) = n
OBVIOUS

\* v is the first n of the b values at the end of w.
Gives(v, n, w, b) ==
    /\ v \in Seq(Nat) /\ Len(v) = n
    /\ \A i \in 1..n : v[i] = w[Len(w) - b + i]

\* read() gives the values of the queue, in one piece or two.
LEMMA ReadGives ==
  ASSUME NEW r \in RingType, NEW n \in 0..r.bufferSize, NEW w \in Seq(Nat), Holds(r, w),
         NEW v, v = ReadValues(r, n)
  PROVE  Gives(v, n, w, r.bufferSize)
<1>1. r.readPos \in 0..(SIZE - 1) /\ r.bufferSize \in 0..SIZE /\ n \in Nat /\ n <= r.bufferSize
    BY DEF RingType
<1>2. ASSUME NEW i \in 1..n
      PROVE  /\ v[i] = r.buffer[Pos(r.readPos, i - 1)]
             /\ i \in 1..r.bufferSize
  <2>1. PICK first : first = IF SIZE <= r.readPos + n THEN SIZE - r.readPos ELSE n
    OBVIOUS
  <2>2. v[i] = IF i <= first THEN r.buffer[r.readPos + i - 1] ELSE r.buffer[i - first - 1]
    BY <2>1 DEF ReadValues
  <2>3. i <= first => Pos(r.readPos, i - 1) = r.readPos + i - 1
    BY <1>1, <2>1 DEF Pos
  <2>4. ~ (i <= first) => Pos(r.readPos, i - 1) = i - first - 1
    BY <1>1, <2>1 DEF Pos
  <2>5. i \in 1..r.bufferSize
    BY <1>1
  <2> QED BY <2>2, <2>3, <2>4, <2>5
<1>3. \A i \in 1..n : v[i] = w[Len(w) - r.bufferSize + i]
    BY <1>2 DEF Holds
<1>4. \A i \in 1..n : v[i] \in Nat
  <2> TAKE i \in 1..n
  <2>1. i - 1 \in 0..SIZE
    BY <1>1
  <2>2. Pos(r.readPos, i - 1) \in 0..(SIZE - 1)
    BY <1>1, <2>1, PosIs
  <2> QED BY <1>2, <2>2 DEF RingType
<1>5. v = [i \in 1..n |-> v[i]]
    BY DEF ReadValues
<1>6. v \in Seq(Nat) /\ Len(v) = n
  <2>1. v \in [1..n -> Nat]
    BY <1>4, <1>5
  <2> QED BY <1>1, <2>1, SeqOfValues
<1> QED BY <1>3, <1>6 DEF Gives

\* Where a write of n values ends, behind b values from cell p on: it goes over the end of the
\* array if the position after it is not behind the one before it.
LEMMA PosEnd ==
  ASSUME NEW p \in 0..(SIZE - 1), NEW b \in Nat, NEW n \in Nat, b + n <= SIZE, n # 0,
         NEW wp, wp = Pos(p, b), NEW ep, ep = Pos(p, b + n)
  PROVE  ep <= wp <=> SIZE <= wp + n
BY DEF Pos

\* The cells of the b values are not among those written.
LEMMA PosKept ==
  ASSUME NEW p \in 0..(SIZE - 1), NEW b \in Nat, NEW n \in Nat, b + n <= SIZE,
         NEW wp, wp = Pos(p, b), NEW i \in 1..b, NEW c, c = Pos(p, i - 1)
  PROVE  c \in 0..(SIZE - 1) /\ ~ (wp <= c /\ c < wp + n) /\ ~ (c < wp + n - SIZE)
BY DEF Pos

\* Cell c gets the k-th of n values written from cell wp on, before or after the end of the
\* array.
Into(c, k, wp, n) ==
    \/ wp <= c /\ c < wp + n /\ c - wp + 1 = k
    \/ ~ (wp <= c) /\ c < wp + n - SIZE /\ SIZE - wp + c + 1 = k

\* The cell of the k-th value.
LEMMA PosWritten ==
  ASSUME NEW p \in 0..(SIZE - 1), NEW b \in Nat, NEW n \in Nat, b + n <= SIZE,
         NEW wp, wp = Pos(p, b), NEW k \in 1..n, NEW m, m = b + k - 1, NEW c, c = Pos(p, m)
  PROVE  c \in 0..(SIZE - 1) /\ Into(c, k, wp, n)
<1>1. wp \in Int /\ c \in Int
    BY DEF Pos
<1>2. CASE wp + k - 1 < SIZE
    BY <1>1, <1>2 DEF Pos, Into
<1>3. CASE ~ (wp + k - 1 < SIZE)
    BY <1>1, <1>3 DEF Pos, Into
<1> QED BY <1>1, <1>2, <1>3

\* Two blocks, the first up to the end of the array.
LEMMA TwoBlocks ==
  ASSUME NEW wp \in 0..(SIZE - 1), NEW n \in Nat, SIZE <= wp + n, n <= SIZE,
         NEW f, f = SIZE - wp, NEW c \in 0..(SIZE - 1)
  PROVE  /\ 0 <= c /\ c < 0 + (n - f) <=> c < wp + n - SIZE
         /\ c < wp + n - SIZE => ~ (wp <= c)
         /\ wp <= c => c < wp + f /\ c < wp + n
         /\ f + c - 0 + 1 = SIZE - wp + c + 1 /\ 0 + c - wp + 1 = c - wp + 1
OBVIOUS

\* The cells d are the cells with n values of arr, from the skip-th on, in the place of those
\* from pos on.
IsCopy(d, cells, pos, arr, skip, n) ==
    /\ d \in [0..(SIZE - 1) -> Nat]
    /\ \A c \in 0..(SIZE - 1) :
         d[c] = IF pos <= c /\ c < pos + n THEN arr[skip + c - pos + 1] ELSE cells[c]

\* memcpy makes such a copy.
LEMMA CopiedCells ==
  ASSUME NEW cells \in [0..(SIZE - 1) -> Nat], NEW pos \in Nat, NEW arr \in Seq(Nat),
         NEW skip \in Nat, NEW n \in Nat, skip + n <= Len(arr), NEW d, d = Copied(cells, pos, arr, skip, n)
  PROVE  IsCopy(d, cells, pos, arr, skip, n)
<1>1. d = [c \in 0..(SIZE - 1) |-> IF c \in pos..(pos + n - 1) THEN arr[skip + c - pos + 1] ELSE cells[c]]
    BY DEF Copied
<1>2. \A c \in 0..(SIZE - 1) : c \in pos..(pos + n - 1) <=> pos <= c /\ c < pos + n
    OBVIOUS
<1>3. ASSUME NEW c \in 0..(SIZE - 1), pos <= c /\ c < pos + n PROVE arr[skip + c - pos + 1] \in Nat
  <2>1. skip + c - pos + 1 \in 1..Len(arr)
    BY <1>3
  <2> QED BY <2>1, ElementOfSeq
<1> QED BY <1>1, <1>2, <1>3 DEF IsCopy

\* write() as one loop over the cells, although it copies one block or two.
LEMMA WriteFields ==
  ASSUME NEW r \in RingType, NEW arr \in Seq(Nat), r.bufferSize + Len(arr) <= SIZE,
         NEW q, q = Write(r, arr)
  PROVE  /\ q \in RingType /\ q.readPos = r.readPos /\ q.bufferSize = r.bufferSize + Len(arr)
         /\ \A c \in 0..(SIZE - 1) :
              LET wp == Pos(r.readPos, r.bufferSize)
              IN  q.buffer[c] = IF wp <= c /\ c < wp + Len(arr) THEN arr[c - wp + 1]
                                ELSE IF c < wp + Len(arr) - SIZE THEN arr[SIZE - wp + c + 1]
                                ELSE r.buffer[c]
<1>1. PICK p, b, n, wp, ep :
        /\ p = r.readPos /\ b = r.bufferSize /\ n = Len(arr)
        /\ wp = Pos(p, b) /\ ep = Pos(p, b + n)
    OBVIOUS
<1>2. /\ p \in 0..(SIZE - 1) /\ b \in Nat /\ n \in Nat /\ b + n <= SIZE /\ b \in 0..SIZE /\ b + n \in 0..SIZE
      /\ r.buffer \in [0..(SIZE - 1) -> Nat]
    BY <1>1 DEF RingType
<1>3. (p + b) % SIZE = wp /\ wp \in 0..(SIZE - 1) /\ (p + b + n) % SIZE = ep
  <2>1. (p + b) % SIZE = wp /\ wp \in 0..(SIZE - 1)
    BY <1>1, <1>2, PosIs
  <2>2. (p + (b + n)) % SIZE = ep
    BY <1>1, <1>2, PosIs
  <2>3. p + (b + n) = p + b + n
    BY <1>2
  <2> QED BY <2>1, <2>2, <2>3
<1>4. n # 0 => (ep <= wp <=> SIZE <= wp + n)
    BY <1>1, <1>2, PosEnd
<1>5. PICK f, d1, d2, d3 :
        /\ f = SIZE - wp
        /\ d1 = Copied(r.buffer, wp, arr, 0, f) /\ d2 = Copied(d1, 0, arr, f, n - f)
        /\ d3 = Copied(r.buffer, wp, arr, 0, n)
    OBVIOUS
<1>6. PICK d : d = IF n = 0 THEN r.buffer ELSE IF ep <= wp THEN d2 ELSE d3
    OBVIOUS
<1>7. q = [r EXCEPT !.bufferSize = b + n, !.buffer = d]
    BY <1>1, <1>3, <1>5, <1>6 DEF Write
<1>8. /\ d \in [0..(SIZE - 1) -> Nat]
      /\ \A c \in 0..(SIZE - 1) :
           d[c] = IF wp <= c /\ c < wp + n THEN arr[c - wp + 1]
                  ELSE IF c < wp + n - SIZE THEN arr[SIZE - wp + c + 1]
                  ELSE r.buffer[c]
  <2>1. CASE n = 0
    <3>1. d = r.buffer
      BY <1>6, <2>1
    <3>2. \A c \in 0..(SIZE - 1) : ~ (wp <= c /\ c < wp + n) /\ ~ (c < wp + n - SIZE)
      BY <1>3, <2>1
    <3> QED BY <1>2, <3>1, <3>2
  <2>2. CASE n # 0 /\ ~ (ep <= wp)
    <3>1. wp + n < SIZE /\ d = d3
      BY <1>2, <1>3, <1>4, <1>6, <2>2
    <3>2. IsCopy(d3, r.buffer, wp, arr, 0, n)
      <4>1. 0 + n <= Len(arr) /\ wp \in Nat /\ 0 \in Nat
        BY <1>1, <1>2, <1>3
      <4> QED BY <1>2, <1>5, <4>1, CopiedCells
    <3>3. \A c \in 0..(SIZE - 1) : ~ (c < wp + n - SIZE) /\ 0 + c - wp + 1 = c - wp + 1
      BY <1>2, <1>3, <3>1
    <3> QED BY <3>1, <3>2, <3>3 DEF IsCopy
  <2>3. CASE n # 0 /\ ep <= wp
    <3>1. SIZE <= wp + n /\ d = d2 /\ f \in Nat /\ n - f \in Nat /\ f <= n /\ wp \in Nat
      <4>1. d = d2 /\ SIZE <= wp + n /\ f = SIZE - wp
        BY <1>4, <1>5, <1>6, <2>3
      <4>2. wp \in 0..(SIZE - 1) /\ n \in Nat
        BY <1>2, <1>3
      <4> QED BY <4>1, <4>2
    <3>2. IsCopy(d1, r.buffer, wp, arr, 0, f)
      <4>1. 0 + f <= Len(arr)
        BY <1>1, <3>1
      <4> QED BY <1>2, <1>5, <3>1, <4>1, CopiedCells
    <3>3. IsCopy(d2, d1, 0, arr, f, n - f)
      <4>1. f + (n - f) <= Len(arr)
        BY <1>1, <1>2, <3>1
      <4>2. d1 \in [0..(SIZE - 1) -> Nat]
        BY <3>2 DEF IsCopy
      <4>3. PICK m \in Nat : m = n - f
        BY <3>1
      <4>4. d2 = Copied(d1, 0, arr, f, m) /\ f + m <= Len(arr) /\ 0 \in Nat
        BY <1>5, <4>1, <4>3
      <4>5. IsCopy(d2, d1, 0, arr, f, m)
        BY <3>1, <4>2, <4>4, CopiedCells
      <4> QED BY <4>3, <4>5
    <3>4. ASSUME NEW c \in 0..(SIZE - 1)
          PROVE  /\ 0 <= c /\ c < 0 + (n - f) <=> c < wp + n - SIZE
                 /\ c < wp + n - SIZE => ~ (wp <= c)
                 /\ wp <= c => c < wp + f /\ c < wp + n
                 /\ f + c - 0 + 1 = SIZE - wp + c + 1 /\ 0 + c - wp + 1 = c - wp + 1
      <4>1. n <= SIZE
        BY <1>2
      <4> QED BY <1>2, <1>3, <1>5, <3>1, <4>1, TwoBlocks
    <3>5. \A c \in 0..(SIZE - 1) :
            d[c] = IF c < wp + n - SIZE THEN arr[SIZE - wp + c + 1]
                   ELSE IF wp <= c /\ c < wp + f THEN arr[c - wp + 1] ELSE r.buffer[c]
      BY <3>1, <3>2, <3>3, <3>4 DEF IsCopy
    <3> QED BY <3>1, <3>3, <3>4, <3>5 DEF IsCopy
  <2> QED BY <2>1, <2>2, <2>3
<1>9. b + n \in 0..SIZE
    BY <1>2
<1>10. q \in RingType /\ q.readPos = r.readPos /\ q.bufferSize = b + n /\ q.buffer = d
    BY <1>7, <1>8, <1>9 DEF RingType
<1> QED BY <1>1, <1>8, <1>10

\* The values written are found behind those that were there, and these have not changed.
LEMMA WriteCells ==
  ASSUME NEW r \in RingType, NEW arr \in Seq(Nat), r.bufferSize + Len(arr) <= SIZE,
         NEW q, q = Write(r, arr)
  PROVE  /\ \A i \in 1..r.bufferSize : q.buffer[Pos(r.readPos, i - 1)] = r.buffer[Pos(r.readPos, i - 1)]
         /\ \A k \in 1..Len(arr) : q.buffer[Pos(r.readPos, r.bufferSize + k - 1)] = arr[k]
<1>1. PICK p, b, n, wp : p = r.readPos /\ b = r.bufferSize /\ n = Len(arr) /\ wp = Pos(p, b)
    OBVIOUS
<1>2. p \in 0..(SIZE - 1) /\ b \in 0..SIZE /\ b \in Nat /\ n \in Nat /\ b + n <= SIZE
    BY <1>1 DEF RingType
<1>3. \A c \in 0..(SIZE - 1) :
        q.buffer[c] = IF wp <= c /\ c < wp + n THEN arr[c - wp + 1]
                      ELSE IF c < wp + n - SIZE THEN arr[SIZE - wp + c + 1]
                      ELSE r.buffer[c]
    BY <1>1, WriteFields
<1>4. wp \in 0..(SIZE - 1)
    BY <1>1, <1>2, PosIs
<1>5. ASSUME NEW i \in 1..b PROVE q.buffer[Pos(p, i - 1)] = r.buffer[Pos(p, i - 1)]
  <2>1. PICK c : c = Pos(p, i - 1)
    OBVIOUS
  <2>2. c \in 0..(SIZE - 1) /\ ~ (wp <= c /\ c < wp + n) /\ ~ (c < wp + n - SIZE)
    BY <1>1, <1>2, <2>1, PosKept
  <2> QED BY <1>3, <2>1, <2>2
<1>6. ASSUME NEW k \in 1..n PROVE q.buffer[Pos(p, b + k - 1)] = arr[k]
  <2>1. PICK c, m : m = b + k - 1 /\ c = Pos(p, m)
    OBVIOUS
  <2>2. c \in 0..(SIZE - 1) /\ Into(c, k, wp, n)
    BY <1>1, <1>2, <2>1, PosWritten
  <2>3. q.buffer[c] = arr[k]
    BY <1>3, <2>2 DEF Into
  <2> QED BY <2>1, <2>3
<1> QED BY <1>1, <1>5, <1>6

\* v is s without its first d elements, and these are missing only if SIZE are left.
IsLatest(v, s, d) ==
    /\ v \in Seq(Nat) /\ d \in Nat /\ Len(s) = d + Len(v)
    /\ Len(v) <= SIZE /\ (d = 0 \/ Len(v) = SIZE)
    /\ \A i \in 1..Len(v) : v[i] = s[d + i]

\* Latest gives that end.
LEMMA LatestIs ==
  ASSUME NEW s \in Seq(Nat), NEW v, v = Latest(s)
  PROVE  \E d : IsLatest(v, s, d)
<1>1. PICK e \in Nat : e = Len(s)
    OBVIOUS
<1>2. CASE e <= SIZE
  <2>1. v = s
    BY <1>1, <1>2 DEF Latest
  <2>2. \A i \in 1..Len(v) : v[i] = s[0 + i]
    BY <1>1, <2>1
  <2>3. Len(s) = 0 + Len(v) /\ 0 \in Nat
    BY <1>1, <2>1
  <2>4. IsLatest(v, s, 0)
    BY <1>1, <1>2, <2>1, <2>2, <2>3 DEF IsLatest
  <2> QED BY <2>4
<1>3. CASE ~ (e <= SIZE)
  <2>1. PICK m, d : m = e - SIZE + 1 /\ d = e - SIZE
    OBVIOUS
  <2>2. v = SubSeq(s, m, e)
    BY <1>1, <1>3, <2>1 DEF Latest
  <2>3. m \in 1..e /\ e - m + 1 = SIZE /\ m \in Int /\ d \in Nat /\ e = d + SIZE
    BY <1>3, <2>1
  <2>4. v \in Seq(Nat) /\ Len(v) = SIZE
    <3>1. m \in 1..Len(s) /\ e \in m..Len(s)
      BY <1>1, <2>3
    <3>2. v \in Seq(Nat) /\ Len(v) = e - m + 1
      BY <2>2, <2>3, <3>1
    <3> QED BY <2>3, <3>2
  <2>5. ASSUME NEW i \in 1..SIZE PROVE v[i] = s[d + i]
    <3>1. v[i] = s[m + i - 1]
      BY <1>1, <2>2, <2>3
    <3>2. m + i - 1 = d + i
      BY <2>1
    <3> QED BY <3>1, <3>2
  <2>6. SIZE <= SIZE
    OBVIOUS
  <2>7. IsLatest(v, s, d)
    BY <1>1, <2>3, <2>4, <2>5, <2>6 DEF IsLatest
  <2> QED BY <2>7
<1> QED BY <1>2, <1>3

\* A write that fits: the ring holds the end of what has been written now.
LEMMA WriteHolds ==
  ASSUME NEW r \in RingType, NEW arr \in Seq(Nat), NEW w \in Seq(Nat),
         r.bufferSize + Len(arr) <= SIZE, Holds(r, w),
         NEW q, q = Write(r, arr), NEW v, v = Latest(w \o arr)
  PROVE  Holds(q, v)
<1>1. PICK p, b, n, s : p = r.readPos /\ b = r.bufferSize /\ n = Len(arr) /\ s = w \o arr
    OBVIOUS
<1>2. PICK l : l = Len(w)
    OBVIOUS
<1>3. /\ s \in Seq(Nat) /\ Len(s) = l + n
      /\ \A j \in 1..l : s[j] = w[j]
      /\ \A k \in 1..n : s[l + k] = arr[k]
    BY <1>1, <1>2
<1>4. b \in Nat /\ n \in Nat /\ l \in Nat /\ b + n <= SIZE /\ b <= l
    BY <1>1, <1>2 DEF RingType, Holds
<1>5. q.readPos = p /\ q.bufferSize = b + n
    BY <1>1, WriteFields
<1>6. PICK d : IsLatest(v, s, d)
  <2>1. v = Latest(s)
    BY <1>1
  <2> QED BY <1>3, <2>1, LatestIs
<1>7. PICK m \in Nat : m = Len(v)
    BY <1>6 DEF IsLatest
<1>8. /\ d \in Nat /\ l + n = d + m /\ b + n <= m
      /\ \A i \in 1..m : v[i] = s[d + i]
  <2>1. /\ d \in Nat /\ l + n = d + m /\ (d = 0 \/ m = SIZE)
        /\ \A i \in 1..m : v[i] = s[d + i]
    BY <1>3, <1>6, <1>7 DEF IsLatest
  <2>2. b + n <= m
    BY <1>4, <2>1
  <2> QED BY <2>1, <2>2
<1>9. ASSUME NEW i \in 1..(b + n)
      PROVE  q.buffer[Pos(p, i - 1)] = v[m - (b + n) + i]
  <2>1. m - (b + n) + i \in 1..m /\ d + (m - (b + n) + i) = l - b + i
    <3>1. b \in Nat /\ n \in Nat /\ l \in Nat /\ d \in Nat /\ l + n = d + m /\ b + n <= m
      BY <1>4, <1>8
    <3> QED BY <3>1
  <2>2. v[m - (b + n) + i] = s[l - b + i]
    BY <1>8, <2>1
  <2>3. CASE i <= b
    <3>1. i \in 1..b /\ l - b + i \in 1..l
      BY <1>4, <2>3
    <3>2. q.buffer[Pos(p, i - 1)] = r.buffer[Pos(p, i - 1)]
      BY <1>1, <3>1, WriteCells
    <3>3. r.buffer[Pos(p, i - 1)] = w[l - b + i]
      BY <1>1, <1>2, <3>1 DEF Holds
    <3> QED BY <1>3, <2>2, <3>1, <3>2, <3>3
  <2>4. CASE ~ (i <= b)
    <3>1. PICK k : k = i - b
      OBVIOUS
    <3>2. k \in 1..n /\ i - 1 = b + k - 1 /\ l - b + i = l + k
      BY <1>4, <2>4, <3>1
    <3>3. q.buffer[Pos(p, b + k - 1)] = arr[k]
      BY <1>1, <3>2, WriteCells
    <3> QED BY <1>3, <2>2, <3>2, <3>3
  <2> QED BY <2>3, <2>4
<1> QED BY <1>5, <1>7, <1>8, <1>9 DEF Holds
-----------------------------------------------------------------------------
(* The samples.                                                            *)

\* Remainders: an even offset keeps left left and right right.
LEMMA EvenOffset ==
  ASSUME NEW a \in Nat, NEW b \in Nat, a % 2 = 0
  PROVE  (a + b) % 2 = b % 2
OBVIOUS

\* Whole frames of samples, numbered from t on, up to u.
IsRun(a, t, u) ==
    /\ t % 2 = 0 /\ Len(a) % 2 = 0 /\ t + Len(a) <= u
    /\ \A k \in 1..Len(a) : a[k] = t + k

\* A packet's samples behind those of the packets before it.
LEMMA GrowingCat ==
  ASSUME NEW w \in Seq(Nat), NEW a \in Seq(Nat), NEW t \in Nat, NEW u \in Nat,
         Growing(w, t), IsRun(a, t, u), NEW s, s = w \o a
  PROVE  Growing(s, u)
<1>1. PICK l \in Nat, n \in Nat : l = Len(w) /\ n = Len(a)
    OBVIOUS
<1>2. /\ s \in Seq(Nat) /\ Len(s) = l + n
      /\ \A i \in 1..l : s[i] = w[i]
      /\ \A k \in 1..n : s[l + k] = t + k
    BY <1>1 DEF IsRun
<1>3. /\ l % 2 = 0 /\ n % 2 = 0 /\ t + n <= u
      /\ \A i \in 1..l : /\ w[i] % 2 = i % 2 /\ 0 < w[i] /\ w[i] <= t /\ w[i] \in Nat
                         /\ \A j \in 1..l : i < j => w[i] < w[j]
  <2>1. l % 2 = 0 /\ n % 2 = 0 /\ t + n <= u
    BY <1>1 DEF Growing, IsRun
  <2>2. \A i \in 1..l : w[i] \in Nat
    BY <1>1, ElementOfSeq
  <2>3. \A i \in 1..l : /\ w[i] % 2 = i % 2 /\ 0 < w[i] /\ w[i] <= t
                        /\ \A j \in 1..l : i < j => w[i] < w[j]
    BY <1>1 DEF Growing
  <2> QED BY <2>1, <2>2, <2>3
<1>4. \A i \in 1..(l + n) :
        \/ i \in 1..l /\ s[i] = w[i]
        \/ i - l \in 1..n /\ s[i] = t + (i - l)
  <2> TAKE i \in 1..(l + n)
  <2>1. CASE i <= l
    BY <1>2, <2>1
  <2>2. CASE ~ (i <= l)
    <3>1. PICK k \in 1..n : i = l + k
      <4>1. i - l \in 1..n /\ i = l + (i - l)
        BY <2>2
      <4> QED BY <4>1
    <3>2. k = i - l
      BY <3>1
    <3> QED BY <1>2, <3>1, <3>2
  <2> QED BY <2>1, <2>2
<1>5. ASSUME NEW i \in 1..(l + n)
      PROVE  s[i] % 2 = i % 2 /\ 0 < s[i] /\ s[i] <= u
  <2>1. CASE i \in 1..l /\ s[i] = w[i]
    <3>1. PICK x \in Nat : x = w[i] /\ x % 2 = i % 2 /\ 0 < x /\ x <= t
      BY <1>3, <2>1
    <3>2. t <= u
      BY <1>3
    <3>3. x <= u
      BY <3>1, <3>2
    <3> QED BY <2>1, <3>1, <3>3
  <2>2. CASE i - l \in 1..n /\ s[i] = t + (i - l)
    <3>1. PICK k \in 1..n : k = i - l
      BY <2>2
    <3>2. s[i] = t + k /\ i = l + k
      BY <2>2, <3>1
    <3>3. (t + k) % 2 = k % 2 /\ (l + k) % 2 = k % 2
      <4>1. k \in Nat /\ t % 2 = 0
        BY DEF IsRun
      <4> QED BY <1>3, <4>1, EvenOffset
    <3>4. 0 < t + k /\ t + k <= u
      BY <1>3
    <3> QED BY <3>2, <3>3, <3>4
  <2> QED BY <1>4, <2>1, <2>2
<1>6. ASSUME NEW i \in 1..(l + n), NEW j \in 1..(l + n), i < j
      PROVE  s[i] < s[j]
  <2>1. CASE i \in 1..l /\ s[i] = w[i]
    <3>1. CASE j \in 1..l /\ s[j] = w[j]
      BY <1>3, <1>6, <2>1, <3>1
    <3>2. CASE j - l \in 1..n /\ s[j] = t + (j - l)
      <4>1. PICK x \in Nat : x = w[i] /\ x <= t
        BY <1>3, <2>1
      <4>2. x < t + (j - l)
        BY <3>2, <4>1
      <4> QED BY <2>1, <3>2, <4>1, <4>2
    <3> QED BY <1>4, <3>1, <3>2
  <2>2. CASE i - l \in 1..n /\ s[i] = t + (i - l)
    <3>1. ~ (j \in 1..l)
      BY <1>6, <2>2
    <3>2. s[j] = t + (j - l)
      BY <1>4, <3>1
    <3> QED BY <1>6, <2>2, <3>2
  <2> QED BY <1>4, <2>1, <2>2
<1>7. (l + n) % 2 = 0
    BY <1>3, EvenOffset
<1> QED BY <1>2, <1>5, <1>6, <1>7 DEF Growing

\* The last SIZE of them.
LEMMA GrowingLatest ==
  ASSUME NEW s \in Seq(Nat), NEW u \in Nat, Growing(s, u), SIZE % 2 = 0, NEW v, v = Latest(s)
  PROVE  Growing(v, u)
<1>1. PICK m \in Nat, l \in Nat, d \in Nat :
        /\ m = Len(v) /\ l = Len(s) /\ l = d + m /\ (d = 0 \/ m = SIZE)
        /\ \A i \in 1..m : v[i] = s[d + i]
  <2>1. PICK d : IsLatest(v, s, d)
    BY LatestIs
  <2>2. PICK m \in Nat, l \in Nat : m = Len(v) /\ l = Len(s)
    <3>1. Len(v) \in Nat /\ Len(s) \in Nat
      BY <2>1 DEF IsLatest
    <3> QED BY <3>1
  <2>3. /\ d \in Nat /\ l = d + m /\ (d = 0 \/ m = SIZE)
        /\ \A i \in 1..m : v[i] = s[d + i]
    BY <2>1, <2>2 DEF IsLatest
  <2> QED BY <2>2, <2>3
<1>2. /\ l % 2 = 0
      /\ \A i \in 1..l : /\ s[i] % 2 = i % 2 /\ 0 < s[i] /\ s[i] <= u
                         /\ \A j \in 1..l : i < j => s[i] < s[j]
    BY <1>1 DEF Growing
<1>3. m % 2 = 0 /\ d % 2 = 0
  <2>1. l % 2 = 0 /\ l = d + m /\ (d = 0 \/ m = SIZE)
    BY <1>1, <1>2
  <2>2. CASE d = 0
    BY <2>1, <2>2
  <2>3. CASE m = SIZE
    <3>1. (m + d) % 2 = d % 2
      BY <2>3, EvenOffset
    <3>2. m + d = l
      BY <2>1
    <3> QED BY <2>1, <2>3, <3>1, <3>2
  <2> QED BY <2>1, <2>2, <2>3
<1>5. \A i \in 1..m : d + i \in 1..l /\ v[i] = s[d + i]
    BY <1>1
<1>6. ASSUME NEW i \in 1..m PROVE v[i] % 2 = i % 2 /\ 0 < v[i] /\ v[i] <= u
  <2>1. (d + i) % 2 = i % 2
    <3>1. i \in Nat
      OBVIOUS
    <3> QED BY <1>3, <3>1, EvenOffset
  <2> QED BY <1>2, <1>5, <2>1
<1>7. ASSUME NEW i \in 1..m, NEW j \in 1..m, i < j PROVE v[i] < v[j]
  <2>1. d + i < d + j
    BY <1>7
  <2> QED BY <1>2, <1>5, <2>1
<1> QED BY <1>1, <1>3, <1>6, <1>7 DEF Growing

\* The samples a of a packet: whole frames, numbered from t on.
IsPacket(a, t, packet, frames) ==
    /\ a \in Seq(Nat) /\ Len(a) = 2 * frames /\ Len(a) % 2 = 0 /\ Len(a) <= SIZE
    /\ t \in Nat /\ t % 2 = 0 /\ t + Len(a) <= 2 * MaxFrames * packet
    /\ \A k \in 1..Len(a) : a[k] = t + k

\* They come behind those of all packets before it.
LEMMA SamplesAre ==
  ASSUME NEW packet \in Nat \ {0}, NEW frames \in 0..MaxFrames, NEW a, a = Samples(packet, frames),
         NEW t, t = 2 * MaxFrames * (packet - 1)
  PROVE  IsPacket(a, t, packet, frames)
<1>1. MaxFrames \in Nat /\ frames \in Nat /\ frames <= MaxFrames /\ 2 * MaxFrames <= SIZE
    BY PlaybackAssumption
<1>2. PICK p \in Nat : p = packet - 1 /\ packet = p + 1
  <2>1. packet - 1 \in Nat /\ packet = (packet - 1) + 1
    OBVIOUS
  <2> QED BY <2>1
<1>3. PICK x \in Nat : x = MaxFrames * p
    BY <1>1
<1>4. t = 2 * x /\ 2 * MaxFrames * packet = 2 * x + 2 * MaxFrames
    BY <1>1, <1>2, <1>3
<1>5. t \in Nat /\ t % 2 = 0
    BY <1>4
<1>6. PICK n \in Nat : n = 2 * frames /\ n % 2 = 0 /\ n <= SIZE /\ n <= 2 * MaxFrames
  <2>1. 2 * frames \in Nat /\ (2 * frames) % 2 = 0 /\ 2 * frames <= SIZE /\ 2 * frames <= 2 * MaxFrames
    BY <1>1
  <2> QED BY <2>1
<1>7. a = [i \in 1..n |-> t + i]
    BY <1>6 DEF Samples
<1>8. a \in [1..n -> Nat]
    BY <1>5, <1>7
<1>9. a \in Seq(Nat) /\ Len(a) = n
    BY <1>8, SeqOfValues
<1>10. t + n <= 2 * MaxFrames * packet
    BY <1>1, <1>4, <1>6
<1> QED BY <1>5, <1>6, <1>7, <1>9, <1>10 DEF IsPacket

\* What the device was given last comes before all that the ring holds, after a write too.
LEMMA LastBefore ==
  ASSUME NEW w \in Seq(Nat), NEW a \in Seq(Nat), NEW t \in Nat, NEW x \in Nat, x <= t,
         NEW b \in Nat, b <= Len(w),
         \A i \in 1..Len(w) : Len(w) - b < i => x < w[i],
         \A k \in 1..Len(a) : a[k] = t + k,
         NEW v, v = Latest(w \o a)
  PROVE  \A i \in 1..Len(v) : Len(v) - (b + Len(a)) < i => x < v[i]
<1>1. PICK l \in Nat, n \in Nat, s \in Seq(Nat) : l = Len(w) /\ n = Len(a) /\ s = w \o a
  <2>1. Len(w) \in Nat /\ Len(a) \in Nat /\ w \o a \in Seq(Nat)
    OBVIOUS
  <2> QED BY <2>1
<1>2. /\ s \in Seq(Nat) /\ Len(s) = l + n
      /\ \A i \in 1..l : s[i] = w[i]
      /\ \A k \in 1..n : s[l + k] = t + k
    BY <1>1
<1>3. PICK d : IsLatest(v, s, d)
  <2>1. v = Latest(s)
    BY <1>1
  <2> QED BY <1>2, <2>1, LatestIs
<1>4. PICK m \in Nat : m = Len(v)
    BY <1>3 DEF IsLatest
<1>5. d \in Nat /\ l + n = d + m
    BY <1>2, <1>3, <1>4 DEF IsLatest
<1>6. \A i \in 1..m : v[i] = s[d + i]
    BY <1>3, <1>4 DEF IsLatest
<1>7. ASSUME NEW i \in 1..m, m - (b + n) < i PROVE x < v[i]
  <2>1. PICK j \in Nat : j = d + i
    BY <1>5
  <2>2. j \in 1..(l + n) /\ l - b < j
    BY <1>5, <1>7, <2>1
  <2>3. CASE j <= l
    <3>1. j \in 1..l
      BY <2>2, <2>3
    <3>2. x < w[j]
      BY <1>1, <2>2, <3>1
    <3> QED BY <1>2, <1>6, <2>1, <3>1, <3>2
  <2>4. CASE ~ (j <= l)
    <3>1. PICK k \in Nat : k = j - l /\ j = l + k
      <4>1. j - l \in Nat /\ j = l + (j - l)
        BY <2>4
      <4> QED BY <4>1
    <3>2. k \in 1..n
      BY <2>2, <2>4, <3>1
    <3>3. v[i] = t + k
      BY <1>2, <1>6, <2>1, <3>1, <3>2
    <3> QED BY <3>2, <3>3
  <2> QED BY <2>3, <2>4
<1> QED BY <1>1, <1>4, <1>7

\* More may be written: a higher top.
LEMMA GrowingUp ==
  ASSUME NEW w \in Seq(Nat), NEW t \in Nat, NEW u \in Nat, t <= u, Growing(w, t)
  PROVE  Growing(w, u)
<1>1. \A i \in 1..Len(w) : w[i] \in Nat
    BY ElementOfSeq
<1>2. \A i \in 1..Len(w) : w[i] <= t
    BY DEF Growing
<1>3. \A i \in 1..Len(w) : w[i] <= u
    BY <1>1, <1>2
<1> QED BY <1>3 DEF Growing
-----------------------------------------------------------------------------
(* The steps.                                                              *)

\* Before Decode the top is that of the packets before the one taken.
LEMMA TopType == QueueInv => Top \in Nat
<1> SUFFICES ASSUME QueueInv PROVE Top \in Nat
    OBVIOUS
<1>1. MaxFrames \in Nat /\ decoded \in Nat /\ (aPc = "decode" => decoded # 0)
    BY PlaybackAssumption DEF QueueInv
<1>2. PICK n \in Nat : n = IF aPc = "decode" THEN decoded - 1 ELSE decoded
    BY <1>1
<1>3. MaxFrames * n \in Nat
    BY <1>1
<1>4. Top = 2 * MaxFrames * n
    BY <1>2 DEF Top
<1> QED BY <1>1, <1>3, <1>4

\* Room is made for the samples of a packet by dropping the oldest ones, whole frames of them.
LEMMA RoomMade ==
  ASSUME RingInv, NEW n \in Nat, n % 2 = 0, n <= SIZE, ring.bufferSize % 2 = 0,
         NEW missing, missing = n - Available(ring),
         NEW room, room = IF missing > 0 THEN Drop(ring, missing) ELSE ring
  PROVE  /\ room \in RingType /\ Holds(room, written)
         /\ room.bufferSize + n <= SIZE /\ room.bufferSize <= ring.bufferSize
         /\ room.bufferSize % 2 = 0
<1>1. PICK b \in Nat : b = ring.bufferSize /\ b <= SIZE /\ b % 2 = 0
    BY DEF RingInv, RingType
<1>2. missing = n - (SIZE - b) /\ missing \in Int
    BY <1>1 DEF Available
<1>3. CASE missing > 0
  <2>1. missing \in 0..ring.bufferSize
    BY <1>1, <1>2, <1>3
  <2>2. room = Drop(ring, missing) /\ ring \in RingType /\ written \in Seq(Nat) /\ Holds(ring, written)
    BY <1>3 DEF RingInv
  <2>3. room \in RingType /\ room.bufferSize = b - missing
    BY <1>1, <2>1, <2>2, DropFields
  <2>4. Holds(room, written)
    BY <2>1, <2>2, DropHolds
  <2>5. room.bufferSize = SIZE - n
    BY <1>1, <1>2, <2>3
  <2>6. (SIZE - n) % 2 = 0
    BY PlaybackAssumption
  <2>7. SIZE - n + n <= SIZE /\ SIZE - n <= b
    BY <1>1, <1>2, <1>3
  <2> QED BY <1>1, <2>3, <2>4, <2>5, <2>6, <2>7
<1>4. CASE ~ (missing > 0)
    BY <1>1, <1>2, <1>4 DEF RingInv
<1> QED BY <1>3, <1>4

\* A packet is written.
LEMMA DecodeStep ==
  ASSUME IndInv, NEW frames \in 0..MaxFrames, Decode(frames)
  PROVE  RingInv' /\ OrderInv'
<1>1. PICK a, t, missing, room :
        /\ a = Samples(decoded, frames) /\ t = 2 * MaxFrames * (decoded - 1)
        /\ missing = 2 * frames - Available(ring)
        /\ room = IF missing > 0 THEN Drop(ring, missing) ELSE ring
    OBVIOUS
<1>2. /\ aPc = "decode" /\ ring' = Write(room, a) /\ written' = Latest(written \o a)
      /\ aPc' = "loop" /\ decoded' = decoded /\ last' = last
    BY <1>1 DEF Decode
<1>3. decoded \in Nat \ {0}
    BY <1>2 DEF IndInv, QueueInv
<1>4. PICK n \in Nat :
        /\ a \in Seq(Nat) /\ Len(a) = n /\ n = 2 * frames /\ n % 2 = 0 /\ n <= SIZE
        /\ t \in Nat /\ t % 2 = 0 /\ t + n <= 2 * MaxFrames * decoded
        /\ \A k \in 1..Len(a) : a[k] = t + k
  <2>1. IsPacket(a, t, decoded, frames)
    BY <1>1, <1>3, SamplesAre
  <2>2. Len(a) \in Nat
    BY <2>1 DEF IsPacket
  <2> QED BY <2>1, <2>2 DEF IsPacket
<1>5. PICK b \in Nat :
        /\ room \in RingType /\ Holds(room, written)
        /\ b = room.bufferSize /\ b + n <= SIZE /\ b <= ring.bufferSize /\ b % 2 = 0
  <2>1. /\ RingInv /\ n \in Nat /\ n % 2 = 0 /\ n <= SIZE /\ ring.bufferSize % 2 = 0
        /\ missing = n - Available(ring)
    BY <1>1, <1>4 DEF IndInv, OrderInv
  <2>2. /\ room \in RingType /\ Holds(room, written)
        /\ room.bufferSize + n <= SIZE /\ room.bufferSize <= ring.bufferSize
        /\ room.bufferSize % 2 = 0
    BY <1>1, <2>1, RoomMade
  <2>3. room.bufferSize \in Nat
    BY <2>2 DEF RingType
  <2> QED BY <2>2, <2>3
<1>6. written \in Seq(Nat) /\ ring \in RingType /\ ring.bufferSize <= Len(written)
    BY DEF IndInv, RingInv, Holds
<1>7. written \o a \in Seq(Nat)
    BY <1>4, <1>6
<1>8. ring' \in RingType /\ ring'.bufferSize = b + n
  <2>1. PICK q : q = ring' /\ q = Write(room, a)
    BY <1>2
  <2>2. room.bufferSize + Len(a) <= SIZE /\ room \in RingType /\ a \in Seq(Nat)
    BY <1>4, <1>5
  <2>3. q \in RingType /\ q.bufferSize = room.bufferSize + Len(a)
    BY <2>1, <2>2, WriteFields
  <2> QED BY <1>4, <1>5, <2>1, <2>3
<1>9. Holds(ring', written')
    BY <1>2, <1>4, <1>5, <1>6, WriteHolds
<1>10. written' \in Seq(Nat) /\ Len(written') <= SIZE
  <2>1. PICK d : IsLatest(written', written \o a, d)
    BY <1>2, <1>7, LatestIs
  <2> QED BY <2>1 DEF IsLatest
<1>11. RingInv'
    BY <1>8, <1>9, <1>10 DEF RingInv
<1>12. Top = t /\ Top' = 2 * MaxFrames * decoded
    BY <1>1, <1>2 DEF Top
<1>13. Top' \in Nat
    BY <1>3, <1>12, PlaybackAssumption
<1>14. Growing(written', Top')
  <2>1. Growing(written, t)
    BY <1>12 DEF IndInv, OrderInv
  <2>2. PICK s : s = written \o a
    OBVIOUS
  <2>3. PICK u \in Nat : u = Top'
    BY <1>13
  <2>4. IsRun(a, t, u)
    BY <1>4, <1>12, <2>3 DEF IsRun
  <2>5. Growing(s, u)
    BY <1>4, <1>6, <2>1, <2>2, <2>4, GrowingCat
  <2>6. Growing(written', u)
    BY <1>2, <1>7, <2>2, <2>5, PlaybackAssumption, GrowingLatest
  <2> QED BY <2>3, <2>6
<1>15. ring'.bufferSize % 2 = 0
  <2>1. (b + n) % 2 = 0
    BY <1>4, <1>5, EvenOffset
  <2> QED BY <1>8, <2>1
<1>16. last' \in Nat /\ last' <= Top'
  <2>1. last \in Nat /\ last <= t
    BY <1>12 DEF IndInv, OrderInv
  <2>2. t <= Top'
    BY <1>4, <1>12, <1>13
  <2> QED BY <1>2, <1>4, <1>13, <2>1, <2>2
<1>17. \A i \in 1..Len(written') : Len(written') - ring'.bufferSize < i => last' < written'[i]
  <2>1. last \in Nat /\ last <= t
    BY <1>12 DEF IndInv, OrderInv
  <2>2. b <= Len(written)
    BY <1>5 DEF Holds
  <2>3. ASSUME NEW i \in 1..Len(written), Len(written) - b < i PROVE last < written[i]
    <3>1. Len(written) \in Nat /\ ring.bufferSize \in Nat
      BY <1>6 DEF RingType
    <3>2. Len(written) - ring.bufferSize < i
      BY <1>5, <2>3, <3>1
    <3> QED BY <3>2 DEF IndInv, OrderInv
  <2>4. \A i \in 1..Len(written') : Len(written') - (b + Len(a)) < i => last < written'[i]
    BY <1>2, <1>4, <1>6, <2>1, <2>2, <2>3, LastBefore
  <2>5. ring'.bufferSize = b + Len(a)
    BY <1>4, <1>8
  <2> QED BY <1>2, <2>4, <2>5
<1> QED BY <1>11, <1>14, <1>15, <1>16, <1>17 DEF OrderInv

\* The device takes samples.
LEMMA CallbackStep ==
  ASSUME IndInv, NEW nframes \in 0..MaxRequest, DataCallback(nframes)
  PROVE  RingInv' /\ OrderInv'
<1>1. PICK b, n, v :
        /\ b = ring.bufferSize
        /\ n = (IF 2 * nframes < b THEN 2 * nframes ELSE b)
        /\ v = ReadValues(ring, n)
    OBVIOUS
<1>2. /\ ring' = AfterRead(ring, n) /\ last' = IF n = 0 THEN last ELSE v[n]
      /\ written' = written /\ aPc' = aPc /\ decoded' = decoded
    BY <1>1 DEF DataCallback, threads
<1>3. ring \in RingType /\ written \in Seq(Nat) /\ Len(written) <= SIZE /\ Holds(ring, written)
    BY DEF IndInv, RingInv
<1>4. b \in Nat /\ n \in 0..b /\ n \in Nat /\ n % 2 = 0 /\ b % 2 = 0 /\ b <= SIZE
  <2>1. b \in Nat /\ b % 2 = 0 /\ nframes \in Nat /\ b <= SIZE
    BY <1>1, <1>3, PlaybackAssumption DEF IndInv, OrderInv, RingType
  <2>2. (2 * nframes) % 2 = 0 /\ 2 * nframes \in Nat
    BY <2>1
  <2> QED BY <1>1, <2>1, <2>2
<1>5. ring' = Drop(ring, n)
    BY <1>1, <1>2, <1>3, <1>4, ReadIsDrop
<1>6. ring' \in RingType /\ ring'.bufferSize = b - n
    BY <1>1, <1>3, <1>4, <1>5, DropFields
<1>7. Holds(ring', written)
    BY <1>1, <1>3, <1>4, <1>5, DropHolds
<1>8. RingInv'
    BY <1>2, <1>3, <1>6, <1>7 DEF RingInv
<1>9. Top' = Top
    BY <1>2 DEF Top
<1>10. (b - n) % 2 = 0
    BY <1>4
<1>11. PICK l \in Nat : l = Len(written) /\ b <= l
    BY <1>1, <1>3 DEF Holds
<1>12. /\ Growing(written, Top) /\ last \in Nat /\ last <= Top
       /\ \A i \in 1..l : l - b < i => last < written[i]
    BY <1>1, <1>11 DEF IndInv, OrderInv
<1>13. \A i \in 1..l : /\ written[i] <= Top /\ written[i] \in Nat
                       /\ \A j \in 1..l : i < j => written[i] < written[j]
    BY <1>3, <1>11, <1>12 DEF Growing
<1>14. CASE n = 0
    BY <1>2, <1>4, <1>6, <1>8, <1>9, <1>11, <1>12, <1>14 DEF OrderInv
<1>15. CASE n # 0
  <2>1. PICK c \in Nat : c = l - b + n /\ c \in 1..l
    <3>1. l - b + n \in Nat /\ l - b + n \in 1..l
      BY <1>4, <1>11, <1>15
    <3> QED BY <3>1
  <2>2. last' = written[c]
    <3>1. n \in 1..n
      BY <1>4, <1>15
    <3>2. Gives(v, n, written, ring.bufferSize)
      BY <1>1, <1>3, <1>4, ReadGives
    <3>3. v[n] = written[Len(written) - ring.bufferSize + n]
      BY <3>1, <3>2 DEF Gives
    <3> QED BY <1>1, <1>2, <1>11, <1>15, <2>1, <3>3
  <2>3. last' \in Nat /\ last' <= Top'
    BY <1>9, <1>13, <2>1, <2>2
  <2>4. ASSUME NEW i \in 1..l, l - (b - n) < i PROVE last' < written[i]
    <3>1. c < i
      BY <1>4, <2>1, <2>4
    <3> QED BY <1>13, <2>1, <2>2, <3>1
  <2> QED BY <1>2, <1>6, <1>8, <1>9, <1>10, <1>11, <1>12, <2>3, <2>4 DEF OrderInv
<1> QED BY <1>14, <1>15

\* Steps that touch neither the ring nor its history.
LEMMA OtherStep ==
  ASSUME IndInv, QueueInv', UNCHANGED <<ring, written, last>>, Top <= Top'
  PROVE  RingInv' /\ OrderInv'
<1>1. RingInv'
    BY DEF IndInv, RingInv
<1>2. Top \in Nat /\ Top' \in Nat
  <2>1. Top \in Nat
    BY TopType DEF IndInv
  <2>2. (Top \in Nat)'
    BY TopType, PTL
  <2> QED BY <2>1, <2>2
<1>3. Growing(written', Top')
  <2>1. written \in Seq(Nat) /\ Growing(written, Top)
    BY DEF IndInv, RingInv, OrderInv
  <2>2. PICK t \in Nat, u \in Nat : t = Top /\ u = Top' /\ t <= u
    BY <1>2
  <2>3. Growing(written, u)
    BY <2>1, <2>2, GrowingUp
  <2> QED BY <2>2, <2>3
<1>4. last' \in Nat /\ last' <= Top'
  <2>1. last \in Nat /\ last <= Top
    BY DEF IndInv, OrderInv
  <2> QED BY <1>2, <2>1
<1> QED BY <1>1, <1>3, <1>4 DEF IndInv, OrderInv

\* A packet that is taken is newer than all that were decoded: the top rises or stays.
LEMMA TopRises ==
  ASSUME NEW d \in Nat, NEW e \in Nat, d < e, NEW m \in Nat
  PROVE  2 * m * d <= 2 * m * (e - 1)
<1>1. PICK k \in Nat : e - 1 = d + k
  <2>1. e - 1 - d \in Nat /\ e - 1 = d + (e - 1 - d)
    OBVIOUS
  <2> QED BY <2>1
<1>2. m * (d + k) = m * d + m * k /\ m * k \in Nat /\ m * d \in Nat
    OBVIOUS
<1>3. 2 * m * (d + k) = 2 * (m * (d + k)) /\ 2 * m * d = 2 * (m * d)
    OBVIOUS
<1> QED BY <1>1, <1>2, <1>3

\* The queue of packets: every step keeps it in order.
LEMMA QueueStep ==
  ASSUME IndInv, [Next]_vars
  PROVE  QueueInv'
<1>1. QueueInv
    BY DEF IndInv
<1> USE <1>1
<1>2. CASE UNCHANGED vars
    BY <1>2 DEF QueueInv, vars, threads, queue, sound
<1>3. CASE UiThread \/ Destroy
  <2>1. StartAudio \/ JoinRecv \/ ExchangeFlag \/ Notify \/ JoinAudio \/ Destroy
    BY <1>3 DEF UiThread
  <2>2. UNCHANGED <<recv, audioData, received, decoded>>
    BY <2>1 DEF StartAudio, JoinRecv, ExchangeFlag, Notify, JoinAudio, Destroy, queue, sound
  <2>3. flagPlayAudio' = flagPlayAudio \/ flagPlayAudio' = FALSE
    BY <2>1 DEF StartAudio, JoinRecv, ExchangeFlag, Notify, JoinAudio, Destroy, queue
  <2>4. aPc' = aPc \/ aPc' = "lock" \/ aPc' = "init" \/ aPc' = "off"
    BY <2>1 DEF StartAudio, JoinRecv, ExchangeFlag, Notify, JoinAudio, Destroy
  <2>5. flagPlayAudio' \in BOOLEAN
    BY <2>3 DEF QueueInv
  <2>6. aPc' = "check" /\ flagPlayAudio' => audioData' # << >>
    BY <2>2, <2>3, <2>4 DEF QueueInv
  <2> QED BY <2>2, <2>4, <2>5, <2>6 DEF QueueInv
<1>4. CASE AudioFrame
  <2>1. /\ recv = "idle" /\ received' = received + 1 /\ recv' \in {"push", "idle"}
        /\ UNCHANGED <<aPc, flagPlayAudio, audioData, decoded>>
    BY <1>4 DEF AudioFrame, sound
  <2>2. /\ received' \in Nat /\ decoded' \in 0..received' /\ decoded' < received'
    BY <2>1 DEF QueueInv
  <2>3. ASSUME NEW i \in 1..Len(audioData)
        PROVE  audioData[i] <= received' /\ audioData[i] < received'
    <3>1. audioData[i] \in Nat /\ audioData[i] <= received /\ received \in Nat
      BY ElementOfSeq DEF QueueInv
    <3> QED BY <2>1, <3>1
  <2> QED BY <2>1, <2>2, <2>3 DEF QueueInv
<1>5. CASE Push
  <2>1. /\ recv = "push" /\ audioData' = Append(audioData, received) /\ recv' = "idle"
        /\ aPc' \in {aPc, "lock"} /\ aPc # "check"
        /\ UNCHANGED <<flagPlayAudio, received, decoded>>
    BY <1>5 DEF Push, AudioLocked, sound
  <2>2. audioData \in Seq(Nat) /\ received \in Nat
    BY DEF QueueInv
  <2>3. PICK n \in Nat : n = Len(audioData)
    BY <2>2
  <2>4. /\ audioData' \in Seq(Nat) /\ Len(audioData') = n + 1
        /\ \A i \in 1..n : audioData'[i] = audioData[i]
        /\ audioData'[n + 1] = received
    BY <2>1, <2>2, <2>3
  <2>5. \A i \in 1..n :
          /\ decoded < audioData[i] /\ audioData[i] < received /\ audioData[i] <= received
          /\ \A j \in 1..n : i < j => audioData[i] < audioData[j]
    BY <2>1, <2>3 DEF QueueInv
  <2>6. ASSUME NEW i \in 1..(n + 1)
        PROVE  \/ i \in 1..n /\ audioData'[i] = audioData[i]
               \/ i = n + 1 /\ audioData'[i] = received
    BY <2>4
  <2>7. decoded < received /\ received <= received
    BY <2>1, <2>2 DEF QueueInv
  <2>8. ASSUME NEW i \in 1..(n + 1) PROVE decoded < audioData'[i] /\ audioData'[i] <= received
    BY <2>5, <2>6, <2>7
  <2>9. ASSUME NEW i \in 1..(n + 1), NEW j \in 1..(n + 1), i < j PROVE audioData'[i] < audioData'[j]
    <3>1. i \in 1..n
      BY <2>9
    <3>2. audioData'[i] = audioData[i]
      BY <2>4, <3>1
    <3> QED BY <2>5, <2>6, <2>9, <3>1, <3>2
  <2>10. aPc' # "check" /\ (aPc' = "decode" => decoded # 0)
    BY <2>1 DEF QueueInv
  <2> QED BY <2>1, <2>2, <2>4, <2>8, <2>9, <2>10 DEF QueueInv
<1>6. CASE RecvEnds
    BY <1>6 DEF RecvEnds, QueueInv, queue, sound
<1>7. CASE OpenDevice \/ AudioLoop \/ AudioWait \/ AudioStops \/ StopDevice \/ SpuriousWake \/ Quit
  <2>1. UNCHANGED <<recv, audioData, received, decoded, flagPlayAudio>>
    BY <1>7 DEF OpenDevice, AudioLoop, AudioWait, AudioStops, StopDevice, SpuriousWake, Quit, queue, sound, threads
  <2>2. aPc' = aPc \/ aPc' \in {"loop", "lock", "stop", "wait", "clear"}
    BY <1>7 DEF OpenDevice, AudioLoop, AudioWait, AudioStops, StopDevice, SpuriousWake, Quit, threads
  <2> QED BY <2>1, <2>2 DEF QueueInv
<1>8. CASE AudioTest
  <2>1. UNCHANGED <<recv, audioData, received, decoded, flagPlayAudio>>
    BY <1>8 DEF AudioTest, queue, sound
  <2>2. /\ aPc' \in {"toWait", "check"}
        /\ aPc' = "check" /\ flagPlayAudio => audioData # << >>
    BY <1>8 DEF AudioTest
  <2> QED BY <2>1, <2>2 DEF QueueInv
<1>9. CASE AudioTake
  <2>1. /\ aPc = "check" /\ flagPlayAudio
        /\ decoded' = Head(audioData) /\ audioData' = Tail(audioData) /\ aPc' = "decode"
        /\ UNCHANGED <<recv, received, flagPlayAudio>>
    BY <1>9 DEF AudioTake
  <2>2. audioData \in Seq(Nat) /\ audioData # << >> /\ received \in Nat /\ decoded \in Nat
    BY <2>1 DEF QueueInv
  <2>3. PICK n \in Nat : n = Len(audioData) /\ n # 0
    BY <2>2, EmptySeq
  <2>4. /\ decoded' = audioData[1] /\ audioData' \in Seq(Nat) /\ Len(audioData') = n - 1
        /\ \A i \in 1..(n - 1) : audioData'[i] = audioData[i + 1]
    BY <2>1, <2>2, <2>3, HeadTailProperties
  <2>5. \A i \in 1..n :
          /\ decoded < audioData[i] /\ audioData[i] <= received /\ audioData[i] \in Nat
          /\ recv = "push" => audioData[i] < received
          /\ \A j \in 1..n : i < j => audioData[i] < audioData[j]
    BY <2>3, ElementOfSeq DEF QueueInv
  <2>6. 1 \in 1..n
    BY <2>3
  <2>7. decoded' \in 0..received /\ decoded' # 0 /\ (recv = "push" => decoded' < received)
    BY <2>2, <2>4, <2>5, <2>6
  <2>8. ASSUME NEW i \in 1..(n - 1)
        PROVE  /\ i + 1 \in 1..n /\ 1 < i + 1 /\ audioData'[i] = audioData[i + 1]
               /\ \A j \in 1..(n - 1) : i < j => i + 1 < j + 1
    BY <2>4
  <2>9. ASSUME NEW i \in 1..(n - 1)
        PROVE  /\ decoded' < audioData'[i] /\ audioData'[i] <= received
               /\ recv = "push" => audioData'[i] < received
               /\ \A j \in 1..(n - 1) : i < j => audioData'[i] < audioData'[j]
    BY <2>4, <2>5, <2>6, <2>8
  <2> QED BY <2>1, <2>2, <2>4, <2>7, <2>9 DEF QueueInv
<1>10. CASE \E frames \in 0..MaxFrames : Decode(frames)
  <2>1. aPc' = "loop" /\ UNCHANGED <<recv, audioData, received, decoded, flagPlayAudio>>
    BY <1>10 DEF Decode, queue
  <2> QED BY <2>1 DEF QueueInv
<1>11. CASE ClearQueue
  <2>1. aPc' = "ended" /\ audioData' = << >> /\ UNCHANGED <<recv, received, decoded, flagPlayAudio>>
    BY <1>11 DEF ClearQueue, sound
  <2>2. audioData' \in Seq(Nat) /\ Len(audioData') = 0
    BY <2>1
  <2> QED BY <2>1, <2>2 DEF QueueInv
<1>12. CASE \E nframes \in 0..MaxRequest : DataCallback(nframes)
  <2>1. UNCHANGED <<recv, audioData, received, decoded, flagPlayAudio, aPc>>
    BY <1>12 DEF DataCallback, queue, threads
  <2> QED BY <2>1 DEF QueueInv
<1> QED BY <1>2, <1>3, <1>4, <1>5, <1>6, <1>7, <1>8, <1>9, <1>10, <1>11, <1>12 DEF Next, AudioThread

\* The audio thread does nothing before it is started.
LEMMA StartStep ==
  ASSUME StartInv, [Next]_vars
  PROVE  StartInv'
<1>1. CASE UNCHANGED vars \/ UiThread \/ Destroy \/ AudioFrame \/ Push \/ RecvEnds
    BY <1>1 DEF StartInv, vars, threads, UiThread, StartAudio, JoinRecv, ExchangeFlag, Notify, JoinAudio,
                Destroy, AudioFrame, Push, RecvEnds
<1>2. CASE Quit \/ SpuriousWake \/ OpenDevice \/ AudioLoop \/ AudioTest \/ AudioWait \/ AudioStops
           \/ AudioTake \/ StopDevice \/ ClearQueue
    BY <1>2 DEF StartInv, threads, Quit, SpuriousWake, OpenDevice, AudioLoop, AudioTest, AudioWait,
                AudioStops, AudioTake, StopDevice, ClearQueue
<1>3. CASE \E frames \in 0..MaxFrames : Decode(frames)
    BY <1>3 DEF StartInv, Decode
<1>4. CASE \E nframes \in 0..MaxRequest : DataCallback(nframes)
    BY <1>4 DEF StartInv, DataCallback, threads
<1> QED BY <1>1, <1>2, <1>3, <1>4 DEF Next, AudioThread
-----------------------------------------------------------------------------
(* The theorems.                                                           *)

\* The invariant holds at the start and is kept by every step.
THEOREM Inductive == Spec => []IndInv
<1>1. Init => IndInv
  <2> SUFFICES ASSUME Init PROVE IndInv
    OBVIOUS
  <2>1. /\ ring.readPos = 0 /\ ring.bufferSize = 0 /\ ring \in RingType
    BY DEF Init, NewRing, RingType
  <2>2. /\ written = << >> /\ audioData = << >> /\ last = 0 /\ received = 0 /\ decoded = 0
        /\ aPc = "off" /\ recv = "idle" /\ flagPlayAudio \in BOOLEAN
    BY DEF Init
  <2>3. << >> \in Seq(Nat) /\ Len(<< >>) = 0 /\ 0 % 2 = 0
    OBVIOUS
  <2>4. RingInv
    BY <2>1, <2>2, <2>3 DEF RingInv, Holds
  <2>5. QueueInv
    BY <2>2, <2>3 DEF QueueInv
  <2>6. Top \in Nat
    BY <2>5, TopType
  <2>7. Growing(written, Top)
    BY <2>2, <2>3 DEF Growing
  <2>8. OrderInv
    BY <2>1, <2>2, <2>3, <2>6, <2>7 DEF OrderInv
  <2>9. StartInv
    BY <2>2 DEF StartInv
  <2> QED BY <2>4, <2>5, <2>8, <2>9 DEF IndInv
<1>2. IndInv /\ [Next]_vars => IndInv'
  <2> SUFFICES ASSUME IndInv, [Next]_vars PROVE IndInv'
    OBVIOUS
  <2>1. QueueInv' /\ StartInv'
    BY QueueStep, StartStep DEF IndInv
  <2>2. CASE \E frames \in 0..MaxFrames : Decode(frames)
    BY <2>1, <2>2, DecodeStep DEF IndInv
  <2>3. CASE \E nframes \in 0..MaxRequest : DataCallback(nframes)
    BY <2>1, <2>3, CallbackStep DEF IndInv
  <2>4. CASE AudioTake
    <3>1. /\ aPc = "check" /\ flagPlayAudio /\ aPc' = "decode" /\ decoded' = Head(audioData)
          /\ UNCHANGED <<ring, written, last>>
      BY <2>4 DEF AudioTake, history
    <3>2. audioData \in Seq(Nat) /\ audioData # << >> /\ decoded \in Nat
      BY <3>1 DEF IndInv, QueueInv
    <3>3. 1 \in 1..Len(audioData)
      BY <3>2, EmptySeq
    <3>4. PICK e \in Nat : e = decoded' /\ decoded < e
      <4>1. decoded' = audioData[1]
        BY <3>1, <3>2
      <4>2. audioData[1] \in Nat /\ decoded < audioData[1]
        BY <3>2, <3>3, ElementOfSeq DEF IndInv, QueueInv
      <4> QED BY <4>1, <4>2
    <3>5. Top = 2 * MaxFrames * decoded /\ Top' = 2 * MaxFrames * (e - 1)
      BY <3>1, <3>4 DEF Top
    <3>6. Top <= Top'
      <4>1. 2 * MaxFrames * decoded <= 2 * MaxFrames * (e - 1)
        BY <3>2, <3>4, PlaybackAssumption, TopRises
      <4> QED BY <3>5, <4>1
    <3> QED BY <2>1, <3>1, <3>6, OtherStep DEF IndInv
  <2>5. CASE UNCHANGED vars \/ UiThread \/ Destroy \/ AudioFrame \/ Push \/ RecvEnds \/ Quit \/ SpuriousWake
             \/ OpenDevice \/ AudioLoop \/ AudioTest \/ AudioWait \/ AudioStops \/ StopDevice \/ ClearQueue
    <3>1. UNCHANGED <<ring, written, last, decoded>>
      BY <2>5 DEF vars, threads, queue, sound, history, UiThread, StartAudio, JoinRecv, ExchangeFlag,
                  Notify, JoinAudio, Destroy, AudioFrame, Push, RecvEnds, Quit, SpuriousWake, OpenDevice,
                  AudioLoop, AudioTest, AudioWait, AudioStops, StopDevice, ClearQueue
    <3>2. aPc' = "decode" <=> aPc = "decode"
      BY <2>5 DEF IndInv, StartInv, vars, threads, UiThread, StartAudio, JoinRecv, ExchangeFlag,
                  Notify, JoinAudio, Destroy, AudioFrame, Push, RecvEnds, Quit, SpuriousWake, OpenDevice,
                  AudioLoop, AudioTest, AudioWait, AudioStops, StopDevice, ClearQueue
    <3>3. Top' = Top
      BY <3>1, <3>2 DEF Top
    <3>4. Top <= Top'
      <4>1. Top \in Nat
        BY TopType DEF IndInv
      <4> QED BY <3>3, <4>1
    <3> QED BY <2>1, <3>1, <3>4, OtherStep DEF IndInv
  <2> QED BY <2>2, <2>3, <2>4, <2>5 DEF Next, AudioThread
<1> QED
    BY <1>1, <1>2, PTL DEF Spec

\* The ring is a queue of what was written last, for every size of the array and of the blocks.
THEOREM RingCorrect == Spec => []RingHoldsLatest
<1>1. IndInv => RingHoldsLatest
  <2> SUFFICES ASSUME IndInv PROVE RingHoldsLatest
    OBVIOUS
  <2>1. ring \in RingType /\ written \in Seq(Nat) /\ Holds(ring, written)
    BY DEF IndInv, RingInv
  <2>2. PICK p \in Nat, b \in Nat, l \in Nat :
          p = ring.readPos /\ b = ring.bufferSize /\ l = Len(written) /\ b <= l
    <3>1. ring.readPos \in Nat /\ ring.bufferSize \in Nat /\ Len(written) \in Nat /\ ring.bufferSize <= Len(written)
      BY <2>1 DEF RingType, Holds
    <3> QED BY <3>1
  <2>3. p \in 0..(SIZE - 1) /\ b \in 0..SIZE
    BY <2>1, <2>2 DEF RingType
  <2>4. ASSUME NEW i \in 1..b
        PROVE  /\ ring.buffer[(p + i - 1) % SIZE] = written[l - b + i]
               /\ l - b + i \in 1..l
    <3>1. PICK k \in 0..SIZE : k = i - 1
      BY <2>3
    <3>2. p + i - 1 = p + k
      BY <2>3, <3>1
    <3>3. (p + k) % SIZE = Pos(p, k)
      BY <2>3, PosIs
    <3>4. ring.buffer[Pos(p, k)] = written[l - b + i]
      BY <2>1, <2>2, <3>1 DEF Holds
    <3>5. l - b + i \in 1..l
      BY <2>2
    <3> QED BY <3>2, <3>3, <3>4, <3>5
  <2>5. PICK c, d : c = Contents(ring) /\ d = SubSeq(written, l - b + 1, l)
    OBVIOUS
  <2>6. c = [i \in 1..b |-> ring.buffer[(p + i - 1) % SIZE]]
    BY <2>2, <2>5 DEF Contents
  <2>7. c = [i \in 1..b |-> written[l - b + i]]
    BY <2>4, <2>6
  <2>8. d = [i \in 1..b |-> written[l - b + i]]
    <3>1. PICK m \in Nat : m = l - b + 1
      BY <2>2
    <3>2. l - m + 1 = b /\ m \in Int /\ l \in Int
      BY <2>2, <3>1
    <3>3. d = [i \in 1..(l - m + 1) |-> written[m + i - 1]]
      BY <2>1, <2>5, <3>1, <3>2
    <3>4. \A i \in 1..b : m + i - 1 = l - b + i
      BY <2>2, <3>1
    <3> QED BY <3>2, <3>3, <3>4
  <2>9. c = d
    BY <2>7, <2>8
  <2> QED BY <2>2, <2>3, <2>5, <2>9 DEF RingHoldsLatest
<1> QED
    BY <1>1, Inductive, PTL

\* h is the n elements of v and then the k of z.
IsCat(h, v, z, n, k) ==
    /\ h \in Seq(Nat) /\ Len(h) = n + k
    /\ \A i \in 1..n : h[i] = v[i]
    /\ \A i \in 1..k : h[n + i] = z[i]

\* The elements of two sequences in a row.
LEMMA CatIs ==
  ASSUME NEW v \in Seq(Nat), NEW z \in Seq(Nat), NEW h, h = v \o z,
         NEW n \in Nat, n = Len(v), NEW k \in Nat, k = Len(z)
  PROVE  IsCat(h, v, z, n, k)
BY DEF IsCat

\* What sounds of h is v.
SoundsAs(h, v, n) == Sounding(h) = n /\ \A i \in 1..n : h[i] = v[i]

\* Samples first, then silence: what sounds is the samples.
LEMMA SoundingIs ==
  ASSUME NEW n \in Nat, NEW k \in Nat, NEW v \in Seq(Nat), Len(v) = n,
         \A i \in 1..n : 0 < v[i],
         NEW h, h = v \o Silence(k)
  PROVE  SoundsAs(h, v, n)
<1>1. PICK z : z = Silence(k)
    OBVIOUS
<1>2. z = [i \in 1..k |-> 0]
    BY <1>1 DEF Silence
<1>3. z \in [1..k -> Nat]
    BY <1>2
<1>4. z \in Seq(Nat) /\ Len(z) = k
    BY <1>3, SeqOfValues
<1>5. /\ h \in Seq(Nat) /\ Len(h) = n + k
      /\ \A i \in 1..n : h[i] = v[i]
      /\ \A i \in 1..k : h[n + i] = z[i]
  <2>1. h = v \o z
    BY <1>1
  <2>2. IsCat(h, v, z, n, k)
    BY <1>4, <2>1, CatIs
  <2> QED BY <2>2 DEF IsCat
<1>6. DOMAIN h = 1..(n + k)
    BY <1>5
<1>7. ASSUME NEW i \in 1..(n + k) PROVE h[i] # 0 <=> i \in 1..n
  <2>1. CASE i <= n
    <3>1. i \in 1..n
      BY <2>1
    <3>2. v[i] # 0
      BY <3>1
    <3> QED BY <1>5, <3>1, <3>2
  <2>2. CASE ~ (i <= n)
    <3>1. PICK j \in Nat : i = n + j
      <4>1. i - n \in Nat /\ i = n + (i - n)
        BY <2>2
      <4> QED BY <4>1
    <3>2. j \in 1..k
      BY <2>2, <3>1
    <3>3. h[i] = 0
      BY <1>2, <1>5, <3>1, <3>2
    <3> QED BY <2>2, <3>3
  <2> QED BY <2>1, <2>2
<1>8. 1..n \subseteq 1..(n + k)
    OBVIOUS
<1>9. {i \in DOMAIN h : h[i] # 0} = 1..n
    BY <1>6, <1>7, <1>8
<1>10. Cardinality(1..n) = n
  <2>1. Cardinality(1..n) = IF 1 > n THEN 0 ELSE n - 1 + 1
    BY FS_Interval
  <2> QED BY <2>1
<1> QED BY <1>5, <1>9, <1>10 DEF Sounding, SoundsAs

\* What one call of data_cb gives to the device.
Played ==
    LET n == Sounding(heard')
    IN  /\ n % 2 = 0
        /\ \A i \in 1..n : /\ heard'[i] > (IF i = 1 THEN last ELSE heard'[i - 1])
                           /\ i % 2 = heard'[i] % 2

\* Each call continues where the one before it ended.
LEMMA CallbackPlays ==
  ASSUME IndInv, NEW nframes \in 0..MaxRequest, DataCallback(nframes)
  PROVE  Played
<1>1. PICK b, n, v :
        /\ b = ring.bufferSize
        /\ n = (IF 2 * nframes < b THEN 2 * nframes ELSE b)
        /\ v = ReadValues(ring, n)
    OBVIOUS
<1>2. heard' = v \o Silence(2 * nframes - n)
    BY <1>1 DEF DataCallback
<1>3. ring \in RingType /\ written \in Seq(Nat) /\ Holds(ring, written)
    BY DEF IndInv, RingInv
<1>4. PICK k \in Nat :
        /\ b \in Nat /\ n \in 0..b /\ n \in Nat /\ n % 2 = 0 /\ b % 2 = 0 /\ k = 2 * nframes - n
  <2>1. b \in Nat /\ b % 2 = 0 /\ nframes \in Nat
    BY <1>1, <1>3, PlaybackAssumption DEF IndInv, OrderInv, RingType
  <2>2. PICK m \in Nat : m = 2 * nframes /\ m % 2 = 0
    BY <2>1
  <2>3. n = IF m < b THEN m ELSE b
    BY <1>1, <2>2
  <2>4. n \in 0..b /\ n \in Nat /\ n % 2 = 0 /\ m - n \in Nat
    BY <2>1, <2>2, <2>3
  <2> QED BY <2>1, <2>2, <2>4
<1>5. Gives(v, n, written, b)
    BY <1>1, <1>3, <1>4, ReadGives
<1>6. PICK l \in Nat : l = Len(written) /\ b <= l
    BY <1>1, <1>3 DEF Holds
<1>7. PICK d \in Nat : d = l - b /\ d % 2 = 0 /\ l = d + b
  <2>1. l % 2 = 0
    BY <1>6 DEF IndInv, OrderInv, Growing
  <2>2. l - b \in Nat /\ (l - b) % 2 = 0 /\ l = (l - b) + b
    BY <1>4, <1>6, <2>1
  <2> QED BY <2>2
<1>8. \A i \in 1..l :
        /\ written[i] % 2 = i % 2 /\ 0 < written[i] /\ written[i] \in Nat
        /\ d < i => last < written[i]
        /\ \A j \in 1..l : i < j => written[i] < written[j]
  <2>1. \A i \in 1..l : written[i] \in Nat
    BY <1>3, <1>6, ElementOfSeq
  <2>2. \A i \in 1..l : /\ written[i] % 2 = i % 2 /\ 0 < written[i]
                        /\ \A j \in 1..l : i < j => written[i] < written[j]
    BY <1>6 DEF IndInv, OrderInv, Growing
  <2>3. Len(written) - ring.bufferSize = d
    BY <1>1, <1>6, <1>7
  <2>4. \A i \in 1..l : d < i => last < written[i]
    BY <1>6, <2>3 DEF IndInv, OrderInv
  <2> QED BY <2>1, <2>2, <2>4
<1>9. last \in Nat
    BY DEF IndInv, OrderInv
<1>10. \A i \in 1..n : v[i] = written[d + i]
    BY <1>5, <1>6, <1>7 DEF Gives
<1>11. \A i \in 1..n : i \in Nat /\ d + i \in 1..l /\ d < d + i
    BY <1>4, <1>7
<1>12. Sounding(heard') = n /\ \A i \in 1..n : heard'[i] = v[i]
  <2>1. v \in Seq(Nat) /\ Len(v) = n
    BY <1>5 DEF Gives
  <2>2. \A i \in 1..n : 0 < v[i]
    BY <1>8, <1>10, <1>11
  <2>3. heard' = v \o Silence(k)
    BY <1>2, <1>4
  <2>4. SoundsAs(heard', v, n)
    BY <1>4, <2>1, <2>2, <2>3, SoundingIs
  <2> QED BY <2>4 DEF SoundsAs
<1>13. ASSUME NEW i \in 1..n
       PROVE  /\ heard'[i] > (IF i = 1 THEN last ELSE heard'[i - 1])
              /\ i % 2 = heard'[i] % 2
  <2>1. heard'[i] = written[d + i] /\ written[d + i] \in Nat /\ last < written[d + i]
    BY <1>8, <1>10, <1>11, <1>12
  <2>2. i % 2 = heard'[i] % 2
    <3>1. (d + i) % 2 = i % 2
      BY <1>7, <1>11, EvenOffset
    <3>2. written[d + i] % 2 = (d + i) % 2
      BY <1>8, <1>11
    <3> QED BY <2>1, <3>1, <3>2
  <2>3. CASE i = 1
    BY <1>9, <2>1, <2>2, <2>3
  <2>4. CASE i # 1
    <3>1. PICK j \in 1..n : j = i - 1
      BY <1>4, <2>4
    <3>2. heard'[j] = written[d + j] /\ written[d + j] \in Nat
      BY <1>8, <1>10, <1>11, <1>12
    <3>3. d + j < d + i
      BY <1>7, <3>1
    <3>4. written[d + j] < written[d + i]
      BY <1>8, <1>11, <3>3
    <3>5. heard'[i] > heard'[j]
      BY <2>1, <3>2, <3>4
    <3> QED BY <2>2, <2>4, <3>1, <3>5
  <2> QED BY <2>3, <2>4
<1> QED BY <1>4, <1>12, <1>13 DEF Played

\* The device gets the samples in the host's order and on the right side, for every size of
\* the ring, of packets and of requests.
THEOREM PlayedCorrect == Spec => PlayedInOrder
<1>1. IndInv /\ [Next]_vars => (heard' # heard => Played)
  <2> SUFFICES ASSUME IndInv, [Next]_vars, heard' # heard PROVE Played
    OBVIOUS
  <2>1. \E nframes \in 0..MaxRequest : DataCallback(nframes)
    BY DEF Next, vars, threads, queue, sound, history, UiThread, StartAudio, JoinRecv, ExchangeFlag,
           Notify, JoinAudio, Destroy, AudioFrame, Push, RecvEnds, Quit, SpuriousWake, AudioThread, OpenDevice,
           AudioLoop, AudioTest, AudioWait, AudioStops, AudioTake, Decode, StopDevice, ClearQueue
  <2> QED BY <2>1, CallbackPlays
<1>2. IndInv /\ [Next]_vars =>
        [heard' # heard =>
           LET n == Sounding(heard')
           IN  /\ n % 2 = 0
               /\ \A i \in 1..n : /\ heard'[i] > (IF i = 1 THEN last ELSE heard'[i - 1])
                                  /\ i % 2 = heard'[i] % 2]_vars
    BY <1>1 DEF Played
<1> QED
    BY <1>2, Inductive, PTL DEF Spec, PlayedInOrder
-----------------------------------------------------------------------------
(* The wakeups and the end of the window.                                  *)

Asleep  == {"toWait", "wait"}
Closing == {"notify", "join", "closed"}

\* The audio thread never sleeps, nor is it about to, while there is a packet to decode;
\* once the destructor has notified it, it sleeps only if the notification was missed.
AudioAwake ==
    aPc \in Asleep => /\ audioData = <<>>
                      /\ win \in {"join", "closed"} => missed

\* When the destructor is done nothing of the window runs: the receive thread and the audio
\* thread have ended, and the device will not call data_cb.
ClosedIsQuiet ==
    win = "closed" => recv = "ended" /\ aPc \in {"off", "ended"} /\ ~playing

\* The flag falls when the destructor exchanges it, and a window without sound has no thread.
WakeInv ==
    /\ AudioAwake /\ ClosedIsQuiet
    /\ win \in Closing => ~flagPlayAudio
    /\ flagPlayAudio \/ win \in Closing \/ aPc = "off"
    /\ win = "ctor" => aPc = "off"
    /\ win \in Closing \cup {"exchange"} => recv = "ended"
    /\ playing => aPc \notin {"off", "init", "clear", "ended"}

\* Every step keeps it.
LEMMA WakeStep ==
  ASSUME WakeInv, [Next]_vars
  PROVE  WakeInv'
<1> USE DEF WakeInv, AudioAwake, ClosedIsQuiet, Asleep, Closing
<1>1. CASE UNCHANGED vars
    BY <1>1 DEF vars, threads, queue, sound, history
<1>2. CASE UiThread \/ Destroy
  <2>1. CASE StartAudio
    BY <2>1 DEF StartAudio, queue, sound, history
  <2>2. CASE JoinRecv
    BY <2>2 DEF JoinRecv, queue, sound, history
  <2>3. CASE ExchangeFlag
    BY <2>3 DEF ExchangeFlag, sound, history
  <2>4. CASE Notify
    BY <2>4 DEF Notify, queue, sound
  <2>5. CASE JoinAudio
    BY <2>5 DEF JoinAudio, queue, sound, history
  <2>6. CASE Destroy
    BY <2>6 DEF Destroy, queue, sound, history
  <2> QED BY <1>2, <2>1, <2>2, <2>3, <2>4, <2>5, <2>6 DEF UiThread
<1>3. CASE AudioFrame \/ Push \/ RecvEnds
  <2>1. CASE AudioFrame
    BY <2>1 DEF AudioFrame, sound, history
  <2>2. CASE Push
    BY <2>2 DEF Push, AudioLocked, sound, history
  <2>3. CASE RecvEnds
    BY <2>3 DEF RecvEnds, queue, sound, history
  <2> QED BY <1>3, <2>1, <2>2, <2>3
<1>4. CASE OpenDevice \/ AudioLoop \/ AudioTest \/ AudioWait \/ AudioStops \/ SpuriousWake
  <2>1. CASE OpenDevice
    BY <2>1 DEF OpenDevice, queue, history
  <2>2. CASE AudioLoop
    BY <2>2 DEF AudioLoop, queue, sound, history
  <2>3. CASE AudioTest
    BY <2>3 DEF AudioTest, queue, sound, history
  <2>4. CASE AudioWait
    BY <2>4 DEF AudioWait, queue, sound, history
  <2>5. CASE AudioStops
    BY <2>5 DEF AudioStops, queue, sound, history
  <2>6. CASE SpuriousWake
    BY <2>6 DEF SpuriousWake, queue, sound, history
  <2> QED BY <1>4, <2>1, <2>2, <2>3, <2>4, <2>5, <2>6
<1>5. CASE AudioTake
    BY <1>5 DEF AudioTake, history
<1>6. CASE \E frames \in 0..MaxFrames : Decode(frames)
  <2>1. /\ aPc = "decode" /\ aPc' = "loop"
        /\ UNCHANGED <<win, recv, flagPlayAudio, audioData, playing, missed>>
    BY <1>6 DEF Decode, queue
  <2> QED BY <2>1
<1>7. CASE StopDevice \/ ClearQueue
    BY <1>7 DEF StopDevice, ClearQueue, queue, sound, history
<1>8. CASE Quit
    BY <1>8 DEF Quit, threads, queue, sound, history
<1>9. CASE \E nframes \in 0..MaxRequest : DataCallback(nframes)
  <2>1. UNCHANGED <<win, recv, aPc, flagPlayAudio, audioData, playing, missed>>
    BY <1>9 DEF DataCallback, threads, queue
  <2> QED BY <2>1
<1> QED BY <1>1, <1>2, <1>3, <1>4, <1>5, <1>6, <1>7, <1>8, <1>9 DEF Next, AudioThread

\* It holds from the start.
LEMMA WakeInductive == Spec => []WakeInv
<1>1. Init => WakeInv
    BY DEF Init, WakeInv, AudioAwake, ClosedIsQuiet, Asleep, Closing
<1> QED
    BY <1>1, WakeStep, PTL DEF Spec

\* No packet is left lying by a sleeping audio thread, and only a notification that came between
\* the test and the wait (StreamWindow.cpp sends it without audioDataLock) keeps ~StreamWindow
\* waiting: the safe part of PacketsDecoded and of WindowCloses.
THEOREM AudioWakes == Spec => []AudioAwake
<1>1. WakeInv => AudioAwake
    BY DEF WakeInv
<1> QED
    BY <1>1, WakeInductive, PTL

\* After ~StreamWindow no thread and no callback uses the window's memory.
THEOREM ClosedCorrect == Spec => []ClosedIsQuiet
<1>1. WakeInv => ClosedIsQuiet
    BY DEF WakeInv
<1> QED
    BY <1>1, WakeInductive, PTL
=============================================================================
