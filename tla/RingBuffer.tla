----------------------------- MODULE RingBuffer -----------------------------
(***************************************************************************)
(* RingBuffer<T, MIN_SIZE>: a queue of samples in an array of SIZE cells,  *)
(* read and written in blocks that may go over the end of the array.       *)
(***************************************************************************)
EXTENDS Integers, Sequences

CONSTANT SIZE   \* cells of the array (32768 in the code)

ASSUME SizeAssumption == SIZE \in Nat \ {0}

\* The cells start with unspecified values, which nobody reads; here 0.
NewRing == [readPos |-> 0, bufferSize |-> 0, buffer |-> [i \in 0..(SIZE - 1) |-> 0]]

Available(r) == SIZE - r.bufferSize

Drop(r, amount) == [r EXCEPT !.readPos = (@ + amount) % SIZE, !.bufferSize = @ - amount]

\* memcpy of n values of arr, from the skip-th on, into cells pos, pos + 1, ...
Copied(cells, pos, arr, skip, n) ==
    [i \in DOMAIN cells |-> IF i \in pos..(pos + n - 1) THEN arr[skip + i - pos + 1] ELSE cells[i]]

\* Faulty variant: a block that ends exactly at the end of the array is not recognised.
WriteShort(r, arr) ==
    LET amount   == Len(arr)
        writePos == (r.readPos + r.bufferSize) % SIZE
        endPos   == (r.readPos + r.bufferSize + amount) % SIZE
    IN  [r EXCEPT !.bufferSize = @ + amount,
                  !.buffer = IF endPos <= writePos THEN @ ELSE Copied(@, writePos, arr, 0, amount)]

\* write(arr, amount): in one piece, or up to the end of the array and on from its start.
Write(r, arr) ==
    LET amount   == Len(arr)
        writePos == (r.readPos + r.bufferSize) % SIZE
        endPos   == (r.readPos + r.bufferSize + amount) % SIZE
        first    == SIZE - writePos
    IN  [r EXCEPT !.bufferSize = @ + amount,
                  !.buffer = IF amount = 0 THEN @
                             ELSE IF endPos <= writePos
                             THEN Copied(Copied(@, writePos, arr, 0, first), 0, arr, first, amount - first)
                             ELSE Copied(@, writePos, arr, 0, amount)]

\* The values that read(arr, amount) copies out of the array, in its one or two pieces.
ReadValues(r, amount) ==
    LET first == IF SIZE <= r.readPos + amount THEN SIZE - r.readPos ELSE amount
    IN  [i \in 1..amount |-> IF i <= first THEN r.buffer[r.readPos + i - 1] ELSE r.buffer[i - first - 1]]

\* Faulty variant: the position after a piece at the end of the array is lost.
AfterReadStart(r, amount) ==
    [r EXCEPT !.bufferSize = @ - amount,
              !.readPos = IF SIZE <= @ + amount THEN 0 ELSE @ + amount]

\* The ring that read(arr, amount) leaves.
AfterRead(r, amount) ==
    [r EXCEPT !.bufferSize = @ - amount,
              !.readPos = IF amount = 0 THEN @
                          ELSE IF SIZE <= @ + amount THEN amount - (SIZE - @) ELSE @ + amount]

\* What the ring stands for: the queue of the values written and not yet read or dropped.
Contents(r) == [i \in 1..r.bufferSize |-> r.buffer[(r.readPos + i - 1) % SIZE]]
=============================================================================
