------------------------------- MODULE Ramfs -------------------------------
(***************************************************************************)
(* The files of the RAM file system (src/src/ramfs.rs): a kmalloc'd buffer *)
(* of some capacity, of which the first size bytes are the file.  The      *)
(* buffer is a function of the byte positions 0 .. capacity-1.             *)
(*                                                                         *)
(* A write past the capacity moves the file to a larger, zeroed buffer,    *)
(* found by doubling the capacity in a u32 that wraps at U32.              *)
(***************************************************************************)
EXTENDS Integers

CONSTANTS
    U32,        \* the values of a u32 are 0 .. U32-1
    MIN_CAP,    \* the capacity a file starts with (256)
    Byte        \* the bytes; 0 is what memset writes

ASSUME RamfsAssumption == /\ U32 \in Nat \ {0}
                          /\ MIN_CAP \in 1 .. U32-1
                          /\ 0 \in Byte

\* RamfsFileData: the capacity is the length of the buffer.
IsFile(f) == /\ f = [size |-> f.size, capacity |-> f.capacity, data |-> f.data]
             /\ f.capacity \in 0 .. U32-1
             /\ f.size \in 0 .. f.capacity
             /\ f.data \in [0 .. f.capacity-1 -> Byte]

EmptyFile == [size |-> 0, capacity |-> MIN_CAP, data |-> [i \in 0 .. MIN_CAP-1 |-> 0]]

\* How many bytes ramfs_read copies from a file of length len: what is left
\* of it, and never more than asked for.
RamfsRead(len, offset, size) ==
    IF offset >= len THEN 0
    ELSE IF size > U32-1 - offset \/ offset + size > len THEN len - offset
    ELSE size

StopsAt(cap, needed) == cap >= needed

\* The capacities `new_cap *= 2` passes through before it wraps.
Doublings(cap) == {c \in 1 .. U32-1 : \E k \in 0 .. U32 : c = cap * 2^k}

StartCap(f) == IF f.capacity < MIN_CAP THEN MIN_CAP ELSE f.capacity

\* The loop stops at the first doubling that is large enough.  When no
\* doubling below 2^32 is, new_cap becomes 0 and the loop never ends.
Enough(f, needed) == {c \in Doublings(StartCap(f)) : StopsAt(c, needed)}
GrowEnds(f, needed) == needed > f.capacity => Enough(f, needed) # {}
NewCap(f, needed) == CHOOSE c \in Enough(f, needed) :
                         \A d \in Enough(f, needed) : c <= d

\* The zeroed larger buffer, with the file copied into it.
Grown(f, cap) ==
    [size |-> f.size, capacity |-> cap,
     data |-> [i \in 0 .. cap-1 |-> IF i < f.size THEN f.data[i] ELSE 0]]

SizeTruncated(f, needed) == needed
SizeAfter(f, needed) == IF needed > f.size THEN needed ELSE f.size

\* ramfs_write into a buffer that is large enough: memcpy, then the size.
Stored(f, offset, bytes, n) ==
    [size |-> SizeAfter(f, offset + n), capacity |-> f.capacity,
     data |-> [i \in 0 .. f.capacity-1 |->
                  IF i \in offset .. offset+n-1 THEN bytes[i - offset] ELSE f.data[i]]]

\* ramfs_write once the loop has ended and kmalloc has succeeded.
RamfsWrite(f, offset, bytes, n) ==
    LET needed == offset + n
    IN  IF needed > f.capacity
        THEN Stored(Grown(f, NewCap(f, needed)), offset, bytes, n)
        ELSE Stored(f, offset, bytes, n)

-----------------------------------------------------------------------------
(* What a file is for: a string of bytes that only grows, with zeros in    *)
(* the gap that a write past its end leaves.                               *)

IsContent(c) == /\ c = [len |-> c.len, at |-> c.at]
                /\ c.len \in 0 .. U32-1
                /\ c.at \in [0 .. c.len-1 -> Byte]

NoContent == [len |-> 0, at |-> [i \in 0 .. -1 |-> 0]]

\* The file f holds the content c.
Holds(f, c) == f.size = c.len /\ \A i \in 0 .. c.len-1 : f.data[i] = c.at[i]

\* Content c after n bytes are written at offset.
Overwritten(c, offset, bytes, n) ==
    LET len == IF offset + n > c.len THEN offset + n ELSE c.len
    IN  [len |-> len,
         at |-> [i \in 0 .. len-1 |->
                    IF i \in offset .. offset+n-1 THEN bytes[i - offset]
                    ELSE IF i < c.len THEN c.at[i] ELSE 0]]

=============================================================================
