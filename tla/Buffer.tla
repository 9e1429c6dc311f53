------------------------------- MODULE Buffer -------------------------------
(***************************************************************************)
(* dc::net::Buffer.  A buffer is a record of m_buffers (data), m_readerIndex *)
(* (reader) and m_writerIndex (writer); the readable bytes lie between the  *)
(* indexes.  Its methods are functions on such records.  A byte of the      *)
(* vector that was never written is 0.                                      *)
(***************************************************************************)
EXTENDS Integers, SequencesExt

CONSTANTS Radix,          \* how many values a byte has
          IntSizes,       \* the sizes of int8_t, int16_t...
          kCheapPrepend, kInitialSize,
          kExtraSize,     \* sizeof extrabuf in readFd
          MaxLen,         \* bound on the length of one append, prepend, read
          MaxSize         \* bound on m_buffers.size()

ASSUME BufferAssumption ==
    /\ kCheapPrepend \in Nat /\ kInitialSize \in Nat /\ kExtraSize \in Nat
    /\ MaxLen \in Nat /\ MaxSize \in Nat /\ IntSizes \subseteq Nat \ {0}
    /\ Radix \in Nat \ {0} /\ Radix % 2 = 0

Byte == 0 .. Radix - 1

ReadableBytes(b) == b.writer - b.reader
WritableBytes(b) == Len(b.data) - b.writer
PrependableBytes(b) == b.reader

Content(b) == [i \in 1 .. ReadableBytes(b) |-> b.data[b.reader + i]]

NewBuffer ==
    [data |-> [i \in 1 .. kCheapPrepend + kInitialSize |-> 0],
     reader |-> kCheapPrepend, writer |-> kCheapPrepend]

\* std::copy of d to m_buffers.begin() + place.
Copy(data, place, d) ==
    [i \in 1 .. Len(data) |-> IF place < i /\ i <= place + Len(d) THEN d[i - place] ELSE data[i]]

Resize(data, size) == [i \in 1 .. size |-> IF i <= Len(data) THEN data[i] ELSE 0]

\* Either grow, or move the readable bytes to the front.
Grows(b, len) == WritableBytes(b) + PrependableBytes(b) < len + kCheapPrepend

MakeSpace(b, len) ==
    IF Grows(b, len) THEN [b EXCEPT !.data = Resize(@, b.writer + len)]
    ELSE [data |-> Copy(b.data, kCheapPrepend, Content(b)),
          reader |-> kCheapPrepend, writer |-> kCheapPrepend + ReadableBytes(b)]

EnsureWritableBytes(b, len) == IF WritableBytes(b) < len THEN MakeSpace(b, len) ELSE b

\* std::copy to beginWrite(), then hasWritten.
Write(b, d) == [b EXCEPT !.data = Copy(@, b.writer, d), !.writer = @ + Len(d)]

AppendTo(b, d) == Write(EnsureWritableBytes(b, Len(d)), d)

RetrieveAll(b) == [b EXCEPT !.reader = kCheapPrepend, !.writer = kCheapPrepend]

RetrieveFrom(b, len) ==
    IF len < ReadableBytes(b) THEN [b EXCEPT !.reader = @ + len] ELSE RetrieveAll(b)

UnwriteFrom(b, len) == [b EXCEPT !.writer = @ - len]

\* Variant: copied before m_readerIndex is decreased.
PrependAfter(b, d) ==
    [b EXCEPT !.data = Copy(@, b.reader, d), !.reader = @ - Len(d)]

PrependTo(b, d) ==
    [b EXCEPT !.data = Copy(@, b.reader - Len(d), d), !.reader = @ - Len(d)]

ShrinkTo(b, reserve) ==
    AppendTo(EnsureWritableBytes(NewBuffer, ReadableBytes(b) + reserve), Content(b))

\* readv into the writable bytes and, when these are few, into extrabuf.
ReadLimit(b) == WritableBytes(b) + (IF WritableBytes(b) < kExtraSize THEN kExtraSize ELSE 0)

ReadInto(b, d) ==
    LET writable == WritableBytes(b) IN
    IF Len(d) <= writable THEN Write(b, d)
    ELSE AppendTo(Write(b, SubSeq(d, 1, writable)), SubSeq(d, writable + 1, Len(d)))

(* Integers in network byte order, on a little-endian host. *)

Ints(size) == -(Radix ^ size \div 2) .. Radix ^ size \div 2 - 1

\* An integer as it lies in memory, in two's complement, and back.
Memory(x, size) == [i \in 1 .. size |-> (x \div Radix ^ (i - 1)) % Radix]
FromMemory(m) ==
    LET unsigned == FoldLeft(LAMBDA sum, byte : sum * Radix + byte, 0, Reverse(m))
    IN IF unsigned >= Radix ^ Len(m) \div 2 THEN unsigned - Radix ^ Len(m) ELSE unsigned

\* Variant: the bytes are not swapped.
HostToNetworkNot(m) == m

HostToNetwork(m) == Reverse(m)
NetworkToHost(m) == Reverse(m)

AppendInt(b, x, size) == AppendTo(b, HostToNetwork(Memory(x, size)))
PrependInt(b, x, size) == PrependTo(b, HostToNetwork(Memory(x, size)))

\* peekInt16 copies twice its size and then uses the first half: the value
\* is the same, whatever it reads beyond.
PeekInt(b, size) == FromMemory(NetworkToHost(SubSeq(b.data, b.reader + 1, b.reader + size)))

-----------------------------------------------------------------------------

VARIABLES buffer,
          integer   \* history: what the last call on integers took or returned

vars == <<buffer, integer>>

Init == buffer = NewBuffer /\ integer = 0

\* What the program may write in one go.
Data(max) == UNION {[1 .. n -> Byte] : n \in 0 .. max}

Change(b) == Len(b.data) <= MaxSize /\ buffer' = b /\ UNCHANGED integer

Appends == \E d \in Data(MaxLen) : Change(AppendTo(buffer, d))
EnsureWritable == \E n \in 0 .. MaxLen : Change(EnsureWritableBytes(buffer, n))
Retrieve == \E n \in 0 .. ReadableBytes(buffer) : Change(RetrieveFrom(buffer, n))
Unwrite == \E n \in 0 .. ReadableBytes(buffer) : Change(UnwriteFrom(buffer, n))
Prepend ==
    \E d \in Data(MaxLen) : Len(d) <= PrependableBytes(buffer) /\ Change(PrependTo(buffer, d))
Shrink == \E n \in 0 .. MaxLen : Change(ShrinkTo(buffer, n))
ReadFd == \E d \in Data(MaxLen) : Len(d) <= ReadLimit(buffer) /\ Change(ReadInto(buffer, d))

ChangeInt(b, x) == Len(b.data) <= MaxSize /\ buffer' = b /\ integer' = x

AppendInts ==
    \E size \in IntSizes : \E x \in Ints(size) : ChangeInt(AppendInt(buffer, x, size), x)
PrependInts ==
    \E size \in IntSizes : \E x \in Ints(size) :
        size <= PrependableBytes(buffer) /\ ChangeInt(PrependInt(buffer, x, size), x)

Peek(size) ==
    size <= ReadableBytes(buffer) /\ integer' = PeekInt(buffer, size) /\ UNCHANGED buffer
ReadInt(size) ==
    /\ size <= ReadableBytes(buffer)
    /\ integer' = PeekInt(buffer, size)
    /\ buffer' = RetrieveFrom(buffer, size)

Next ==
    \/ Appends \/ EnsureWritable \/ Retrieve \/ Unwrite \/ Prepend \/ Shrink \/ ReadFd
    \/ AppendInts \/ PrependInts
    \/ \E size \in IntSizes : Peek(size) \/ ReadInt(size)

Spec == Init /\ [][Next]_vars

-----------------------------------------------------------------------------
(* Properties. *)

\* The readable bytes behave as a byte queue, wherever they lie in the
\* vector and however often they were moved, and the integers read are those
\* that the bytes stand for in network byte order.
Queue == INSTANCE ByteQueue WITH content <- Content(buffer), Chunks <- Data(MaxLen)
ImplementsQueue == Queue!Spec

\* peekInt16 asserts two readable bytes and copies four from peek().
PeekInt16InBounds == ReadableBytes(buffer) >= 2 => buffer.reader + 4 <= Len(buffer.data)
=============================================================================
