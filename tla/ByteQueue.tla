------------------------------ MODULE ByteQueue ------------------------------
(***************************************************************************)
(* What dc::net::Buffer is to its users: a sequence of bytes that is        *)
(* appended to and taken back from at its end, and retrieved from and       *)
(* prepended to at its front.  An integer is put in, and read, as its digits *)
(* in two's complement, the highest first.                                  *)
(***************************************************************************)
EXTENDS Integers, Sequences

CONSTANTS Chunks,   \* what may be appended or prepended in one go
          Radix, IntSizes

VARIABLES content,
          integer   \* what the last call on integers took or returned

Init == content = <<>> /\ integer = 0

Ints(size) == -(Radix ^ size \div 2) .. Radix ^ size \div 2 - 1
Digits(x, size) == [i \in 1 .. size |-> (x \div Radix ^ (size - i)) % Radix]

Add(d) == content' = content \o d
Prepend(d) == content' = d \o content
Retrieve(n) == content' = SubSeq(content, n + 1, Len(content)) /\ UNCHANGED integer
Unwrite(n) == content' = SubSeq(content, 1, Len(content) - n) /\ UNCHANGED integer

\* The integer x at the front is read, and stays or is retrieved.
Read(x, size) ==
    /\ size <= Len(content)
    /\ SubSeq(content, 1, size) = Digits(x, size)
    /\ content' \in {content, SubSeq(content, size + 1, Len(content))}

Next ==
    \/ \E d \in Chunks : (Add(d) \/ Prepend(d)) /\ UNCHANGED integer
    \/ \E n \in 0 .. Len(content) : Retrieve(n) \/ Unwrite(n)
    \/ \E size \in IntSizes : \E x \in Ints(size) :
         (Add(Digits(x, size)) \/ Prepend(Digits(x, size)) \/ Read(x, size))
           /\ integer' = x

Spec == Init /\ [][Next]_<<content, integer>>
=============================================================================
