------------------------- MODULE AsyncLoggingProofs -------------------------
(***************************************************************************)
(* Proofs about AsyncLogging, for every buffer size, roll size, interval    *)
(* and number of lines and write errors: the logging thread always has two  *)
(* empty buffers to swap in, and the lines keep their order and are neither *)
(* doubled nor lost, through appends, swaps, drops, rolls and errors.       *)
(*                                                                          *)
(* The lines that are kept are in four places: the file, the buffers the    *)
(* thread has still to write, m_buffers and m_currentBuffer.  The inductive *)
(* invariant says that the lines of each place increase, that each place    *)
(* is before the next, and that together they are the lines appended but    *)
(* not gone.                                                                *)
(***************************************************************************)
EXTENDS AsyncLogging, SequenceTheorems, TLAPS

USE SMTT(60)

-----------------------------------------------------------------------------
(* Sequences of lines and of buffers. *)

\* The lines of a sequence increase; every line of S is before those of T.
Rising(s) ==
  \A i, j \in DOMAIN s : i < j /\ s[i] # Notice /\ s[j] # Notice => s[i] < s[j]
Before(S, T) == \A x \in S, y \in T : x < y
Real(s) == Range(s) \ {Notice}

\* The elements of two sequences, one after the other.
LEMMA JoinElements ==
  ASSUME NEW S, NEW s \in Seq(S), NEW t \in Seq(S)
  PROVE  /\ s \o t \in Seq(S) /\ Len(s \o t) = Len(s) + Len(t)
         /\ \A i \in 1 .. Len(s) : i \in 1 .. Len(s \o t) /\ (s \o t)[i] = s[i]
         /\ \A i \in 1 .. Len(t) : Len(s) + i \in 1 .. Len(s \o t) /\ (s \o t)[Len(s) + i] = t[i]
         /\ \A k \in 1 .. Len(s \o t) :
              \/ k \in 1 .. Len(s) /\ (s \o t)[k] = s[k]
              \/ k - Len(s) \in 1 .. Len(t) /\ (s \o t)[k] = t[k - Len(s)]
OBVIOUS

\* Sequences are equal when their elements are.
LEMMA SameSeq ==
  ASSUME NEW S, NEW s \in Seq(S), NEW t \in Seq(S), Len(s) = Len(t),
         \A i \in 1 .. Len(s) : t[i] = s[i]
  PROVE  t = s
OBVIOUS

\* Joining is associative.
LEMMA JoinAssoc ==
  ASSUME NEW s \in Seq(Nat), NEW t \in Seq(Nat), NEW u \in Seq(Nat)
  PROVE  s \o (t \o u) = (s \o t) \o u
OBVIOUS

\* A part of a sequence.
LEMMA PartOfSeq ==
  ASSUME NEW S, NEW s \in Seq(S), NEW m \in 0 .. Len(s), NEW n \in m .. Len(s)
  PROVE  /\ SubSeq(s, m + 1, n) \in Seq(S) /\ Len(SubSeq(s, m + 1, n)) = n - m
         /\ \A i \in 1 .. (n - m) : SubSeq(s, m + 1, n)[i] = s[m + i]
<1>1. \A i \in (m + 1) .. n : s[i] \in S
  OBVIOUS
<1>2. m + 1 \in Int /\ n \in Int
  OBVIOUS
<1> QED
  BY <1>1, <1>2, SubSeqProperties

\* A sequence cut in two.
LEMMA CutSeq ==
  ASSUME NEW S, NEW s \in Seq(S), NEW n \in 0 .. Len(s)
  PROVE  /\ SubSeq(s, 1, n) \in Seq(S) /\ SubSeq(s, n + 1, Len(s)) \in Seq(S)
         /\ SubSeq(s, 1, n) \o SubSeq(s, n + 1, Len(s)) = s
<1>1. PICK a \in Seq(S) : a = SubSeq(s, 1, n) /\ Len(a) = n /\ \A i \in 1 .. n : a[i] = s[i]
  <2>1. PICK m \in 0 .. Len(s) : m = 0 /\ n \in m .. Len(s)
    OBVIOUS
  <2>2. /\ SubSeq(s, m + 1, n) \in Seq(S) /\ Len(SubSeq(s, m + 1, n)) = n - m
        /\ \A i \in 1 .. (n - m) : SubSeq(s, m + 1, n)[i] = s[m + i]
    BY <2>1, PartOfSeq, ZenonT(60)
  <2>3. m + 1 = 1 /\ n - m = n /\ \A i \in 1 .. n : m + i = i
    BY <2>1
  <2>4. PICK a : a = SubSeq(s, m + 1, n)
    BY Zenon
  <2>5. a = SubSeq(s, 1, n) /\ a \in Seq(S) /\ Len(a) = n /\ \A i \in 1 .. n : a[i] = s[m + i]
    BY <2>2, <2>3, <2>4, Zenon
  <2> QED
    BY <2>3, <2>5, Zenon
<1>2. PICK b \in Seq(S) : /\ b = SubSeq(s, n + 1, Len(s)) /\ Len(b) = Len(s) - n
                          /\ \A i \in 1 .. (Len(s) - n) : b[i] = s[n + i]
  <2>1. n \in 0 .. Len(s) /\ Len(s) \in n .. Len(s)
    OBVIOUS
  <2>2. /\ SubSeq(s, n + 1, Len(s)) \in Seq(S) /\ Len(SubSeq(s, n + 1, Len(s))) = Len(s) - n
        /\ \A i \in 1 .. (Len(s) - n) : SubSeq(s, n + 1, Len(s))[i] = s[n + i]
    BY <2>1, PartOfSeq, ZenonT(60)
  <2> QED
    BY <2>2, Zenon
<1>3. PICK c \in Seq(S) : c = a \o b
  BY JoinElements, Zenon
<1>4. Len(c) = Len(s)
  <2>1. Len(a \o b) = Len(a) + Len(b)
    BY JoinElements, ZenonT(60)
  <2>2. Len(c) = n + (Len(s) - n)
    BY <1>1, <1>2, <1>3, <2>1, Zenon
  <2> QED
    BY <2>2
<1>5. ASSUME NEW i \in 1 .. Len(s) PROVE c[i] = s[i]
  <2>1. CASE i <= n
    BY <1>1, <1>3, <2>1
  <2>2. CASE i > n
    <3>1. i - n \in 1 .. (Len(s) - n) /\ n + (i - n) = i
      BY <2>2
    <3>2. b[i - n] = s[i]
      BY <1>2, <3>1
    <3>3. c[i] = b[i - n]
      <4>1. i - Len(a) \in 1 .. Len(b) /\ Len(a) + (i - Len(a)) = i /\ Len(a) = n
        BY <1>1, <1>2, <2>2
      <4>2. (a \o b)[Len(a) + (i - Len(a))] = b[i - Len(a)]
        BY <4>1, JoinElements
      <4> QED
        BY <1>3, <4>1, <4>2, Zenon
    <3> QED
      BY <3>2, <3>3
  <2> QED
    BY <2>1, <2>2
<1>6. c = s
  BY <1>4, <1>5, SameSeq, Zenon
<1> QED
  BY <1>1, <1>2, <1>3, <1>6, Zenon

\* The lines of two pieces of text, one after the other.
LEMMA RisingJoined ==
  ASSUME NEW s \in Seq(Nat), NEW t \in Seq(Nat)
  PROVE  /\ s \o t \in Seq(Nat) /\ Range(s \o t) = Range(s) \cup Range(t)
         /\ Rising(s \o t) <=> Rising(s) /\ Rising(t) /\ Before(Real(s), Real(t))
<1>1. PICK u \in Seq(Nat) : u = s \o t
  BY JoinElements, Zenon
<1>2. /\ Len(u) = Len(s) + Len(t)
      /\ \A i \in 1 .. Len(s) : i \in 1 .. Len(u) /\ u[i] = s[i]
      /\ \A i \in 1 .. Len(t) : Len(s) + i \in 1 .. Len(u) /\ u[Len(s) + i] = t[i]
      /\ \A k \in 1 .. Len(u) :
           \/ k \in 1 .. Len(s) /\ u[k] = s[k]
           \/ k - Len(s) \in 1 .. Len(t) /\ u[k] = t[k - Len(s)]
  BY <1>1, JoinElements
<1>3. DOMAIN s = 1 .. Len(s) /\ DOMAIN t = 1 .. Len(t) /\ DOMAIN u = 1 .. Len(u)
      /\ Len(s) \in Nat /\ Len(t) \in Nat /\ Len(u) \in Nat
  OBVIOUS
<1>4. Range(u) = Range(s) \cup Range(t)
  <2>1. ASSUME NEW x \in Range(u) PROVE x \in Range(s) \cup Range(t)
    BY <1>2, <1>3, ZenonT(60) DEF Range
  <2>2. ASSUME NEW x \in Range(s) PROVE x \in Range(u)
    <3>1. PICK i \in 1 .. Len(s) : x = s[i]
      BY <1>3, Zenon DEF Range
    <3>2. i \in DOMAIN u /\ u[i] = x
      BY <1>2, <1>3, <3>1, Zenon
    <3> QED
      BY <3>2, Zenon DEF Range
  <2>3. ASSUME NEW x \in Range(t) PROVE x \in Range(u)
    <3>1. PICK i \in 1 .. Len(t) : x = t[i]
      BY <1>3, Zenon DEF Range
    <3>2. Len(s) + i \in DOMAIN u /\ u[Len(s) + i] = x
      BY <1>2, <1>3, <3>1, Zenon
    <3> QED
      BY <3>2, Zenon DEF Range
  <2> QED
    BY <2>1, <2>2, <2>3, Zenon
<1>5. ASSUME Rising(s), Rising(t), Before(Real(s), Real(t)) PROVE Rising(u)
  <2>1. SUFFICES ASSUME NEW i \in 1 .. Len(u), NEW j \in 1 .. Len(u), i < j,
                        u[i] # Notice, u[j] # Notice
                 PROVE  u[i] < u[j]
    BY <1>3 DEF Rising
  <2>2. CASE i \in 1 .. Len(s) /\ u[i] = s[i] /\ j \in 1 .. Len(s) /\ u[j] = s[j]
    BY <1>3, <1>5, <2>1, <2>2, Zenon DEF Rising
  <2>3. CASE /\ i \in 1 .. Len(s) /\ u[i] = s[i]
             /\ j - Len(s) \in 1 .. Len(t) /\ u[j] = t[j - Len(s)]
    <3>1. u[i] \in Real(s) /\ u[j] \in Real(t)
      BY <1>3, <2>1, <2>3, Zenon DEF Real, Range
    <3> QED
      BY <1>5, <3>1, Zenon DEF Before
  <2>4. CASE /\ i - Len(s) \in 1 .. Len(t) /\ u[i] = t[i - Len(s)]
             /\ j - Len(s) \in 1 .. Len(t) /\ u[j] = t[j - Len(s)]
    <3>1. PICK a \in 1 .. Len(t), b \in 1 .. Len(t) : a = i - Len(s) /\ b = j - Len(s)
      BY <2>4, Zenon
    <3>2. a < b
      BY <1>3, <2>1, <3>1
    <3> QED
      BY <1>3, <1>5, <2>1, <2>4, <3>1, <3>2, Zenon DEF Rising
  <2>5. ~(i - Len(s) \in 1 .. Len(t) /\ j \in 1 .. Len(s))
    BY <1>3, <2>1
  <2> QED
    BY <1>2, <2>2, <2>3, <2>4, <2>5, Zenon
<1>6. ASSUME Rising(u) PROVE Rising(s) /\ Rising(t) /\ Before(Real(s), Real(t))
  <2>1. Rising(s)
    BY <1>2, <1>3, <1>6, Zenon DEF Rising
  <2>2. Rising(t)
    <3>1. SUFFICES ASSUME NEW i \in 1 .. Len(t), NEW j \in 1 .. Len(t), i < j,
                          t[i] # Notice, t[j] # Notice
                   PROVE  t[i] < t[j]
      BY <1>3 DEF Rising
    <3>2. /\ Len(s) + i \in 1 .. Len(u) /\ u[Len(s) + i] = t[i]
          /\ Len(s) + j \in 1 .. Len(u) /\ u[Len(s) + j] = t[j]
      BY <1>2, Zenon
    <3>3. Len(s) + i < Len(s) + j
      BY <1>3, <3>1
    <3> QED
      BY <1>3, <1>6, <3>1, <3>2, <3>3, Zenon DEF Rising
  <2>3. Before(Real(s), Real(t))
    <3>1. SUFFICES ASSUME NEW x \in Real(s), NEW y \in Real(t) PROVE x < y
      BY DEF Before
    <3>2. PICK i \in 1 .. Len(s) : x = s[i]
      BY <1>3, Zenon DEF Real, Range
    <3>3. PICK j \in 1 .. Len(t) : y = t[j]
      BY <1>3, Zenon DEF Real, Range
    <3>4. /\ i \in 1 .. Len(u) /\ u[i] = s[i]
          /\ Len(s) + j \in 1 .. Len(u) /\ u[Len(s) + j] = t[j]
      BY <1>2, Zenon
    <3>5. i < Len(s) + j
      BY <1>3, <3>4
    <3>6. x # Notice /\ y # Notice
      BY Zenon DEF Real
    <3> QED
      BY <1>3, <1>6, <3>2, <3>3, <3>4, <3>5, <3>6, Zenon DEF Rising
  <2> QED
    BY <2>1, <2>2, <2>3, Zenon
<1> QED
  BY <1>1, <1>4, <1>5, <1>6, Zenon

\* Lines increase when they do in each buffer and every buffer is before the
\* later ones.
LEMMA IncreaseFields ==
  ASSUME NEW bs \in Seq(Seq(Nat))
  PROVE  /\ Increase(bs) <=> /\ \A p \in 1 .. Len(bs) : Rising(bs[p])
                             /\ \A p, q \in 1 .. Len(bs) : p < q => Before(Real(bs[p]), Real(bs[q]))
         /\ \A x : x \in Lines(bs) <=> \E p \in 1 .. Len(bs) : x \in Real(bs[p])
<1>1. DOMAIN bs = 1 .. Len(bs) /\ \A p \in 1 .. Len(bs) : ~(p < p)
  OBVIOUS
<1>2. ASSUME Increase(bs), NEW p \in 1 .. Len(bs) PROVE Rising(bs[p])
  BY <1>1, <1>2, Zenon DEF Increase, Rising
<1>3. ASSUME Increase(bs), NEW p \in 1 .. Len(bs), NEW q \in 1 .. Len(bs), p < q
      PROVE  Before(Real(bs[p]), Real(bs[q]))
  <2>1. SUFFICES ASSUME NEW x \in Real(bs[p]), NEW y \in Real(bs[q]) PROVE x < y
    BY Zenon DEF Before
  <2>2. PICK i \in DOMAIN bs[p] : x = bs[p][i]
    BY Zenon DEF Real, Range
  <2>3. PICK j \in DOMAIN bs[q] : y = bs[q][j]
    BY Zenon DEF Real, Range
  <2>4. x # Notice /\ y # Notice
    BY Zenon DEF Real
  <2> QED
    BY <1>1, <1>3, <2>2, <2>3, <2>4, Zenon DEF Increase
<1>4. ASSUME \A p \in 1 .. Len(bs) : Rising(bs[p]),
             \A p, q \in 1 .. Len(bs) : p < q => Before(Real(bs[p]), Real(bs[q]))
      PROVE  Increase(bs)
  <2>1. SUFFICES ASSUME NEW p \in 1 .. Len(bs), NEW q \in 1 .. Len(bs),
                        NEW i \in DOMAIN bs[p], NEW j \in DOMAIN bs[q], p < q \/ (p = q /\ i < j),
                        bs[p][i] # Notice, bs[q][j] # Notice
                 PROVE  bs[p][i] < bs[q][j]
    BY <1>1, Zenon DEF Increase
  <2>2. CASE p < q
    <3>1. bs[p][i] \in Real(bs[p]) /\ bs[q][j] \in Real(bs[q])
      BY <2>1, Zenon DEF Real, Range
    <3> QED
      BY <1>4, <2>2, <3>1, Zenon DEF Before
  <2>3. CASE p = q /\ i < j
    BY <1>4, <2>1, <2>3, Zenon DEF Rising
  <2> QED
    BY <2>1, <2>2, <2>3, Zenon
<1>5. \A x : x \in Lines(bs) <=> \E p \in 1 .. Len(bs) : x \in Real(bs[p])
  BY <1>1, Zenon DEF Lines, Real
<1> QED
  BY <1>2, <1>3, <1>4, <1>5, Zenon

\* One buffer.
LEMMA OneBuffer ==
  ASSUME NEW s \in Seq(Nat)
  PROVE  /\ <<s>> \in Seq(Seq(Nat)) /\ Lines(<<s>>) = Real(s)
         /\ Increase(<<s>>) <=> Rising(s)
<1>1. PICK b \in Seq(Seq(Nat)) : b = <<s>>
  <2>1. <<s>> \in Seq(Seq(Nat))
    OBVIOUS
  <2> QED
    BY <2>1, Zenon
<1>2. /\ 1 .. Len(b) = {1} /\ b[1] = s /\ 1 \in 1 .. Len(b) /\ ~(1 < 1)
  BY <1>1
<1>3. /\ Increase(b) <=> /\ \A p \in 1 .. Len(b) : Rising(b[p])
                         /\ \A p, q \in 1 .. Len(b) : p < q => Before(Real(b[p]), Real(b[q]))
      /\ \A x : x \in Lines(b) <=> \E p \in 1 .. Len(b) : x \in Real(b[p])
  BY IncreaseFields, Zenon
<1>4. Increase(b) <=> Rising(s)
  BY <1>2, <1>3, Zenon
<1>5. Lines(b) = Real(s)
  BY <1>2, <1>3, Zenon
<1> QED
  BY <1>1, <1>4, <1>5, Zenon

\* No buffer.
LEMMA NoBuffers == <<>> \in Seq(Seq(Nat)) /\ Lines(<<>>) = {} /\ Increase(<<>>)
BY DEF Lines, Increase

\* The lines of two sequences of buffers, one after the other.
LEMMA BuffersJoined ==
  ASSUME NEW a \in Seq(Seq(Nat)), NEW b \in Seq(Seq(Nat))
  PROVE  /\ a \o b \in Seq(Seq(Nat)) /\ Lines(a \o b) = Lines(a) \cup Lines(b)
         /\ Increase(a \o b) <=> Increase(a) /\ Increase(b) /\ Before(Lines(a), Lines(b))
<1>1. PICK u \in Seq(Seq(Nat)) : u = a \o b
  BY JoinElements, Zenon
<1>2. /\ Len(u) = Len(a) + Len(b)
      /\ \A i \in 1 .. Len(a) : i \in 1 .. Len(u) /\ u[i] = a[i]
      /\ \A i \in 1 .. Len(b) : Len(a) + i \in 1 .. Len(u) /\ u[Len(a) + i] = b[i]
      /\ \A k \in 1 .. Len(u) :
           \/ k \in 1 .. Len(a) /\ u[k] = a[k]
           \/ k - Len(a) \in 1 .. Len(b) /\ u[k] = b[k - Len(a)]
  BY <1>1, JoinElements
<1>3. Len(a) \in Nat /\ Len(b) \in Nat
  OBVIOUS
<1>4. /\ Increase(u) <=> /\ \A p \in 1 .. Len(u) : Rising(u[p])
                         /\ \A p, q \in 1 .. Len(u) : p < q => Before(Real(u[p]), Real(u[q]))
      /\ \A x : x \in Lines(u) <=> \E p \in 1 .. Len(u) : x \in Real(u[p])
  BY IncreaseFields, Zenon
<1>5. /\ Increase(a) <=> /\ \A p \in 1 .. Len(a) : Rising(a[p])
                         /\ \A p, q \in 1 .. Len(a) : p < q => Before(Real(a[p]), Real(a[q]))
      /\ \A x : x \in Lines(a) <=> \E p \in 1 .. Len(a) : x \in Real(a[p])
  BY IncreaseFields, Zenon
<1>6. /\ Increase(b) <=> /\ \A p \in 1 .. Len(b) : Rising(b[p])
                         /\ \A p, q \in 1 .. Len(b) : p < q => Before(Real(b[p]), Real(b[q]))
      /\ \A x : x \in Lines(b) <=> \E p \in 1 .. Len(b) : x \in Real(b[p])
  BY IncreaseFields, Zenon
<1>7. Lines(u) = Lines(a) \cup Lines(b)
  <2>1. ASSUME NEW x \in Lines(u) PROVE x \in Lines(a) \cup Lines(b)
    <3>1. PICK p \in 1 .. Len(u) : x \in Real(u[p])
      BY <1>4, Zenon
    <3> QED
      BY <1>2, <1>5, <1>6, <3>1, Zenon
  <2>2. ASSUME NEW x \in Lines(a) PROVE x \in Lines(u)
    BY <1>2, <1>4, <1>5, Zenon
  <2>3. ASSUME NEW x \in Lines(b) PROVE x \in Lines(u)
    <3>1. PICK p \in 1 .. Len(b) : x \in Real(b[p])
      BY <1>6, Zenon
    <3>2. Len(a) + p \in 1 .. Len(u) /\ x \in Real(u[Len(a) + p])
      BY <1>2, <3>1, Zenon
    <3> QED
      BY <1>4, <3>2, Zenon
  <2> QED
    BY <2>1, <2>2, <2>3, Zenon
<1>8. ASSUME Increase(a), Increase(b), Before(Lines(a), Lines(b)) PROVE Increase(u)
  <2>1. ASSUME NEW p \in 1 .. Len(u) PROVE Rising(u[p])
    BY <1>2, <1>5, <1>6, <1>8, Zenon
  <2>2. ASSUME NEW p \in 1 .. Len(u), NEW q \in 1 .. Len(u), p < q PROVE Before(Real(u[p]), Real(u[q]))
    <3>1. CASE p \in 1 .. Len(a) /\ u[p] = a[p] /\ q \in 1 .. Len(a) /\ u[q] = a[q]
      BY <1>5, <1>8, <2>2, <3>1, Zenon
    <3>2. CASE /\ p \in 1 .. Len(a) /\ u[p] = a[p]
               /\ q - Len(a) \in 1 .. Len(b) /\ u[q] = b[q - Len(a)]
      <4>1. Real(u[p]) \subseteq Lines(a) /\ Real(u[q]) \subseteq Lines(b)
        BY <1>5, <1>6, <3>2, Zenon
      <4> QED
        BY <1>8, <4>1, Zenon DEF Before
    <3>3. CASE /\ p - Len(a) \in 1 .. Len(b) /\ u[p] = b[p - Len(a)]
               /\ q - Len(a) \in 1 .. Len(b) /\ u[q] = b[q - Len(a)]
      <4>1. PICK i \in 1 .. Len(b), j \in 1 .. Len(b) : i = p - Len(a) /\ j = q - Len(a)
        BY <3>3, Zenon
      <4>2. i < j
        BY <1>3, <2>2, <4>1
      <4> QED
        BY <1>6, <1>8, <3>3, <4>1, <4>2, Zenon
    <3>4. ~(p - Len(a) \in 1 .. Len(b) /\ q \in 1 .. Len(a))
      BY <1>3, <2>2
    <3> QED
      BY <1>2, <3>1, <3>2, <3>3, <3>4, Zenon
  <2> QED
    BY <1>4, <2>1, <2>2, Zenon
<1>9. ASSUME Increase(u) PROVE Increase(a) /\ Increase(b) /\ Before(Lines(a), Lines(b))
  <2>1. /\ \A p \in 1 .. Len(u) : Rising(u[p])
        /\ \A p, q \in 1 .. Len(u) : p < q => Before(Real(u[p]), Real(u[q]))
    BY <1>4, <1>9, Zenon
  <2>2. Increase(a)
    BY <1>2, <1>5, <2>1, Zenon
  <2>3. Increase(b)
    <3>1. ASSUME NEW p \in 1 .. Len(b) PROVE Rising(b[p])
      BY <1>2, <2>1, Zenon
    <3>2. ASSUME NEW p \in 1 .. Len(b), NEW q \in 1 .. Len(b), p < q PROVE Before(Real(b[p]), Real(b[q]))
      <4>1. /\ Len(a) + p \in 1 .. Len(u) /\ u[Len(a) + p] = b[p]
            /\ Len(a) + q \in 1 .. Len(u) /\ u[Len(a) + q] = b[q]
        BY <1>2, Zenon
      <4>2. Len(a) + p < Len(a) + q
        BY <1>3, <3>2
      <4>3. Before(Real(u[Len(a) + p]), Real(u[Len(a) + q]))
        BY <2>1, <4>1, <4>2, Zenon
      <4> QED
        BY <4>1, <4>3, Zenon
    <3> QED
      BY <1>6, <3>1, <3>2, Zenon
  <2>4. ASSUME NEW x \in Lines(a), NEW y \in Lines(b) PROVE x < y
    <3>1. PICK p \in 1 .. Len(a) : x \in Real(a[p])
      BY <1>5, Zenon
    <3>2. PICK q \in 1 .. Len(b) : y \in Real(b[q])
      BY <1>6, Zenon
    <3>3. /\ p \in 1 .. Len(u) /\ u[p] = a[p]
          /\ Len(a) + q \in 1 .. Len(u) /\ u[Len(a) + q] = b[q]
      BY <1>2, Zenon
    <3>4. p < Len(a) + q
      BY <1>3
    <3>5. Before(Real(u[p]), Real(u[Len(a) + q]))
      BY <2>1, <3>3, <3>4, Zenon
    <3> QED
      BY <3>1, <3>2, <3>3, <3>5, Zenon DEF Before
  <2> QED
    BY <2>2, <2>3, <2>4, Zenon DEF Before
<1> QED
  BY <1>1, <1>7, <1>8, <1>9, Zenon

-----------------------------------------------------------------------------
(* The file. *)

FileType ==
  [m_count : Int, m_startOfPeriod : Int, m_lastRoll : Int, m_lastFlush : Int,
   writtenBytes : Int, stdio : Seq(Nat), disk : Seq(Nat), lost : Seq(Nat), rolled : Int]

Content(f) == f.disk \o f.stdio
Keeps(g, f) == g \in FileType /\ Content(g) = Content(f) /\ g.lost = f.lost

\* The empty text.
LEMMA NoLines ==
  /\ <<>> \in Seq(Nat) /\ <<>> \o <<>> = <<>> /\ Range(<<>>) = {} /\ Real(<<>>) = {} /\ Rising(<<>>)
  /\ \A s \in Seq(Nat) : s \o <<>> = s /\ <<>> \o s = s
BY DEF Range, Real, Rising

\* Flushing moves lines to the disk.
LEMMA FlushKeeps ==
  ASSUME NEW f \in FileType
  PROVE  Keeps(Flush(f), f)
<1>0. f.disk \in Seq(Nat) /\ f.stdio \in Seq(Nat) /\ <<>> \in Seq(Nat)
  BY NoLines, Zenon DEF FileType
<1>1. f.disk \o f.stdio \in Seq(Nat) /\ <<>> \in Seq(Nat)
  BY <1>0, JoinElements, Zenon
<1>2. PICK d \in Seq(Nat) : d = f.disk \o f.stdio
  BY <1>1, Zenon
<1>3. PICK e \in Seq(Nat) : e = <<>>
  BY <1>1, Zenon
<1>4. PICK g : g = [f EXCEPT !.disk = d, !.stdio = e]
  BY Zenon
<1>5. g \in FileType /\ g.disk = d /\ g.stdio = e /\ g.lost = f.lost
  BY <1>4, Zenon DEF FileType
<1>6. Flush(f) = g
  BY <1>2, <1>3, <1>4, Zenon DEF Flush
<1>7. d \o e = d
  BY <1>3, NoLines, Zenon
<1> QED
  BY <1>2, <1>5, <1>6, <1>7, Zenon DEF Keeps, Content

\* Rolling closes a file, which flushes it, and opens the next.
LEMMA RollKeeps ==
  ASSUME NEW f \in FileType, NEW t \in Int
  PROVE  Keeps(RollFile(f, t), f)
<1>1. CASE t <= f.m_lastRoll
  BY <1>1, Zenon DEF RollFile, Keeps
<1>2. CASE ~(t <= f.m_lastRoll)
  <2>1. PICK g \in FileType : g = Flush(f) /\ Content(g) = Content(f) /\ g.lost = f.lost
    BY FlushKeeps, Zenon DEF Keeps
  <2>2. PICK p \in Int : p = (t \div kRollPerSeconds) * kRollPerSeconds
    BY LogFileAssumption
  <2>3. f.writtenBytes \in Int /\ 0 \in Int
    BY DEF FileType
  <2>4. PICK h : h = [g EXCEPT !.m_lastRoll = t, !.m_lastFlush = t, !.m_startOfPeriod = p,
                               !.writtenBytes = 0, !.rolled = f.writtenBytes]
    BY Zenon
  <2>5. h \in FileType /\ h.disk = g.disk /\ h.stdio = g.stdio /\ h.lost = g.lost
    BY <2>3, <2>4, Zenon DEF FileType
  <2>6. RollFile(f, t) = h
    BY <1>2, <2>1, <2>2, <2>4, Zenon DEF RollFile
  <2> QED
    BY <2>1, <2>5, <2>6, Zenon DEF Keeps, Content
<1> QED
  BY <1>1, <1>2, Zenon

\* AppendFile::append adds the lines it writes and loses the rest.
LEMMA AppendToFileAdds ==
  ASSUME NEW f \in FileType, NEW lines \in Seq(Nat), NEW w \in 0 .. Len(lines)
  PROVE  LET g == AppendToFile(f, lines, w) IN
         /\ g \in FileType /\ Content(g) = Content(f) \o SubSeq(lines, 1, w)
         /\ g.lost = f.lost \o SubSeq(lines, w + 1, Len(lines))
<1>1. PICK a \in Seq(Nat) : a = SubSeq(lines, 1, w)
  BY CutSeq, Zenon
<1>2. PICK b \in Seq(Nat) : b = SubSeq(lines, w + 1, Len(lines))
  BY CutSeq, Zenon
<1>3. /\ f.disk \in Seq(Nat) /\ f.stdio \in Seq(Nat) /\ f.lost \in Seq(Nat) /\ f.writtenBytes \in Int
  BY Zenon DEF FileType
<1>4. PICK s \in Seq(Nat) : s = f.stdio \o a
  BY <1>3, JoinElements, Zenon
<1>5. PICK x \in Seq(Nat) : x = f.lost \o b
  BY <1>3, JoinElements, Zenon
<1>6. PICK n \in Int : n = IF w = Len(lines) THEN f.writtenBytes + w ELSE f.writtenBytes
  BY <1>3
<1>7. PICK g : g = [f EXCEPT !.stdio = s, !.writtenBytes = n, !.lost = x]
  BY Zenon
<1>8. g \in FileType /\ g.disk = f.disk /\ g.stdio = s /\ g.lost = x
  BY <1>7, Zenon DEF FileType
<1>9. AppendToFile(f, lines, w) = g
  BY <1>1, <1>2, <1>4, <1>5, <1>6, <1>7, Zenon DEF AppendToFile
<1>10. f.disk \o (f.stdio \o a) = (f.disk \o f.stdio) \o a
  <2>1. PICK d \in Seq(Nat), e \in Seq(Nat) : d = f.disk /\ e = f.stdio
    BY <1>3, Zenon
  <2>2. d \o (e \o a) = (d \o e) \o a
    BY JoinAssoc, ZenonT(60)
  <2> QED
    BY <2>1, <2>2, Zenon
<1> QED
  BY <1>1, <1>2, <1>4, <1>5, <1>8, <1>9, <1>10, Zenon DEF Content

\* LogFile::append, whether it rolls, flushes or neither.
LEMMA AppendAdds ==
  ASSUME NEW f \in FileType, NEW lines \in Seq(Nat), NEW w \in 0 .. Len(lines), NEW t \in Int,
         NEW first
  PROVE  LET g == AppendTo(f, lines, w, t, first) IN
         /\ g \in FileType /\ Content(g) = Content(f) \o SubSeq(lines, 1, w)
         /\ g.lost = f.lost \o SubSeq(lines, w + 1, Len(lines))
<1>1. PICK a \in FileType : a = AppendToFile(f, lines, w)
  BY AppendToFileAdds, Zenon
<1>2. /\ Content(a) = Content(f) \o SubSeq(lines, 1, w)
      /\ a.lost = f.lost \o SubSeq(lines, w + 1, Len(lines))
  BY <1>1, AppendToFileAdds, Zenon
<1>3. PICK r \in FileType : r = RollFile(a, t) /\ Keeps(r, a)
  BY RollKeeps, Zenon DEF Keeps
<1>4. PICK c : c = [r EXCEPT !.m_count = @ + 1]
  BY Zenon
<1>5. r.m_count + 1 \in Int /\ 0 \in Int
  <2>1. r.m_count \in Int
    BY Zenon DEF FileType
  <2> QED
    BY <2>1
<1>6. Keeps(c, r)
  <2>1. PICK n \in Int : n = r.m_count + 1
    BY <1>5, Zenon
  <2>2. c = [r EXCEPT !.m_count = n]
    BY <1>4, <2>1, Zenon
  <2>3. c \in FileType /\ c.disk = r.disk /\ c.stdio = r.stdio /\ c.lost = r.lost
    BY <2>2, Zenon DEF FileType
  <2> QED
    BY <2>3, Zenon DEF Keeps, Content
<1>7. PICK k : k = [c EXCEPT !.m_count = 0]
  BY Zenon
<1>8. Keeps(k, c)
  <2>1. c \in FileType
    BY <1>6, Zenon DEF Keeps
  <2>2. k \in FileType /\ k.disk = c.disk /\ k.stdio = c.stdio /\ k.lost = c.lost
    BY <1>5, <1>7, <2>1, Zenon DEF FileType
  <2> QED
    BY <2>2, Zenon DEF Keeps, Content
<1>9. PICK e : e = [k EXCEPT !.m_lastFlush = t]
  BY Zenon
<1>10. Keeps(e, k)
  <2>1. k \in FileType
    BY <1>8, Zenon DEF Keeps
  <2>2. e \in FileType /\ e.disk = k.disk /\ e.stdio = k.stdio /\ e.lost = k.lost
    BY <1>9, <2>1, Zenon DEF FileType
  <2> QED
    BY <2>2, Zenon DEF Keeps, Content
<1>11. Keeps(RollFile(r, t), r) /\ Keeps(RollFile(k, t), k) /\ Keeps(Flush(e), e)
  BY <1>8, <1>10, RollKeeps, FlushKeeps, Zenon DEF Keeps
<1>12. PICK g : g = AppendTo(f, lines, w, t, first)
  BY Zenon
<1>13. g \in {RollFile(r, t), c, RollFile(k, t), Flush(e), k}
  BY <1>1, <1>3, <1>4, <1>7, <1>9, <1>12, Zenon DEF AppendTo, AppendUnlocked
<1>14. Keeps(g, a)
  BY <1>3, <1>6, <1>8, <1>10, <1>11, <1>13, Zenon DEF Keeps
<1> QED
  BY <1>2, <1>12, <1>14, Zenon DEF Keeps

\* A file that has just been opened.
LEMMA OpenedEmpty ==
  ASSUME NEW t \in Int
  PROVE  Opened(t) \in FileType /\ Content(Opened(t)) = <<>> /\ Opened(t).lost = <<>>
<1>1. PICK f : f = [m_count |-> 0, m_startOfPeriod |-> 0, m_lastRoll |-> 0, m_lastFlush |-> 0,
                    writtenBytes |-> 0, stdio |-> <<>>, disk |-> <<>>, lost |-> <<>>, rolled |-> -1]
  BY Zenon
<1>2. f \in FileType /\ f.disk = <<>> /\ f.stdio = <<>> /\ f.lost = <<>>
  <2>1. 0 \in Int /\ -1 \in Int /\ <<>> \in Seq(Nat)
    OBVIOUS
  <2> QED
    BY <1>1, <2>1, ZenonT(60) DEF FileType
<1>3. PICK g \in FileType : g = RollFile(f, t) /\ Keeps(g, f)
  BY <1>2, RollKeeps, Zenon DEF Keeps
<1>4. PICK h : h = [g EXCEPT !.rolled = -1]
  BY Zenon
<1>5. -1 \in Int
  OBVIOUS
<1>6. h \in FileType /\ h.disk = g.disk /\ h.stdio = g.stdio /\ h.lost = g.lost
  BY <1>4, <1>5, Zenon DEF FileType
<1>7. Opened(t) = h
  BY <1>1, <1>3, <1>4, Zenon DEF Opened
<1>8. <<>> \o <<>> = <<>>
  OBVIOUS
<1> QED
  BY <1>2, <1>3, <1>6, <1>7, <1>8, Zenon DEF Keeps, Content

-----------------------------------------------------------------------------
(* The inductive invariant. *)

Pending == SubSeq(buffersToWrite, written + 1, Len(buffersToWrite))
Gone == dropped \cup Range(output.lost)

TypeOK ==
  /\ m_currentBuffer \in Seq(Nat) /\ m_buffers \in Seq(Seq(Nat)) /\ m_nextBuffer \in {<<>>, NoBuffer}
  /\ newBuffer1 \in {<<>>, NoBuffer} /\ newBuffer2 \in {<<>>, NoBuffer}
  /\ buffersToWrite \in Seq(Seq(Nat)) /\ written \in 0 .. Len(buffersToWrite)
  /\ output \in FileType /\ appended \in Nat /\ now \in Int /\ Gone \subseteq 0 .. appended

\* The buffers the thread has, at each place of its loop.
BuffersOK ==
  /\ ~aborted
  /\ Null(m_nextBuffer) => m_buffers # <<>>
  /\ pc \in {"none", "loop", "lock", "wait", "exited"} =>
       newBuffer1 = <<>> /\ newBuffer2 = <<>> /\ buffersToWrite = <<>>
  /\ pc \in {"drop", "write"} =>
       /\ Null(newBuffer1) /\ Len(buffersToWrite) >= 1
       /\ Null(newBuffer2) => Len(buffersToWrite) >= 2
  /\ pc = "drop" => written = 0
  /\ pc \in {"none", "loop", "lock", "wait", "exited", "drop", "write"}
  /\ main = "idle" => pc = "none" /\ Content(output) = <<>> /\ output.lost = <<>>

\* Four places, F, P, M and C, hold the lines up to n but for those in g.
Places(F, P, M, C, g, n) ==
  /\ Before(F, P) /\ Before(F, M) /\ Before(F, C)
  /\ Before(P, M) /\ Before(P, C) /\ Before(M, C)
  /\ F \cup P \cup M \cup C = (1 .. n) \ g

Ordered ==
  /\ Rising(Content(output)) /\ Increase(Pending)
  /\ Increase(m_buffers) /\ Rising(m_currentBuffer)

Placed == Places(Real(Content(output)), Lines(Pending), Lines(m_buffers), Real(m_currentBuffer),
                 Gone, appended)

LogInv == TypeOK /\ BuffersOK /\ Ordered /\ Placed

-----------------------------------------------------------------------------
(* How the lines may move between the places. *)

\* A line is appended to the current buffer.
LEMMA AppendPlaces ==
  ASSUME NEW F, NEW P, NEW M, NEW C, NEW g, NEW n \in Nat, Places(F, P, M, C, g, n), g \subseteq 0 .. n
  PROVE  /\ Places(F, P, M, C \cup {n + 1}, g, n + 1)
         /\ Places(F, P, M \cup C, {n + 1}, g, n + 1)
<1>1. F \cup P \cup M \cup C \subseteq 1 .. n
  BY Zenon DEF Places
<1>2. \A x \in 1 .. n : x < n + 1
  OBVIOUS
<1>3. Before(F, {n + 1}) /\ Before(P, {n + 1}) /\ Before(M, {n + 1}) /\ Before(C, {n + 1})
  BY <1>1, <1>2, Zenon DEF Before
<1>4. 1 .. (n + 1) = (1 .. n) \cup {n + 1} /\ n + 1 \notin 0 .. n
  OBVIOUS
<1>5. F \cup P \cup M \cup (C \cup {n + 1}) = (1 .. (n + 1)) \ g
  BY <1>4, Zenon DEF Places
<1>6. F \cup P \cup (M \cup C) \cup {n + 1} = (1 .. (n + 1)) \ g
  BY <1>5, Zenon
<1>7. /\ Before(F, C \cup {n + 1}) /\ Before(P, C \cup {n + 1}) /\ Before(M, C \cup {n + 1})
      /\ Before(F, M \cup C) /\ Before(P, M \cup C) /\ Before(M \cup C, {n + 1})
  BY <1>3, Zenon DEF Places, Before
<1> QED
  BY <1>3, <1>5, <1>6, <1>7, Zenon DEF Places

\* The buffers are swapped.
LEMMA SwapPlaces ==
  ASSUME NEW F, NEW M, NEW C, NEW g, NEW n, Places(F, {}, M, C, g, n)
  PROVE  Places(F, M \cup C, {}, {}, g, n)
BY Zenon DEF Places, Before

\* The last buffers to write are dropped.
LEMMA DropPlaces ==
  ASSUME NEW F, NEW A, NEW B, NEW M, NEW C, NEW g, NEW n \in Nat,
         Places(F, A \cup B, M, C, g, n), Before(A, B)
  PROVE  Places(F, A, M, C, g \cup B, n)
<1>1. F \cup (A \cup B) \cup M \cup C \subseteq Nat
  <2>1. F \cup (A \cup B) \cup M \cup C \subseteq 1 .. n
    BY Zenon DEF Places
  <2> QED
    BY <2>1
<1>2. \A x \in Nat : ~(x < x)
  OBVIOUS
<1>3. \A x \in B : x \notin F /\ x \notin A /\ x \notin M /\ x \notin C
  BY <1>1, <1>2, Zenon DEF Places, Before
<1>4. F \cup A \cup M \cup C = (1 .. n) \ (g \cup B)
  BY <1>3, Zenon DEF Places
<1> QED
  BY <1>4, Zenon DEF Places, Before

\* Of the first buffer to write, the lines A reach the file and Z are lost.
LEMMA WritePlaces ==
  ASSUME NEW F, NEW A, NEW Z, NEW R, NEW M, NEW C, NEW g, NEW n \in Nat,
         Places(F, (A \cup Z) \cup R, M, C, g, n), Before(A, Z), Before(A \cup Z, R)
  PROVE  Places(F \cup A, R, M, C, g \cup Z, n)
<1>1. F \cup ((A \cup Z) \cup R) \cup M \cup C \subseteq Nat
  <2>1. F \cup ((A \cup Z) \cup R) \cup M \cup C \subseteq 1 .. n
    BY Zenon DEF Places
  <2> QED
    BY <2>1
<1>2. \A x \in Nat : ~(x < x)
  OBVIOUS
<1>3. \A x \in Z : x \notin F /\ x \notin A /\ x \notin R /\ x \notin M /\ x \notin C
  BY <1>1, <1>2, Zenon DEF Places, Before
<1>4. (F \cup A) \cup R \cup M \cup C = (1 .. n) \ (g \cup Z)
  BY <1>3, Zenon DEF Places
<1> QED
  BY <1>4, Zenon DEF Places, Before

\* The notice is not a line.
LEMMA NoticeIsNone ==
  ASSUME NEW F, NEW P, NEW M, NEW C, NEW g, NEW n \in Nat
  PROVE  Places(F, P, M, C, g \cup {Notice}, n) <=> Places(F, P, M, C, g, n)
<1>1. 0 \notin 1 .. n
  OBVIOUS
<1>2. (1 .. n) \ (g \cup {Notice}) = (1 .. n) \ g
  BY <1>1, Zenon DEF Notice
<1> QED
  BY <1>2, Zenon DEF Places

\* A line put at the end of a buffer.
LEMMA LineAppended ==
  ASSUME NEW s \in Seq(Nat), NEW x \in Nat, x # Notice
  PROVE  /\ Append(s, x) \in Seq(Nat) /\ Real(Append(s, x)) = Real(s) \cup {x}
         /\ Rising(Append(s, x)) <=> Rising(s) /\ Before(Real(s), {x})
         /\ <<x>> \in Seq(Nat) /\ Real(<<x>>) = {x} /\ Rising(<<x>>)
<1>0. /\ <<x>> \in Seq(Nat) /\ Append(s, x) = s \o <<x>>
      /\ Len(<<x>>) = 1 /\ DOMAIN <<x>> = 1 .. 1 /\ <<x>>[1] = x
      /\ (\A i \in 1 .. 1 : i = 1) /\ (\A i, j \in 1 .. 1 : ~(i < j))
  OBVIOUS
<1>1. PICK t \in Seq(Nat) : t = <<x>> /\ Append(s, x) = s \o t
  BY <1>0, Zenon
<1>9. Range(t) = {x} /\ Rising(t)
  BY <1>0, <1>1 DEF Range, Rising
<1>2. Real(t) = {x}
  BY <1>9, Zenon DEF Real
<1>3. PICK u \in Seq(Nat) : u = s \o t /\ u = Append(s, x)
  BY <1>1, JoinElements, Zenon
<1>4. Range(u) = Range(s) \cup Range(t) /\ (Rising(u) <=> Rising(s) /\ Rising(t) /\ Before(Real(s), Real(t)))
  <2>1. /\ Range(s \o t) = Range(s) \cup Range(t)
        /\ Rising(s \o t) <=> Rising(s) /\ Rising(t) /\ Before(Real(s), Real(t))
    BY RisingJoined
  <2> QED
    BY <1>3, <2>1, Zenon
<1>5. Real(u) = Real(s) \cup {x}
  BY <1>4, <1>9, Zenon DEF Real
<1> QED
  BY <1>1, <1>2, <1>3, <1>4, <1>5, <1>9, Zenon

\* A buffer put at the end of a sequence of buffers.
LEMMA BufferAppended ==
  ASSUME NEW a \in Seq(Seq(Nat)), NEW s \in Seq(Nat)
  PROVE  /\ Append(a, s) \in Seq(Seq(Nat)) /\ Len(Append(a, s)) = Len(a) + 1 /\ Append(a, s) # <<>>
         /\ Lines(Append(a, s)) = Lines(a) \cup Real(s)
         /\ Increase(Append(a, s)) <=> Increase(a) /\ Rising(s) /\ Before(Lines(a), Real(s))
<1>0. <<s>> \in Seq(Seq(Nat)) /\ Append(a, s) = a \o <<s>> /\ Len(<<s>>) = 1
  OBVIOUS
<1>1. PICK b \in Seq(Seq(Nat)) : b = <<s>> /\ Append(a, s) = a \o b /\ Len(b) = 1
  BY <1>0, Zenon
<1>2. Lines(b) = Real(s) /\ (Increase(b) <=> Rising(s))
  BY <1>1, OneBuffer, Zenon
<1>3. PICK c \in Seq(Seq(Nat)) : c = a \o b /\ c = Append(a, s) /\ Len(c) = Len(a) + Len(b)
  <2>1. a \o b \in Seq(Seq(Nat)) /\ Len(a \o b) = Len(a) + Len(b)
    BY JoinElements
  <2> QED
    BY <1>1, <2>1, Zenon
<1>5. Len(c) = Len(a) + 1 /\ c # <<>>
  BY <1>1, <1>3
<1>4. Lines(c) = Lines(a) \cup Lines(b) /\ (Increase(c) <=> Increase(a) /\ Increase(b) /\ Before(Lines(a), Lines(b)))
  <2>1. /\ Lines(a \o b) = Lines(a) \cup Lines(b)
        /\ Increase(a \o b) <=> Increase(a) /\ Increase(b) /\ Before(Lines(a), Lines(b))
    BY BuffersJoined
  <2> QED
    BY <1>3, <2>1, Zenon
<1> QED
  BY <1>2, <1>3, <1>4, <1>5, Zenon

\* The buffers that are still to be written.
LEMMA PendingFields ==
  ASSUME NEW b \in Seq(Seq(Nat)), NEW w \in 0 .. Len(b)
  PROVE  /\ SubSeq(b, w + 1, Len(b)) \in Seq(Seq(Nat))
         /\ w = 0 => SubSeq(b, w + 1, Len(b)) = b
         /\ b = <<>> => SubSeq(b, w + 1, Len(b)) = <<>>
         /\ w = Len(b) => SubSeq(b, w + 1, Len(b)) = <<>>
         /\ w < Len(b) => /\ b[w + 1] \in Seq(Nat)
                          /\ SubSeq(b, w + 1, Len(b)) = <<b[w + 1]>> \o SubSeq(b, w + 2, Len(b))
<1>1. SubSeq(b, w + 1, Len(b)) \in Seq(Seq(Nat))
  BY CutSeq, Zenon
<1>2. ASSUME w = 0 PROVE SubSeq(b, w + 1, Len(b)) = b
  <2>1. w + 1 = 1
    BY <1>2
  <2> QED
    BY <2>1, SubSeqFull, Zenon
<1>3. ASSUME w = Len(b) PROVE SubSeq(b, w + 1, Len(b)) = <<>>
  <2>1. w + 1 \in Int /\ Len(b) \in Int /\ Len(b) < w + 1
    BY <1>3
  <2> QED
    BY <2>1, SubSeqEmpty, Zenon
<1>4. b = <<>> => w = Len(b)
  OBVIOUS
<1>5. ASSUME w < Len(b)
      PROVE  /\ b[w + 1] \in Seq(Nat)
             /\ SubSeq(b, w + 1, Len(b)) = <<b[w + 1]>> \o SubSeq(b, w + 2, Len(b))
  <2>1. PICK m \in 1 .. Len(b) : m = w + 1 /\ m + 1 = w + 2 /\ Len(b) \in m .. Len(b)
    BY <1>5
  <2>2. SubSeq(b, m, Len(b)) = <<b[m]>> \o SubSeq(b, m + 1, Len(b))
    BY <2>1, SubSeqRecursiveFirst, Zenon
  <2>3. b[m] \in Seq(Nat)
    OBVIOUS
  <2> QED
    BY <2>1, <2>2, <2>3, Zenon
<1> QED
  BY <1>1, <1>2, <1>3, <1>4, <1>5, Zenon

\* A null buffer is not an empty one.
LEMMA NullIsNone == NoBuffer # <<>>
BY DEF NoBuffer

-----------------------------------------------------------------------------
(* The steps. *)

\* Before start() everything is empty.
LEMMA InitLog ==
  ASSUME Init
  PROVE  LogInv
<1>0. <<>> \in Seq(Nat) /\ <<>> \in Seq(Seq(Nat)) /\ Len(<<>>) = 0
  OBVIOUS
<1>1. PICK e : e = <<>> /\ e \in Seq(Nat) /\ e \in Seq(Seq(Nat)) /\ Len(e) = 0
  BY <1>0, Zenon
<1>2. PICK t \in Int : t = 1 /\ now = t
  BY DEF Init
<1>3. output \in FileType /\ Content(output) = e /\ output.lost = e
  BY <1>1, <1>2, OpenedEmpty, Zenon DEF Init
<1>4. Real(e) = {} /\ Range(e) = {} /\ Rising(e)
  BY <1>1, NoLines, Zenon
<1>5. Lines(e) = {} /\ Increase(e)
  BY <1>1, NoBuffers, Zenon
<1>6. PICK z \in 0 .. Len(e) : z = 0 /\ written = z
  BY <1>1 DEF Init
<1>7. Pending = e
  <2>1. z = 0 => SubSeq(e, z + 1, Len(e)) = e
    BY <1>1, PendingFields, Zenon
  <2> QED
    BY <1>1, <1>6, <2>1, Zenon DEF Pending, Init
<1>8. Gone = {}
  BY <1>3, <1>4, Zenon DEF Gone, Init
<1>9. appended = 0 /\ 0 \in Nat /\ 1 .. 0 = {}
  BY DEF Init
<1>10. TypeOK
  BY <1>1, <1>2, <1>3, <1>6, <1>8, <1>9, Zenon DEF TypeOK, Init
<1>11. BuffersOK
  <2>1. PICK p : p = pc /\ p = "none" /\ p # "drop" /\ p # "write"
    BY DEF Init
  <2> QED
    BY <1>1, <1>3, <2>1, NullIsNone, Zenon DEF BuffersOK, Init, Null
<1>12. Ordered
  BY <1>1, <1>3, <1>4, <1>5, <1>7, Zenon DEF Ordered, Init
<1>13. Placed
  BY <1>1, <1>3, <1>4, <1>5, <1>7, <1>8, <1>9, Zenon DEF Placed, Places, Before, Init
<1> QED
  BY <1>10, <1>11, <1>12, <1>13, Zenon DEF LogInv

\* append(), into the current buffer or the next one.
LEMMA AppendLog ==
  ASSUME LogInv, AppendLine
  PROVE  LogInv'
<1>1. /\ m_currentBuffer \in Seq(Nat) /\ m_buffers \in Seq(Seq(Nat)) /\ appended \in Nat
      /\ Gone \subseteq 0 .. appended
  BY Zenon DEF LogInv, TypeOK
<1>2. PICK x \in Nat : x = appended + 1 /\ x # Notice /\ Gone \subseteq 0 .. x
  <2>1. appended + 1 \in Nat /\ appended + 1 # 0 /\ \A y \in 0 .. appended : y \in 0 .. (appended + 1)
    BY <1>1
  <2> QED
    BY <1>1, <2>1, Zenon DEF Notice
<1>3. /\ appended' = x /\ Pending' = Pending /\ Gone' = Gone /\ Content(output)' = Content(output)
      /\ output' = output /\ buffersToWrite' = buffersToWrite
  BY <1>2, Zenon DEF AppendLine, local, Pending, Gone
<1>4. /\ Places(Real(Content(output)), Lines(Pending), Lines(m_buffers), Real(m_currentBuffer) \cup {x},
                Gone, x)
      /\ Places(Real(Content(output)), Lines(Pending), Lines(m_buffers) \cup Real(m_currentBuffer), {x},
                Gone, x)
  BY <1>1, <1>2, AppendPlaces, Zenon DEF LogInv, Placed
<1>5. Before(Real(m_currentBuffer), {x})
  BY <1>4, Zenon DEF Places, Before
<1>6. CASE Fits(m_currentBuffer)
  <2>1. /\ m_currentBuffer' = Append(m_currentBuffer, x)
        /\ m_nextBuffer' = m_nextBuffer /\ m_buffers' = m_buffers
    BY <1>3, <1>6, Zenon DEF AppendLine
  <2>2. /\ m_currentBuffer' \in Seq(Nat) /\ Real(m_currentBuffer') = Real(m_currentBuffer) \cup {x}
        /\ Rising(m_currentBuffer')
    BY <1>1, <1>2, <1>5, <2>1, LineAppended, Zenon DEF LogInv, Ordered
  <2>3. TypeOK'
    BY <1>2, <1>3, <2>1, <2>2, Zenon DEF LogInv, TypeOK, AppendLine, local, world
  <2>4. BuffersOK'
    BY <1>3, <2>1, Zenon DEF LogInv, BuffersOK, AppendLine, local
  <2>5. Ordered' /\ Placed'
    BY <1>3, <1>4, <2>1, <2>2, Zenon DEF LogInv, Ordered, Placed
  <2> QED
    BY <2>3, <2>4, <2>5, Zenon DEF LogInv
<1>7. CASE ~Fits(m_currentBuffer)
  <2>1. /\ m_buffers' = Append(m_buffers, m_currentBuffer) /\ m_currentBuffer' = <<x>>
        /\ m_nextBuffer' = NoBuffer
    BY <1>3, <1>7, Zenon DEF AppendLine
  <2>2. m_currentBuffer' \in Seq(Nat) /\ Real(m_currentBuffer') = {x} /\ Rising(m_currentBuffer')
    BY <1>1, <1>2, <2>1, LineAppended, Zenon
  <2>3. /\ m_buffers' \in Seq(Seq(Nat)) /\ m_buffers' # <<>>
        /\ Lines(m_buffers') = Lines(m_buffers) \cup Real(m_currentBuffer)
        /\ Increase(m_buffers')
    BY <1>1, <2>1, BufferAppended, Zenon DEF LogInv, Ordered, Placed, Places
  <2>4. TypeOK'
    BY <1>2, <1>3, <2>1, <2>2, <2>3, Zenon DEF LogInv, TypeOK, AppendLine, local, world
  <2>5. BuffersOK'
    BY <1>3, <2>3, Zenon DEF LogInv, BuffersOK, AppendLine, local
  <2>6. Ordered' /\ Placed'
    BY <1>3, <1>4, <2>2, <2>3, Zenon DEF LogInv, Ordered, Placed
  <2> QED
    BY <2>4, <2>5, <2>6, Zenon DEF LogInv
<1> QED
  BY <1>6, <1>7, Zenon

\* A step that moves no line.
LEMMA SameLines ==
  ASSUME LogInv, m_currentBuffer' = m_currentBuffer, m_buffers' = m_buffers, Pending' = Pending,
         Content(output') = Content(output), output'.lost = output.lost,
         appended' = appended, dropped' = dropped
  PROVE  Ordered' /\ Placed' /\ Gone' = Gone
<1>1. Gone' = Gone
  BY Zenon DEF Gone
<1>2. Ordered'
  BY Zenon DEF LogInv, Ordered
<1>3. Placed'
  BY <1>1, Zenon DEF LogInv, Placed
<1> QED
  BY <1>1, <1>2, <1>3, Zenon

\* The thread takes all buffers and leaves its two empty ones.
LEMMA SwapLog ==
  ASSUME LogInv, SwapBuffers, pc \in {"lock", "wait"}, pc' = "drop", written' = written,
         UNCHANGED <<main, output, appended, dropped, world, aborted>>
  PROVE  LogInv'
<1>1. /\ m_currentBuffer \in Seq(Nat) /\ m_buffers \in Seq(Seq(Nat)) /\ m_nextBuffer \in {<<>>, NoBuffer}
      /\ written \in 0 .. Len(buffersToWrite)
  BY Zenon DEF LogInv, TypeOK
<1>2. /\ newBuffer1 = <<>> /\ newBuffer2 = <<>> /\ buffersToWrite = <<>> /\ ~aborted
      /\ Null(m_nextBuffer) => m_buffers # <<>>
      /\ main # "idle"
  BY DEF LogInv, BuffersOK
<1>3. PICK c : c = <<>> /\ c \in Seq(Nat) /\ c \in Seq(Seq(Nat)) /\ Len(c) = 0
  <2>1. <<>> \in Seq(Nat) /\ <<>> \in Seq(Seq(Nat)) /\ Len(<<>>) = 0
    OBVIOUS
  <2> QED
    BY <2>1, Zenon
<1>4. PICK b \in Seq(Seq(Nat)) : b = Append(m_buffers, m_currentBuffer) /\ Len(b) = Len(m_buffers) + 1
  BY <1>1, BufferAppended, Zenon
<1>5. /\ buffersToWrite' = b /\ m_buffers' = c /\ m_currentBuffer' = c /\ newBuffer1' = NoBuffer
      /\ m_nextBuffer' = c /\ newBuffer2' \in {<<>>, NoBuffer}
      /\ Null(newBuffer2') => m_buffers # <<>>
  BY <1>1, <1>2, <1>3, <1>4, NullIsNone, Zenon DEF SwapBuffers, Null
<1>6. /\ Lines(b) = Lines(m_buffers) \cup Real(m_currentBuffer)
      /\ Increase(b)
  BY <1>1, <1>4, BufferAppended, Zenon DEF LogInv, Ordered, Placed, Places
<1>7. PICK z \in Nat : z = 0 /\ z \in 0 .. Len(b) /\ z \in 0 .. Len(c) /\ written = z
  BY <1>1, <1>2, <1>3
<1>8. Pending = c
  <2>1. SubSeq(c, z + 1, Len(c)) = c
    BY <1>3, <1>7, PendingFields, Zenon
  <2> QED
    BY <1>2, <1>3, <1>7, <2>1, Zenon DEF Pending
<1>9. Pending' = b
  <2>1. SubSeq(b, z + 1, Len(b)) = b
    BY <1>7, PendingFields, Zenon
  <2> QED
    BY <1>5, <1>7, <2>1, Zenon DEF Pending
<1>10. Lines(c) = {} /\ Increase(c) /\ Real(c) = {} /\ Rising(c)
  BY <1>3, NoBuffers, NoLines, Zenon
<1>11. Gone' = Gone /\ output' = output /\ appended' = appended /\ now' = now /\ main' = main
       /\ aborted' = aborted /\ written' = z
  BY <1>7, Zenon DEF Gone, world
<1>12. TypeOK'
  BY <1>3, <1>5, <1>7, <1>11, Zenon DEF LogInv, TypeOK
<1>13. Len(b) >= 1 /\ (m_buffers # <<>> => Len(b) >= 2)
  BY <1>1, <1>4
<1>14. BuffersOK'
  <2>1. PICK p : p = pc' /\ p = "drop" /\ p \notin {"none", "loop", "lock", "wait", "exited"}
    OBVIOUS
  <2>2. /\ ~aborted' /\ (Null(m_nextBuffer') => m_buffers' # <<>>)
        /\ written' = 0 /\ main' # "idle"
    <3>1. m_nextBuffer' # NoBuffer
      BY <1>3, <1>5, NullIsNone, Zenon
    <3>2. ~aborted' /\ written' = 0 /\ main' # "idle"
      BY <1>2, <1>7, <1>11
    <3> QED
      BY <3>1, <3>2, Zenon DEF Null
  <2>3. /\ Null(newBuffer1') /\ Len(buffersToWrite') >= 1
        /\ Null(newBuffer2') => Len(buffersToWrite') >= 2
    BY <1>5, <1>13, Zenon DEF Null
  <2> QED
    BY <2>1, <2>2, <2>3, Zenon DEF BuffersOK
<1>15. Ordered'
  BY <1>5, <1>6, <1>9, <1>10, <1>11, Zenon DEF LogInv, Ordered
<1>16. Placed'
  <2>1. Places(Real(Content(output)), Lines(m_buffers) \cup Real(m_currentBuffer), {}, {}, Gone, appended)
    BY <1>8, <1>10, SwapPlaces, Zenon DEF LogInv, Placed
  <2> QED
    BY <1>5, <1>6, <1>9, <1>10, <1>11, <2>1, Zenon DEF Placed
<1> QED
  BY <1>12, <1>14, <1>15, <1>16, Zenon DEF LogInv

\* output.append() of lines: a reach the file, z are lost.
LEMMA OutputAdds ==
  ASSUME output \in FileType, now \in Int, NEW lines \in Seq(Nat), NEW first, NEW lost,
         Output(lines, first, lost)
  PROVE  \E a, z \in Seq(Nat) :
           /\ a \o z = lines /\ output' \in FileType /\ Content(output') = Content(output) \o a
           /\ output'.lost = output.lost \o z
<1>1. PICK w \in 0 .. Len(lines) : w = Len(lines) - lost
  <2>1. lost \in 0 .. Len(lines)
    BY Zenon DEF Output
  <2>2. Len(lines) - lost \in 0 .. Len(lines)
    BY <2>1
  <2> QED
    BY <2>2, Zenon
<1>2. output' = AppendTo(output, lines, w, now, first)
  BY <1>1, Zenon DEF Output
<1>3. PICK a \in Seq(Nat), z \in Seq(Nat) :
         a = SubSeq(lines, 1, w) /\ z = SubSeq(lines, w + 1, Len(lines)) /\ a \o z = lines
  <2>1. /\ SubSeq(lines, 1, w) \in Seq(Nat) /\ SubSeq(lines, w + 1, Len(lines)) \in Seq(Nat)
        /\ SubSeq(lines, 1, w) \o SubSeq(lines, w + 1, Len(lines)) = lines
    <3>1. SubSeq(lines, 1, w) \in Seq(Nat) /\ SubSeq(lines, w + 1, Len(lines)) \in Seq(Nat)
      BY CutSeq, Zenon
    <3>2. SubSeq(lines, 1, w) \o SubSeq(lines, w + 1, Len(lines)) = lines
      BY CutSeq, Zenon
    <3> QED
      BY <3>1, <3>2, Zenon
  <2> QED
    BY <2>1, Zenon
<1>4. /\ output' \in FileType /\ Content(output') = Content(output) \o SubSeq(lines, 1, w)
      /\ output'.lost = output.lost \o SubSeq(lines, w + 1, Len(lines))
  BY <1>2, AppendAdds, ZenonT(60)
<1> QED
  BY <1>3, <1>4, Zenon

\* Two parts of a text.
LEMMA TextCut ==
  ASSUME NEW a \in Seq(Nat), NEW z \in Seq(Nat), NEW s, s = a \o z
  PROVE  /\ Real(s) = Real(a) \cup Real(z) /\ Range(s) = Range(a) \cup Range(z)
         /\ Rising(s) => Rising(a) /\ Rising(z) /\ Before(Real(a), Real(z))
         /\ Rising(a) /\ Rising(z) /\ Before(Real(a), Real(z)) => Rising(s)
<1>1. /\ Range(a \o z) = Range(a) \cup Range(z)
      /\ Rising(a \o z) <=> Rising(a) /\ Rising(z) /\ Before(Real(a), Real(z))
  BY RisingJoined
<1>2. /\ Range(s) = Range(a) \cup Range(z)
      /\ Rising(s) <=> Rising(a) /\ Rising(z) /\ Before(Real(a), Real(z))
  BY <1>1, Zenon
<1>3. Real(s) = Real(a) \cup Real(z)
  BY <1>2, Zenon DEF Real
<1> QED
  BY <1>2, <1>3, Zenon

\* The buffers beyond the second are dropped, and a notice is written.
LEMMA DropLog ==
  ASSUME LogInv, NEW first, NEW lost, DropBuffers(first, lost)
  PROVE  LogInv'
<1>1. /\ buffersToWrite \in Seq(Seq(Nat)) /\ output \in FileType /\ now \in Int /\ appended \in Nat
      /\ Gone \subseteq 0 .. appended /\ written \in 0 .. Len(buffersToWrite)
  BY Zenon DEF LogInv, TypeOK
<1>2. /\ pc = "drop" /\ pc' = "write" /\ m_currentBuffer' = m_currentBuffer /\ m_buffers' = m_buffers
      /\ m_nextBuffer' = m_nextBuffer /\ newBuffer1' = newBuffer1 /\ newBuffer2' = newBuffer2
      /\ written' = written /\ main' = main /\ appended' = appended /\ now' = now /\ aborted' = aborted
  BY Zenon DEF DropBuffers, shared
<1>3. /\ written = 0 /\ Null(newBuffer1) /\ Len(buffersToWrite) >= 1 /\ main # "idle"
      /\ Null(newBuffer2) => Len(buffersToWrite) >= 2
  BY <1>2 DEF LogInv, BuffersOK
<1>4. ASSUME Len(buffersToWrite') >= 1, Len(buffersToWrite) >= 2 => Len(buffersToWrite') >= 2
      PROVE  BuffersOK'
  <2>1. PICK p : p = pc' /\ p = "write" /\ p \notin {"none", "loop", "lock", "wait", "exited"} /\ p # "drop"
    BY <1>2
  <2>2. ~aborted' /\ (Null(m_nextBuffer') => m_buffers' # <<>>) /\ main' # "idle"
    BY <1>2, <1>3, Zenon DEF LogInv, BuffersOK
  <2>3. /\ Null(newBuffer1') /\ Len(buffersToWrite') >= 1
        /\ Null(newBuffer2') => Len(buffersToWrite') >= 2
    BY <1>2, <1>3, <1>4, Zenon
  <2> QED
    BY <2>1, <2>2, <2>3, Zenon DEF BuffersOK
<1>5. CASE ~(Len(buffersToWrite) > MaxBuffers)
  <2>1. dropped' = dropped /\ buffersToWrite' = buffersToWrite /\ output' = output
    BY <1>5, Zenon DEF DropBuffers
  <2>2. Pending' = Pending
    BY <1>2, <2>1, Zenon DEF Pending
  <2>3. Ordered' /\ Placed' /\ Gone' = Gone
    BY <1>2, <2>1, <2>2, SameLines, Zenon
  <2>4. TypeOK'
    BY <1>2, <2>1, <2>3, Zenon DEF LogInv, TypeOK
  <2>5. BuffersOK'
    BY <1>3, <1>4, <2>1, Zenon
  <2> QED
    BY <2>3, <2>4, <2>5, Zenon DEF LogInv
<1>6. CASE Len(buffersToWrite) > MaxBuffers
  <2>1. /\ dropped' = dropped \cup Lines(SubSeq(buffersToWrite, 3, Len(buffersToWrite)))
        /\ Output(<<Notice>>, first, lost) /\ buffersToWrite' = SubSeq(buffersToWrite, 1, 2)
    BY <1>6, Zenon DEF DropBuffers
  <2>2. PICK k \in 0 .. Len(buffersToWrite) : k = 2 /\ k + 1 = 3
    <3>1. 2 \in 0 .. Len(buffersToWrite) /\ 2 + 1 = 3
      BY <1>1, <1>6, AsyncLoggingAssumption
    <3> QED
      BY <3>1, Zenon
  <2>3. PICK A \in Seq(Seq(Nat)), B \in Seq(Seq(Nat)) :
          /\ A = SubSeq(buffersToWrite, 1, 2) /\ B = SubSeq(buffersToWrite, 3, Len(buffersToWrite))
          /\ A \o B = buffersToWrite
    <3>1. /\ SubSeq(buffersToWrite, 1, k) \in Seq(Seq(Nat))
          /\ SubSeq(buffersToWrite, k + 1, Len(buffersToWrite)) \in Seq(Seq(Nat))
          /\ SubSeq(buffersToWrite, 1, k) \o SubSeq(buffersToWrite, k + 1, Len(buffersToWrite)) = buffersToWrite
      <4>1. PICK S : S = Seq(Nat)
        BY Zenon
      <4>2. buffersToWrite \in Seq(S)
        BY <1>1, <4>1, Zenon
      <4>3. /\ SubSeq(buffersToWrite, 1, k) \in Seq(S)
            /\ SubSeq(buffersToWrite, k + 1, Len(buffersToWrite)) \in Seq(S)
        BY <4>2, CutSeq, Zenon
      <4>4. SubSeq(buffersToWrite, 1, k) \o SubSeq(buffersToWrite, k + 1, Len(buffersToWrite)) = buffersToWrite
        BY <4>2, CutSeq, Zenon
      <4> QED
        BY <4>1, <4>3, <4>4, Zenon
    <3> QED
      BY <2>2, <3>1, Zenon
  <2>4. Len(A) = 2
    <3>1. PICK m \in 0 .. Len(buffersToWrite) : m = 0 /\ k \in m .. Len(buffersToWrite) /\ m + 1 = 1
      <4>1. 0 \in 0 .. Len(buffersToWrite) /\ k \in 0 .. Len(buffersToWrite) /\ 0 + 1 = 1
        BY <1>1, <2>2
      <4> QED
        BY <4>1, Zenon
    <3>2. Len(SubSeq(buffersToWrite, m + 1, k)) = k - m
      BY <1>1, <3>1, PartOfSeq
    <3>3. Len(A) = k - m
      BY <2>2, <2>3, <3>1, <3>2, Zenon
    <3> QED
      BY <2>2, <3>1, <3>3
  <2>5. /\ Lines(buffersToWrite) = Lines(A) \cup Lines(B)
        /\ Increase(buffersToWrite) <=> Increase(A) /\ Increase(B) /\ Before(Lines(A), Lines(B))
    <3>1. /\ Lines(A \o B) = Lines(A) \cup Lines(B)
          /\ Increase(A \o B) <=> Increase(A) /\ Increase(B) /\ Before(Lines(A), Lines(B))
      BY BuffersJoined
    <3> QED
      BY <2>3, <3>1, Zenon
  <2>6. Pending = buffersToWrite
    BY <1>1, <1>3, PendingFields, Zenon DEF Pending
  <2>7. PICK z \in 0 .. Len(A) : z = 0 /\ written' = z
    <3>1. 0 \in 0 .. Len(A)
      BY <2>4
    <3> QED
      BY <1>2, <1>3, <3>1, Zenon
  <2>8. Pending' = A
    <3>1. SubSeq(A, z + 1, Len(A)) = A
      BY <2>7, PendingFields, Zenon
    <3> QED
      BY <2>1, <2>3, <2>7, <3>1, Zenon DEF Pending
  <2>9. Increase(A) /\ Before(Lines(A), Lines(B))
    BY <2>5, <2>6, Zenon DEF LogInv, Ordered
  <2>10. PICK s \in Seq(Nat) : s = <<Notice>> /\ Range(s) = {Notice} /\ Rising(s)
    <3>1. /\ <<Notice>> \in Seq(Nat) /\ DOMAIN <<Notice>> = 1 .. 1 /\ <<Notice>>[1] = Notice
          /\ \A i \in 1 .. 1 : i = 1
      BY DEF Notice
    <3>2. PICK s \in Seq(Nat) : s = <<Notice>>
      BY <3>1, Zenon
    <3>3. Range(s) = {Notice} /\ Rising(s)
      BY <3>1, <3>2 DEF Range, Rising
    <3> QED
      BY <3>2, <3>3, Zenon
  <2>11. PICK a \in Seq(Nat), y \in Seq(Nat) :
           /\ a \o y = s /\ output' \in FileType /\ Content(output') = Content(output) \o a
           /\ output'.lost = output.lost \o y
    BY <1>1, <2>1, <2>10, OutputAdds, Zenon
  <2>12. Range(a) \subseteq {Notice} /\ Range(y) \subseteq {Notice} /\ Rising(a) /\ Real(a) = {}
    <3>1. PICK t : t = a \o y /\ t = s
      BY <2>11, Zenon
    <3>2. Range(t) = Range(a) \cup Range(y) /\ (Rising(t) => Rising(a))
      BY <3>1, TextCut, ZenonT(60)
    <3> QED
      BY <2>10, <3>1, <3>2, Zenon DEF Real
  <2>13. Content(output) \in Seq(Nat) /\ output.lost \in Seq(Nat)
    <3>1. output.disk \in Seq(Nat) /\ output.stdio \in Seq(Nat) /\ output.lost \in Seq(Nat)
      BY <1>1, Zenon DEF FileType
    <3> QED
      BY <3>1, JoinElements, Zenon DEF Content
  <2>14. Real(Content(output')) = Real(Content(output)) /\ Rising(Content(output'))
    <3>1. PICK c, t : c \in Seq(Nat) /\ c = Content(output) /\ t = c \o a /\ t = Content(output')
      BY <2>11, <2>13, Zenon
    <3>2. /\ Real(t) = Real(c) \cup Real(a)
          /\ Rising(c) /\ Rising(a) /\ Before(Real(c), Real(a)) => Rising(t)
      BY <3>1, TextCut, ZenonT(60)
    <3>3. Before(Real(c), Real(a)) /\ Rising(c)
      BY <2>12, <3>1, Zenon DEF LogInv, Ordered, Before
    <3> QED
      BY <2>12, <3>1, <3>2, <3>3, Zenon
  <2>15. Range(output'.lost) = Range(output.lost) \cup Range(y)
    <3>1. PICK c, t : c \in Seq(Nat) /\ c = output.lost /\ t = c \o y /\ t = output'.lost
      BY <2>11, <2>13, Zenon
    <3>2. Range(t) = Range(c) \cup Range(y)
      BY <3>1, TextCut, ZenonT(60)
    <3> QED
      BY <3>1, <3>2, Zenon
  <2>16. Gone' \cup {Notice} = (Gone \cup Lines(B)) \cup {Notice}
    BY <2>1, <2>3, <2>12, <2>15, Zenon DEF Gone
  <2>17. /\ Places(Real(Content(output)), Lines(A), Lines(m_buffers), Real(m_currentBuffer),
                   Gone \cup Lines(B), appended)
         /\ Lines(B) \subseteq 1 .. appended
    <3>1. Places(Real(Content(output)), Lines(A) \cup Lines(B), Lines(m_buffers), Real(m_currentBuffer),
                 Gone, appended)
      BY <2>5, <2>6, Zenon DEF LogInv, Placed
    <3>2. Places(Real(Content(output)), Lines(A), Lines(m_buffers), Real(m_currentBuffer),
                 Gone \cup Lines(B), appended)
      BY <1>1, <2>9, <3>1, DropPlaces, Zenon
    <3>3. Lines(B) \subseteq 1 .. appended
      BY <3>1, Zenon DEF Places
    <3> QED
      BY <3>2, <3>3, Zenon
  <2>18. Places(Real(Content(output)), Lines(A), Lines(m_buffers), Real(m_currentBuffer), Gone', appended)
    <3>1. PICK n \in Nat : n = appended
      BY <1>1, Zenon
    <3>2. PICK g, h : g = Gone \cup Lines(B) /\ h = Gone'
      BY Zenon
    <3>3. Places(Real(Content(output)), Lines(A), Lines(m_buffers), Real(m_currentBuffer), g \cup {Notice}, n)
      BY <2>17, <3>1, <3>2, NoticeIsNone, Zenon
    <3>4. Places(Real(Content(output)), Lines(A), Lines(m_buffers), Real(m_currentBuffer), h \cup {Notice}, n)
      BY <2>16, <3>2, <3>3, Zenon
    <3> QED
      BY <3>1, <3>2, <3>4, NoticeIsNone, Zenon
  <2>19. Ordered' /\ Placed'
    BY <1>2, <2>8, <2>9, <2>14, <2>18, Zenon DEF LogInv, Ordered, Placed
  <2>20. Gone' \subseteq 0 .. appended'
    <3>1. 0 \in 0 .. appended /\ 1 .. appended \subseteq 0 .. appended
      BY <1>1
    <3> QED
      BY <1>1, <1>2, <2>16, <2>17, <3>1, Zenon DEF Notice
  <2>21. TypeOK'
    BY <1>2, <2>1, <2>3, <2>7, <2>11, <2>20, Zenon DEF LogInv, TypeOK
  <2>22. BuffersOK'
    <3>1. Len(buffersToWrite') = 2 /\ 2 >= 1 /\ 2 >= 2
      BY <2>1, <2>3, <2>4
    <3> QED
      BY <1>4, <3>1, Zenon
  <2> QED
    BY <2>19, <2>21, <2>22, Zenon DEF LogInv
<1> QED
  BY <1>5, <1>6, Zenon

\* The next buffer is written, perhaps in part.
LEMMA WriteLog ==
  ASSUME LogInv, NEW first, NEW lost, WriteBuffer(first, lost)
  PROVE  LogInv'
<1>1. /\ buffersToWrite \in Seq(Seq(Nat)) /\ output \in FileType /\ now \in Int /\ appended \in Nat
      /\ Gone \subseteq 0 .. appended /\ written \in 0 .. Len(buffersToWrite)
  BY Zenon DEF LogInv, TypeOK
<1>2. /\ pc = "write" /\ pc' = pc /\ m_currentBuffer' = m_currentBuffer /\ m_buffers' = m_buffers
      /\ m_nextBuffer' = m_nextBuffer /\ newBuffer1' = newBuffer1 /\ newBuffer2' = newBuffer2
      /\ buffersToWrite' = buffersToWrite /\ written' = written + 1 /\ written < Len(buffersToWrite)
      /\ main' = main /\ appended' = appended /\ dropped' = dropped /\ now' = now
      /\ aborted' = aborted /\ Output(buffersToWrite[written + 1], first, lost)
  BY Zenon DEF WriteBuffer, shared
<1>3. PICK s \in Seq(Nat) : s = buffersToWrite[written + 1]
  BY <1>1, <1>2, PendingFields, Zenon
<1>4. written + 1 \in 0 .. Len(buffersToWrite) /\ (written + 1) + 1 = written + 2
  BY <1>1, <1>2
<1>5. PICK R \in Seq(Seq(Nat)) : R = Pending' /\ R = SubSeq(buffersToWrite, written + 2, Len(buffersToWrite))
  <2>1. SubSeq(buffersToWrite, (written + 1) + 1, Len(buffersToWrite)) \in Seq(Seq(Nat))
    BY <1>1, <1>4, PendingFields, Zenon
  <2>2. Pending' = SubSeq(buffersToWrite, (written + 1) + 1, Len(buffersToWrite))
    BY <1>2, Zenon DEF Pending
  <2> QED
    BY <1>4, <2>1, <2>2, Zenon
<1>6. PICK h \in Seq(Seq(Nat)) : h = <<s>> /\ Lines(h) = Real(s) /\ (Increase(h) => Rising(s))
  BY OneBuffer, Zenon
<1>7. Pending = h \o R
  <2>1. /\ SubSeq(buffersToWrite, written + 1, Len(buffersToWrite))
           = <<buffersToWrite[written + 1]>> \o SubSeq(buffersToWrite, written + 2, Len(buffersToWrite))
    BY <1>1, <1>2, PendingFields, Zenon
  <2> QED
    BY <1>3, <1>5, <1>6, <2>1, Zenon DEF Pending
<1>8. /\ Lines(Pending) = Real(s) \cup Lines(R)
      /\ Rising(s) /\ Increase(R) /\ Before(Real(s), Lines(R))
  <2>1. /\ Lines(h \o R) = Lines(h) \cup Lines(R)
        /\ Increase(h \o R) <=> Increase(h) /\ Increase(R) /\ Before(Lines(h), Lines(R))
    BY BuffersJoined
  <2>2. Increase(h \o R)
    BY <1>7, Zenon DEF LogInv, Ordered
  <2> QED
    BY <1>6, <1>7, <2>1, <2>2, Zenon
<1>9. PICK a \in Seq(Nat), y \in Seq(Nat) :
         /\ a \o y = s /\ output' \in FileType /\ Content(output') = Content(output) \o a
         /\ output'.lost = output.lost \o y
  BY <1>1, <1>2, <1>3, OutputAdds, Zenon
<1>10. Real(s) = Real(a) \cup Real(y) /\ Rising(a) /\ Before(Real(a), Real(y))
  <2>1. PICK t : t = a \o y /\ t = s
    BY <1>9, Zenon
  <2>2. Real(t) = Real(a) \cup Real(y) /\ (Rising(t) => Rising(a) /\ Before(Real(a), Real(y)))
    <3>1. Real(t) = Real(a) \cup Real(y)
      <4>1. Range(t) = Range(a) \cup Range(y)
        BY <2>1, TextCut, ZenonT(60)
      <4> QED
        BY <4>1, Zenon DEF Real
    <3>2. Rising(t) => Rising(a)
      BY <2>1, TextCut, ZenonT(60)
    <3>3. Rising(t) => Before(Real(a), Real(y))
      BY <2>1, TextCut, ZenonT(60)
    <3> QED
      BY <3>1, <3>2, <3>3, Zenon
  <2> QED
    BY <1>8, <2>1, <2>2, Zenon
<1>11. Content(output) \in Seq(Nat) /\ output.lost \in Seq(Nat)
  <2>1. output.disk \in Seq(Nat) /\ output.stdio \in Seq(Nat) /\ output.lost \in Seq(Nat)
    BY <1>1, Zenon DEF FileType
  <2> QED
    BY <2>1, JoinElements, Zenon DEF Content
<1>12. Places(Real(Content(output)), (Real(a) \cup Real(y)) \cup Lines(R), Lines(m_buffers),
              Real(m_currentBuffer), Gone, appended)
  BY <1>8, <1>10, Zenon DEF LogInv, Placed
<1>13. Real(Content(output')) = Real(Content(output)) \cup Real(a) /\ Rising(Content(output'))
  <2>1. PICK c, t : c \in Seq(Nat) /\ c = Content(output) /\ t = c \o a /\ t = Content(output')
    BY <1>9, <1>11, Zenon
  <2>2. /\ Real(t) = Real(c) \cup Real(a)
        /\ Rising(c) /\ Rising(a) /\ Before(Real(c), Real(a)) => Rising(t)
    BY <2>1, TextCut, ZenonT(60)
  <2>3. Before(Real(c), Real(a))
    BY <1>12, <2>1, Zenon DEF Places, Before
  <2>4. Rising(c)
    BY <2>1, Zenon DEF LogInv, Ordered
  <2> QED
    BY <1>10, <2>1, <2>2, <2>3, <2>4, Zenon
<1>14. Gone' \cup {Notice} = (Gone \cup Real(y)) \cup {Notice}
  <2>1. PICK c, t : c \in Seq(Nat) /\ c = output.lost /\ t = c \o y /\ t = output'.lost
    BY <1>9, <1>11, Zenon
  <2>2. Range(t) = Range(c) \cup Range(y)
    BY <2>1, TextCut, ZenonT(60)
  <2> QED
    BY <1>2, <2>1, <2>2, Zenon DEF Gone, Real
<1>15. Places(Real(Content(output)) \cup Real(a), Lines(R), Lines(m_buffers), Real(m_currentBuffer),
              Gone', appended)
  <2>1. Before(Real(a) \cup Real(y), Lines(R))
    BY <1>8, <1>10, Zenon
  <2>2. Places(Real(Content(output)) \cup Real(a), Lines(R), Lines(m_buffers), Real(m_currentBuffer),
               Gone \cup Real(y), appended)
    BY <1>1, <1>10, <1>12, <2>1, WritePlaces, Zenon
  <2>3. PICK n \in Nat : n = appended
    BY <1>1, Zenon
  <2>4. PICK F, g, k : F = Real(Content(output)) \cup Real(a) /\ g = Gone \cup Real(y) /\ k = Gone'
    BY Zenon
  <2>5. Places(F, Lines(R), Lines(m_buffers), Real(m_currentBuffer), g \cup {Notice}, n)
    BY <2>2, <2>3, <2>4, NoticeIsNone, Zenon
  <2>6. Places(F, Lines(R), Lines(m_buffers), Real(m_currentBuffer), k \cup {Notice}, n)
    BY <1>14, <2>4, <2>5, Zenon
  <2> QED
    BY <2>3, <2>4, <2>6, NoticeIsNone, Zenon
<1>16. Ordered' /\ Placed'
  BY <1>2, <1>5, <1>8, <1>13, <1>15, Zenon DEF LogInv, Ordered, Placed
<1>17. Gone' \subseteq 0 .. appended'
  <2>1. 0 \in 0 .. appended /\ 1 .. appended \subseteq 0 .. appended
    BY <1>1
  <2>2. Real(y) \subseteq 1 .. appended
    BY <1>12, Zenon DEF Places
  <2> QED
    BY <1>1, <1>2, <1>14, <2>1, <2>2, Zenon DEF Notice
<1>18. TypeOK'
  BY <1>2, <1>4, <1>9, <1>17, Zenon DEF LogInv, TypeOK
<1>19. BuffersOK'
  <2>1. PICK p : p = pc /\ p = "write" /\ p \notin {"none", "loop", "lock", "wait", "exited"} /\ p # "drop"
    BY <1>2
  <2>2. main' # "idle"
    BY <1>2, <2>1 DEF LogInv, BuffersOK
  <2> QED
    BY <1>2, <2>1, <2>2, Zenon DEF LogInv, BuffersOK
<1> QED
  BY <1>16, <1>18, <1>19, Zenon DEF LogInv

\* Written buffers become the thread's empty ones again.
LEMMA RefillLog ==
  ASSUME LogInv, Refill
  PROVE  LogInv'
<1>1. /\ buffersToWrite \in Seq(Seq(Nat)) /\ output \in FileType /\ written \in 0 .. Len(buffersToWrite)
  BY Zenon DEF LogInv, TypeOK
<1>2. /\ pc = "write" /\ pc' = "loop" /\ m_currentBuffer' = m_currentBuffer /\ m_buffers' = m_buffers
      /\ m_nextBuffer' = m_nextBuffer /\ newBuffer1' = <<>> /\ newBuffer2' = <<>>
      /\ buffersToWrite' = <<>> /\ written' = 0 /\ written = Len(buffersToWrite)
      /\ output' = Flush(output) /\ main' = main /\ appended' = appended /\ dropped' = dropped
      /\ now' = now
  BY Zenon DEF Refill, FlushOutput, shared, world
<1>3. ~aborted'
  <2>1. Len(buffersToWrite) >= 1 /\ (Null(newBuffer2) => Len(buffersToWrite) >= 2)
    BY <1>2 DEF LogInv, BuffersOK
  <2>2. Len(buffersToWrite) \in Nat
    BY <1>1
  <2>3. ~((IF Null(newBuffer1) THEN 1 ELSE 0) + (IF Null(newBuffer2) THEN 1 ELSE 0) > Len(buffersToWrite))
    BY <2>1, <2>2
  <2> QED
    BY <2>3, Zenon DEF Refill
<1>4. PICK e : e = <<>> /\ e \in Seq(Seq(Nat)) /\ Len(e) = 0
  <2>1. <<>> \in Seq(Seq(Nat)) /\ Len(<<>>) = 0
    OBVIOUS
  <2> QED
    BY <2>1, Zenon
<1>5. PICK z \in 0 .. Len(e) : z = 0
  <2>1. 0 \in 0 .. Len(e)
    BY <1>4
  <2> QED
    BY <2>1, Zenon
<1>6. Pending = e
  BY <1>1, <1>2, <1>4, PendingFields, Zenon DEF Pending
<1>7. Pending' = e
  <2>1. SubSeq(e, z + 1, Len(e)) = e
    BY <1>4, <1>5, PendingFields, Zenon
  <2> QED
    BY <1>2, <1>4, <1>5, <2>1, Zenon DEF Pending
<1>8. output' \in FileType /\ Content(output') = Content(output) /\ output'.lost = output.lost
  BY <1>1, <1>2, FlushKeeps, Zenon DEF Keeps
<1>9. Ordered' /\ Placed' /\ Gone' = Gone
  BY <1>2, <1>6, <1>7, <1>8, SameLines, Zenon
<1>10. TypeOK'
  BY <1>2, <1>4, <1>5, <1>8, <1>9, Zenon DEF LogInv, TypeOK
<1>11. BuffersOK'
  <2>1. PICK p : p = pc' /\ p = "loop" /\ p \notin {"drop", "write"} /\ p # "drop"
    BY <1>2
  <2>2. main' # "idle"
    BY <1>2 DEF LogInv, BuffersOK
  <2> QED
    BY <1>2, <1>3, <2>1, <2>2, Zenon DEF LogInv, BuffersOK
<1> QED
  BY <1>9, <1>10, <1>11, Zenon DEF LogInv

\* The head of the loop asserts that the buffers are empty; its end flushes.
LEMMA LoopLog ==
  ASSUME LogInv, Loop
  PROVE  LogInv'
<1>1. /\ pc = "loop" /\ m_currentBuffer' = m_currentBuffer /\ m_buffers' = m_buffers
      /\ m_nextBuffer' = m_nextBuffer /\ newBuffer1' = newBuffer1 /\ newBuffer2' = newBuffer2
      /\ buffersToWrite' = buffersToWrite /\ written' = written /\ main' = main
      /\ appended' = appended /\ dropped' = dropped /\ now' = now
  BY Zenon DEF Loop, shared, local, world
<1>2. pc' \in {"lock", "exited"} /\ output' \in {output, Flush(output)}
  BY Zenon DEF Loop, FlushOutput
<1>3. newBuffer1 = <<>> /\ newBuffer2 = <<>> /\ buffersToWrite = <<>> /\ ~aborted /\ main # "idle"
  BY <1>1 DEF LogInv, BuffersOK
<1>4. ~aborted'
  BY <1>3, Zenon DEF Loop
<1>5. output' \in FileType /\ Content(output') = Content(output) /\ output'.lost = output.lost
  BY <1>2, FlushKeeps, Zenon DEF Keeps, LogInv, TypeOK
<1>6. Pending' = Pending
  BY <1>1, Zenon DEF Pending
<1>7. Ordered' /\ Placed' /\ Gone' = Gone
  BY <1>1, <1>5, <1>6, SameLines, Zenon
<1>8. TypeOK'
  BY <1>1, <1>5, <1>7, Zenon DEF LogInv, TypeOK
<1>9. BuffersOK'
  <2>1. pc' \notin {"drop", "write"} /\ pc' # "drop"
        /\ pc' \in {"none", "loop", "lock", "wait", "exited", "drop", "write"}
    BY <1>2
  <2> QED
    BY <1>1, <1>3, <1>4, <2>1, Zenon DEF LogInv, BuffersOK
<1> QED
  BY <1>7, <1>8, <1>9, Zenon DEF LogInv

\* start() opens the file before the thread runs.
LEMMA StartLog ==
  ASSUME LogInv, Start
  PROVE  LogInv'
<1>1. /\ main = "idle" /\ main' = "running" /\ pc' = "loop" /\ output' = Opened(now)
      /\ m_currentBuffer' = m_currentBuffer /\ m_buffers' = m_buffers
      /\ m_nextBuffer' = m_nextBuffer /\ newBuffer1' = newBuffer1 /\ newBuffer2' = newBuffer2
      /\ buffersToWrite' = buffersToWrite /\ written' = written /\ aborted' = aborted
      /\ appended' = appended /\ dropped' = dropped /\ now' = now
  BY Zenon DEF Start, shared, local, world
<1>2. pc = "none" /\ Content(output) = <<>> /\ output.lost = <<>>
  BY <1>1, Zenon DEF LogInv, BuffersOK
<1>3. output' \in FileType /\ Content(output') = Content(output) /\ output'.lost = output.lost
  BY <1>1, <1>2, OpenedEmpty, Zenon DEF LogInv, TypeOK
<1>4. Pending' = Pending
  BY <1>1, Zenon DEF Pending
<1>5. Ordered' /\ Placed' /\ Gone' = Gone
  BY <1>1, <1>3, <1>4, SameLines, Zenon
<1>6. TypeOK'
  BY <1>1, <1>3, <1>5, Zenon DEF LogInv, TypeOK
<1>7. BuffersOK'
  <2>1. PICK p : p = pc' /\ p = "loop" /\ p \notin {"drop", "write"} /\ p # "drop" /\ main' # "idle"
    BY <1>1
  <2>2. newBuffer1 = <<>> /\ newBuffer2 = <<>> /\ buffersToWrite = <<>>
    BY <1>2 DEF LogInv, BuffersOK
  <2> QED
    BY <1>1, <2>1, <2>2, Zenon DEF LogInv, BuffersOK
<1> QED
  BY <1>5, <1>6, <1>7, Zenon DEF LogInv

\* A step that changes neither a buffer nor the file.
LEMMA CalmLog ==
  ASSUME LogInv, UNCHANGED <<shared, local, output, appended, dropped, aborted>>, now' \in Int,
         \/ pc' = pc
         \/ pc = "lock" /\ pc' = "wait",
         main' = main \/ main' # "idle"
  PROVE  LogInv'
<1>1. /\ m_currentBuffer' = m_currentBuffer /\ m_buffers' = m_buffers /\ output' = output
      /\ m_nextBuffer' = m_nextBuffer /\ newBuffer1' = newBuffer1 /\ newBuffer2' = newBuffer2
      /\ buffersToWrite' = buffersToWrite /\ written' = written /\ aborted' = aborted
      /\ appended' = appended /\ dropped' = dropped
  BY Zenon DEF shared, local
<1>2. Pending' = Pending
  BY <1>1, Zenon DEF Pending
<1>3. Ordered' /\ Placed' /\ Gone' = Gone
  BY <1>1, <1>2, SameLines, Zenon
<1>4. TypeOK'
  BY <1>1, <1>3, Zenon DEF LogInv, TypeOK
<1>5. BuffersOK'
  <2>3. /\ ~aborted /\ (Null(m_nextBuffer) => m_buffers # <<>>)
        /\ main' = "idle" => pc = "none" /\ Content(output) = <<>> /\ output.lost = <<>>
    BY Zenon DEF LogInv, BuffersOK
  <2>4. /\ ~aborted' /\ (Null(m_nextBuffer') => m_buffers' # <<>>)
        /\ main' = "idle" => pc = "none" /\ Content(output') = <<>> /\ output'.lost = <<>>
    <3>1. ~aborted'
      BY <1>1, <2>3
    <3>2. Null(m_nextBuffer') => m_buffers' # <<>>
      BY <1>1, <2>3, Zenon
    <3>3. main' = "idle" => pc = "none" /\ Content(output') = <<>> /\ output'.lost = <<>>
      BY <1>1, <2>3, Zenon
    <3> QED
      BY <3>1, <3>2, <3>3, Zenon
  <2>1. CASE pc' = pc
    BY <1>1, <2>1, <2>4, Zenon DEF LogInv, BuffersOK
  <2>2. CASE pc = "lock" /\ pc' = "wait"
    <3>1. /\ newBuffer1 = <<>> /\ newBuffer2 = <<>> /\ buffersToWrite = <<>> /\ main # "idle"
          /\ pc' \notin {"drop", "write"} /\ pc' # "drop"
          /\ pc' \in {"none", "loop", "lock", "wait", "exited", "drop", "write"}
      BY <2>2 DEF LogInv, BuffersOK
    <3>2. main' # "idle"
      BY <3>1, Zenon
    <3> QED
      BY <1>1, <2>4, <3>1, <3>2, Zenon DEF BuffersOK
  <2> QED
    BY <2>1, <2>2, Zenon
<1> QED
  BY <1>3, <1>4, <1>5, Zenon DEF LogInv

-----------------------------------------------------------------------------
(* The theorems. *)

\* Every step of the threads and of the clock keeps the invariant.
LEMMA NextLog ==
  ASSUME LogInv, [Next]_vars
  PROVE  LogInv'
<1>1. now \in Int
  BY Zenon DEF LogInv, TypeOK
<1>2. ASSUME NEW first, NEW lost, DropBuffers(first, lost) \/ WriteBuffer(first, lost) PROVE LogInv'
  BY <1>2, DropLog, WriteLog, Zenon
<1>3. CASE LockMutex
  <2>1. CASE m_buffers = <<>>
    <3>1. /\ UNCHANGED <<shared, local, output, appended, dropped, aborted>> /\ now' = now
          /\ pc = "lock" /\ pc' = "wait" /\ main' = main
      BY <1>3, <2>1, Zenon DEF LockMutex, world
    <3> QED
      BY <1>1, <3>1, CalmLog, Zenon
  <2>2. CASE m_buffers # <<>>
    <3>1. /\ SwapBuffers /\ pc = "lock" /\ pc' = "drop" /\ written' = written
          /\ UNCHANGED <<main, output, appended, dropped, world, aborted>>
      BY <1>3, <2>2, Zenon DEF LockMutex
    <3>2. pc \in {"lock", "wait"}
      BY <3>1, Zenon
    <3> QED
      BY <3>1, <3>2, SwapLog, Zenon
  <2> QED
    BY <2>1, <2>2, Zenon
<1>4. CASE WaitReturns
  <2>1. /\ SwapBuffers /\ pc \in {"lock", "wait"} /\ pc' = "drop" /\ written' = written
        /\ UNCHANGED <<main, output, appended, dropped, world, aborted>>
    BY <1>4, Zenon DEF WaitReturns
  <2> QED
    BY <2>1, SwapLog, Zenon
<1>5. CASE Stop \/ Join
  <2>1. /\ UNCHANGED <<shared, local, output, appended, dropped, aborted>> /\ now' = now /\ pc' = pc
        /\ main' \in {"stopping", "joined"}
    BY <1>5, Zenon DEF Stop, Join, world
  <2>2. main' # "idle"
    BY <2>1
  <2> QED
    BY <1>1, <2>1, <2>2, CalmLog, Zenon
<1>6. CASE Tick
  <2>1. /\ UNCHANGED <<shared, local, output, appended, dropped, aborted>> /\ now' = now + 1 /\ pc' = pc
        /\ main' = main
    BY <1>6, Zenon DEF Tick
  <2>2. now' \in Int
    BY <1>1, <2>1
  <2> QED
    BY <2>1, <2>2, CalmLog, Zenon
<1>7. CASE UNCHANGED vars
  <2>1. /\ UNCHANGED <<shared, local, output, appended, dropped, aborted>> /\ now' = now /\ pc' = pc
        /\ main' = main
    BY <1>7, Zenon DEF vars, world
  <2> QED
    BY <1>1, <2>1, CalmLog, Zenon
<1> QED
  BY <1>2, <1>3, <1>4, <1>5, <1>6, <1>7, LoopLog, RefillLog, AppendLog, StartLog, Zenon
  DEF Next, LoggingThread

\* No assertion of threadFunc fails: it always has two empty buffers to swap
\* in, whatever append() does while it writes.
THEOREM AssertionsNeverFail == Spec => []AssertionsHold
<1>1. Init => LogInv
  BY InitLog
<1>2. LogInv /\ [Next]_vars => LogInv'
  BY NextLog
<1>3. LogInv => AssertionsHold
  BY Zenon DEF LogInv, BuffersOK, AssertionsHold
<1> QED
  BY <1>1, <1>2, <1>3, PTL DEF Spec

\* The four places, one after the other, are the text that LinesInOrder is about.
LEMMA LogKept ==
  ASSUME LogInv
  PROVE  LinesInOrder
<1>1. /\ m_currentBuffer \in Seq(Nat) /\ m_buffers \in Seq(Seq(Nat)) /\ output \in FileType
      /\ buffersToWrite \in Seq(Seq(Nat)) /\ written \in 0 .. Len(buffersToWrite)
  BY Zenon DEF LogInv, TypeOK
<1>2. Content(output) \in Seq(Nat)
  <2>1. output.disk \in Seq(Nat) /\ output.stdio \in Seq(Nat)
    BY <1>1, Zenon DEF FileType
  <2> QED
    BY <2>1, JoinElements, Zenon DEF Content
<1>3. PICK f \in Seq(Seq(Nat)) : /\ f = <<Content(output)>> /\ Lines(f) = Real(Content(output))
                                 /\ Rising(Content(output)) => Increase(f)
  BY <1>2, OneBuffer, Zenon
<1>4. PICK c \in Seq(Seq(Nat)) : /\ c = <<m_currentBuffer>> /\ Lines(c) = Real(m_currentBuffer)
                                 /\ Rising(m_currentBuffer) => Increase(c)
  BY <1>1, OneBuffer, Zenon
<1>5. PICK p \in Seq(Seq(Nat)), m \in Seq(Seq(Nat)) : p = Pending /\ m = m_buffers
  BY <1>1, PendingFields, Zenon DEF Pending
<1>6. /\ Increase(f) /\ Increase(p) /\ Increase(m) /\ Increase(c)
      /\ Places(Lines(f), Lines(p), Lines(m), Lines(c), Gone, appended)
  BY <1>3, <1>4, <1>5, Zenon DEF LogInv, Ordered, Placed
<1>7. PICK x \in Seq(Seq(Nat)) :
         /\ x = f \o p /\ Lines(x) = Lines(f) \cup Lines(p)
         /\ Increase(f) /\ Increase(p) /\ Before(Lines(f), Lines(p)) => Increase(x)
  BY BuffersJoined, ZenonT(60)
<1>8. PICK y \in Seq(Seq(Nat)) :
         /\ y = x \o m /\ Lines(y) = Lines(x) \cup Lines(m)
         /\ Increase(x) /\ Increase(m) /\ Before(Lines(x), Lines(m)) => Increase(y)
  BY BuffersJoined, ZenonT(60)
<1>9. PICK k \in Seq(Seq(Nat)) :
         /\ k = y \o c /\ Lines(k) = Lines(y) \cup Lines(c)
         /\ Increase(y) /\ Increase(c) /\ Before(Lines(y), Lines(c)) => Increase(k)
  BY BuffersJoined, ZenonT(60)
<1>10. Increase(x)
  BY <1>6, <1>7, Zenon DEF Places
<1>11. Increase(y)
  <2>1. Before(Lines(x), Lines(m))
    BY <1>6, <1>7, Zenon DEF Places, Before
  <2> QED
    BY <1>6, <1>8, <1>10, <2>1, Zenon
<1>12. Increase(k)
  <2>1. Before(Lines(y), Lines(c))
    BY <1>6, <1>7, <1>8, Zenon DEF Places, Before
  <2> QED
    BY <1>6, <1>9, <1>11, <2>1, Zenon
<1>13. Lines(k) = (1 .. appended) \ Gone
  BY <1>6, <1>7, <1>8, <1>9, Zenon DEF Places
<1>14. k = <<output.disk \o output.stdio>>
           \o SubSeq(buffersToWrite, written + 1, Len(buffersToWrite)) \o m_buffers \o <<m_currentBuffer>>
  BY <1>3, <1>4, <1>5, <1>7, <1>8, <1>9, Zenon DEF Content, Pending
<1> QED
  BY <1>12, <1>13, <1>14, Zenon DEF LinesInOrder, Gone

\* Through appends, swaps, drops, rolls and write errors, the lines in the
\* file and in the buffers are those appended, in the order of append(), but
\* for those dropped or lost: none is doubled, overtaken or forgotten.
THEOREM LinesStayInOrder == Spec => []LinesInOrder
<1>1. Init => LogInv
  BY InitLog
<1>2. LogInv /\ [Next]_vars => LogInv'
  BY NextLog
<1>3. LogInv => LinesInOrder
  BY LogKept
<1> QED
  BY <1>1, <1>2, <1>3, PTL DEF Spec
=============================================================================
