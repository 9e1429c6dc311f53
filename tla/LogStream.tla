----------------------------- MODULE LogStream -----------------------------
(***************************************************************************)
(* dc::LogStream on its FixedBuffer, and formatSI and formatIEC: functions  *)
(* on a stream [length, reach, pieces], where reach is how far the buffer   *)
(* has been written.  A piece is what one operator<< has put into it:       *)
(* [base, value, chars], with base 0 for text.  A digit is a number, and so *)
(* are the characters that are not: the negative numbers.                   *)
(***************************************************************************)
EXTENDS Integers, Sequences, SequencesExt, TimeZone

CONSTANTS SIZE,                 \* of the FixedBuffer
          kMaxNumbericSize

ASSUME LogStreamAssumption == SIZE \in Nat /\ kMaxNumbericSize \in Nat

Minus == -1
PrefixX == -2
Character == -3

EmptyStream == [length |-> 0, reach |-> 0, pieces |-> <<>>]
Avail(stream) == SIZE - stream.length

\* The characters and, behind them, so many more bytes are written.
Put(stream, base, value, chars, more) ==
    [length |-> stream.length + Len(chars),
     reach |-> Max({stream.reach, stream.length + Len(chars) + more}),
     pieces |-> Append(stream.pieces, [base |-> base, value |-> value, chars |-> chars])]

\* FixedBuffer::append: all of it or nothing.
AppendChars(stream, chars) ==
    IF Avail(stream) > Len(chars) THEN Put(stream, 0, 0, chars, 0) ELSE stream

-----------------------------------------------------------------------------
(* convert, convertHex. *)

RECURSIVE LowDigits(_, _)

\* The digits from the lowest up.  The table zero[] is symmetric: a negative
\* remainder gives the digit of its absolute value.
LowDigits(i, base) ==
    LET lsd == CMod(i, base)
        digit == IF lsd < 0 THEN -lsd ELSE lsd
        rest == CDiv(i, base)
    IN  <<digit>> \o (IF rest = 0 THEN <<>> ELSE LowDigits(rest, base))

Convert(value) == Reverse(LowDigits(value, 10) \o (IF value < 0 THEN <<Minus>> ELSE <<>>))

ConvertHex(value) == Reverse(LowDigits(value, 16))

\* Variant: one free byte is enough.
FormatNumberTight(stream, base, value, chars) ==
    IF Avail(stream) >= 1 THEN Put(stream, base, value, chars, 1) ELSE stream

\* formatInteger and operator<<(const void*): the digits and a NUL are written
\* in place, then the digits are added.
FormatNumber(stream, base, value, chars) ==
    IF Avail(stream) >= kMaxNumbericSize THEN Put(stream, base, value, chars, 1) ELSE stream

FormatInteger(stream, v) == FormatNumber(stream, 10, v, Convert(v))

FormatPointer(stream, v) == FormatNumber(stream, 16, v, <<0, PrefixX>> \o ConvertHex(v))

-----------------------------------------------------------------------------
(* formatSI and formatIEC: n is m * base^e, and a row of a table applies to   *)
(* what is below its limit t * base^k, is divided by base^unit and printed   *)
(* with that many decimals.                                                  *)

SIRow(t, k, unit, decimals) == [t |-> t, k |-> k, unit |-> unit, decimals |-> decimals]

SITable ==
    <<SIRow(9995, 0, 3, 2), SIRow(9995, 1, 3, 1), SIRow(9995, 2, 3, 0),
      SIRow(9995, 3, 6, 2), SIRow(9995, 4, 6, 1), SIRow(9995, 5, 6, 0),
      SIRow(9995, 6, 9, 2), SIRow(9995, 7, 9, 1), SIRow(9995, 8, 9, 0),
      SIRow(9995, 9, 12, 2), SIRow(9995, 10, 12, 0),
      SIRow(9995, 12, 15, 2), SIRow(9995, 13, 15, 1), SIRow(9995, 14, 15, 0)>>

\* m * 10^e < t * 10^k, for m and t below 10^5.
Below(m, e, t, k) ==
    IF e >= k THEN e - k < 5 /\ m * 10^(e - k) < t
              ELSE k - e > 4 \/ m < t * 10^(k - e)

\* How many characters m * 10^-p takes, rounded to so many decimals.
Width(m, p, decimals) ==
    LET q == p - decimals
        rounded == IF q <= 0 THEN m * 10^(-q)
                   ELSE IF q > 6 THEN 0 ELSE (m + 5 * 10^(q - 1)) \div 10^q
        whole == Len(Convert(rounded \div 10^decimals))
    IN  whole + (IF decimals = 0 THEN 0 ELSE decimals + 1)

\* Variant: the limits leave no room for rounding up.
AppliesUnrounded(row, m, e) == Below(m, e, row.t + 4, row.k)

Applies(row, m, e) == Below(m, e, row.t, row.k)

\* The length of formatSI's result.
FormatSI(m, e) ==
    LET rows == {i \in DOMAIN SITable : Applies(SITable[i], m, e)}
        row == SITable[Min(rows)]
    IN  IF Below(m, e, 1000, 0) THEN Len(Convert(m * 10^e))
        ELSE IF rows = {} THEN Width(m, 18 - e, 2) + 1
        ELSE Width(m, row.unit - e, row.decimals) + 1

\* formatIEC: the rows are the same for each unit, as n = m * 1024^(unit - 1).
FormatIEC(m, unit) ==
    LET Fixed(decimals) == Len(Convert((m * 10^decimals + 512) \div (1024 * 10^decimals)))
        Decimal(decimals) == Fixed(decimals) + decimals + 1
    IN  IF unit = 1 /\ m < 1024 THEN Len(Convert(m))
        ELSE 2 + (IF m * 200 < 1999 * 1024 THEN Decimal(2)
                  ELSE IF unit = 6 \/ m * 20 < 1999 * 1024 THEN Decimal(1)
                  ELSE Fixed(0))
=============================================================================
