------------------------------ MODULE TimeZone ------------------------------
(***************************************************************************)
(* dc::Date and dc::TimeZone: functions without state.  Dates are Julian    *)
(* day numbers; times are seconds since 1970, within the 32 bits of TLC's   *)
(* integers.  A zone is a TimeZone::Data, [transitions, localtimes], whose  *)
(* local times are their utcOffsets, or NoZone for a null m_data.           *)
(* fromLocalTime, which nothing calls, is left out: the assertion of its    *)
(* findLocalTime is the wrong way round.                                    *)
(***************************************************************************)
EXTENDS Integers, Sequences, FiniteSetsExt

(* C++ division and remainder: towards zero. *)
CDiv(a, b) == IF a >= 0 THEN a \div b ELSE -((-a) \div b)
CMod(a, b) == a - b * CDiv(a, b)

-----------------------------------------------------------------------------
(* Date. *)

\* Variant: no century rule.
GetJulianDayNumberJulian(year, month, day) ==
    LET a == (14 - month) \div 12
        y == year + 4800 - a
        m == month + 12 * a - 3
    IN  day + (153 * m + 2) \div 5 + y * 365 + y \div 4 - 32083

GetJulianDayNumber(year, month, day) ==
    LET a == (14 - month) \div 12
        y == year + 4800 - a
        m == month + 12 * a - 3
    IN  day + (153 * m + 2) \div 5 + y * 365 + y \div 4 - y \div 100 + y \div 400 - 32045

GetYearMonthDay(julianDayNumber) ==
    LET a == julianDayNumber + 32044
        b == (4 * a + 3) \div 146097
        c == a - (b * 146097) \div 4
        d == (4 * c + 3) \div 1461
        e == c - (1461 * d) \div 4
        m == (5 * e + 2) \div 153
    IN  <<b * 100 + d - 4800 + m \div 10, m + 3 - 12 * (m \div 10),
          e - (153 * m + 2) \div 5 + 1>>

WeekDay(julianDayNumber) == (julianDayNumber + 1) % 7

kJulianDayOf1970_01_01 == GetJulianDayNumber(1970, 1, 1)

-----------------------------------------------------------------------------
(* DateTime: <<year, month, day, hour, minute, second>>. *)

kSecondsPerDay == 24 * 60 * 60

FillHMS(seconds) ==
    LET minutes == seconds \div 60 IN <<minutes \div 60, minutes % 60, seconds % 60>>

BreakTime(t) ==
    LET seconds == CMod(t, kSecondsPerDay)
        days == CDiv(t, kSecondsPerDay)
        before == seconds < 0
    IN  GetYearMonthDay((IF before THEN days - 1 ELSE days) + kJulianDayOf1970_01_01)
            \o FillHMS(IF before THEN seconds + kSecondsPerDay ELSE seconds)

FromUtcTime(dt) ==
    LET days == GetJulianDayNumber(dt[1], dt[2], dt[3]) - kJulianDayOf1970_01_01
    IN  days * kSecondsPerDay + dt[4] * 3600 + dt[5] * 60 + dt[6]

-----------------------------------------------------------------------------
(* TimeZone::Data. *)

NoZone == [transitions |-> <<>>, localtimes |-> <<>>]
Valid(zone) == zone # NoZone

Transition(localtimes, utctime, idx) ==
    [utctime |-> utctime, localtime |-> utctime + localtimes[idx], localtimeIdx |-> idx]

FixedZone(eastOfUtc) == [transitions |-> <<>>, localtimes |-> <<eastOfUtc>>]

\* A block of a zone file: [leapCnt, isUtcCnt, isStdCnt, trans, idx, types,
\* complete]; reading past the end of the file throws, and so does at() with
\* an index that is out of range.  Indexes start at 1; every file has a type.
ReadDataBlock(block) ==
    LET typeCnt == Len(block.types)
        refused == \/ block.leapCnt # 0
                   \/ block.isUtcCnt # 0 /\ block.isUtcCnt # typeCnt
                   \/ block.isStdCnt # 0 /\ block.isStdCnt # typeCnt
        throws == ~block.complete \/ \E i \in DOMAIN block.idx : block.idx[i] > typeCnt
    IN  IF refused \/ throws THEN NoZone
        ELSE [transitions |-> [i \in DOMAIN block.trans |->
                                   Transition(block.types, block.trans[i], block.idx[i])],
              localtimes |-> block.types]

\* A file: [opens, head, version, v1, v2]; the code looks for "TZlf".
ReadTimeZoneFile(file) ==
    IF ~file.opens \/ file.head # "TZlf" THEN NoZone
    ELSE ReadDataBlock(IF file.version = "2" THEN file.v2 ELSE file.v1)

LoadZoneFile(file) == ReadTimeZoneFile(file)

\* std::upper_bound by UTC: the first transition after t, or the end.
UpperBound(transitions, t) ==
    Min({i \in DOMAIN transitions : transitions[i].utctime > t} \cup {Len(transitions) + 1})

\* findLocalTime of a UTC time: an index of localtimes.
FindLocalTime(zone, utcTime) ==
    LET trans == zone.transitions
    IN  IF trans = <<>> \/ utcTime < trans[1].utctime THEN 1
        ELSE trans[UpperBound(trans, utcTime) - 1].localtimeIdx

ToLocalTime(zone, seconds) ==
    BreakTime(seconds + zone.localtimes[FindLocalTime(zone, seconds)])
=============================================================================
