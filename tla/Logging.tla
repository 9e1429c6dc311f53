------------------------------ MODULE Logging ------------------------------
(***************************************************************************)
(* The front end of the log: dc::Logger's formatTime with its thread-local  *)
(* cache of the last second, on TimeZone, and LogStream.  One thread logs;  *)
(* the cache is not shared.  Four parts that do not touch each other are   *)
(* walked in one specification, and Init picks the part:                    *)
(*   "calendar"  year by year, with the day number of its 1 January as the  *)
(*               days of the years before it add up to;                     *)
(*   "clock"     the clock goes on, the thread logs lines and setTimeZone   *)
(*               is called;                                                 *)
(*   "stream"    operators << on one LogStream, and resetBuffer;            *)
(*   "quantity"  formatSI and formatIEC, exponent by exponent.              *)
(***************************************************************************)
EXTENDS LogStream

CONSTANTS FirstYear, LastYear,  \* bounds of the calendar
          Starts,               \* where the clock starts
          MaxTicks,             \* bound on its half hours
          Files, FixedOffsets,  \* zone files, and offsets of fixed zones
          Numbers, Lengths,     \* integers and lengths of strings for a stream
          MaxPieces,            \* bound on what is put into a stream
          Mantissas             \* of the quantities that are formatted

ASSUME LoggingAssumption ==
    FirstYear \in Nat /\ LastYear \in Nat /\ MaxTicks \in Nat /\ FirstYear = 1900

VARIABLES part,
          year, january,
          now, ticks,
          g_logTimeZone,
          t_lastSecond, t_time,
          line,                 \* the last line: [at, zone, time, z, stale]
          stream,
          exponent

calendarVars == <<year, january, exponent>>
clockVars == <<now, ticks, g_logTimeZone, t_lastSecond, t_time, line>>
vars == <<part, calendarVars, clockVars, stream>>

NoLine == [at |-> 0]
Zones == {LoadZoneFile(f) : f \in Files} \cup {FixedZone(east) : east \in FixedOffsets} \cup {NoZone}

Init ==
    /\ part \in {"calendar", "clock", "stream", "quantity"} /\ exponent = 0
    /\ year = FirstYear /\ january = 2415021
    /\ now \in (IF part = "clock" THEN Starts ELSE {0}) /\ ticks = 0
    /\ g_logTimeZone = NoZone /\ t_lastSecond = 0 /\ t_time = <<>> /\ line = NoLine
    /\ stream = EmptyStream

-----------------------------------------------------------------------------
(* The calendar. *)

LeapYear(y) == y % 4 = 0 /\ (y % 100 # 0 \/ y % 400 = 0)
DaysIn(y) == <<31, IF LeapYear(y) THEN 29 ELSE 28, 31, 30, 31, 30, 31, 31, 30, 31, 30, 31>>
DaysBefore(y, month) == FoldLeft(+, 0, SubSeq(DaysIn(y), 1, month - 1))

NextYear ==
    /\ part = "calendar" /\ year < LastYear
    /\ year' = year + 1 /\ january' = january + (IF LeapYear(year) THEN 366 ELSE 365)
    /\ UNCHANGED <<part, exponent, clockVars, stream>>

NextExponent ==
    /\ part = "quantity" /\ exponent < 14 /\ exponent' = exponent + 1
    /\ UNCHANGED <<part, year, january, clockVars, stream>>

-----------------------------------------------------------------------------
(* The clock and the logger. *)

\* To the second before the half hour, then to the half hour.
Tick ==
    /\ part = "clock" /\ ticks < MaxTicks /\ ticks' = ticks + 1
    /\ now' = now + (IF now % 1800 = 1799 THEN 1 ELSE 1799)
    /\ UNCHANGED <<part, calendarVars, g_logTimeZone, t_lastSecond, t_time, line, stream>>

\* Variant: the time zone is not looked at.
FormatTimeUtc == IF now = t_lastSecond THEN t_time ELSE BreakTime(now)

\* What formatTime leaves in t_time.
FormatTime ==
    IF now = t_lastSecond THEN t_time
    ELSE IF Valid(g_logTimeZone) THEN ToLocalTime(g_logTimeZone, now) ELSE BreakTime(now)

\* A LOG_ statement: Impl's constructor and ~Logger.  At second 0 the first
\* line would find the zeroed cache valid and T's assertion would fail.
Log ==
    /\ part = "clock" /\ now # 0 /\ t_lastSecond' = now /\ t_time' = FormatTime
    /\ line' = [at |-> now, zone |-> g_logTimeZone, time |-> t_time',
                z |-> ~Valid(g_logTimeZone),
                stale |-> now = t_lastSecond /\ (line.stale \/ line.zone # g_logTimeZone)]
    /\ UNCHANGED <<part, calendarVars, now, ticks, g_logTimeZone, stream>>

SetTimeZone(zone) ==
    /\ part = "clock" /\ zone # g_logTimeZone /\ g_logTimeZone' = zone
    /\ UNCHANGED <<part, calendarVars, now, ticks, t_lastSecond, t_time, line, stream>>

-----------------------------------------------------------------------------
(* The stream. *)

Stream(s) ==
    /\ part = "stream" /\ Len(s.pieces) <= MaxPieces /\ stream' = s
    /\ UNCHANGED <<part, calendarVars, clockVars>>

StreamInteger(v) == Stream(FormatInteger(stream, v))
StreamPointer(v) == v >= 0 /\ Stream(FormatPointer(stream, v))
StreamString(n) == Stream(AppendChars(stream, [i \in 1 .. n |-> Character]))
ResetBuffer == Stream(EmptyStream)

Next ==
    \/ NextYear \/ NextExponent \/ Tick \/ Log
    \/ \E zone \in Zones : SetTimeZone(zone)
    \/ \E v \in Numbers : StreamInteger(v) \/ StreamPointer(v)
    \/ \E n \in Lengths : StreamString(n)
    \/ ResetBuffer

Spec == Init /\ [][Next]_vars

-----------------------------------------------------------------------------
(* Properties. *)

\* getJulianDayNumber counts days, getYearMonthDay is its inverse, and the
\* week goes on, on every day of the years that date.h allows.
CalendarAgrees ==
    part = "calendar" =>
        \A month \in 1 .. 12 : \A day \in 1 .. DaysIn(year)[month] :
            LET jdn == january + DaysBefore(year, month) + day - 1
            IN  /\ GetJulianDayNumber(year, month, day) = jdn
                /\ GetYearMonthDay(jdn) = <<year, month, day>>
                /\ WeekDay(jdn) = (1 + jdn - 2415021) % 7

\* The offset that the transitions up to a time ask for.
OffsetAt(zone, t) ==
    LET past == {i \in DOMAIN zone.transitions : zone.transitions[i].utctime <= t}
    IN  zone.localtimes[IF past = {} THEN 1 ELSE zone.transitions[Max(past)].localtimeIdx]

Shows(dt, seconds) ==
    /\ FromUtcTime(dt) = seconds
    /\ dt[2] \in 1 .. 12 /\ dt[3] \in 1 .. DaysIn(dt[1])[dt[2]]
    /\ dt[4] \in 0 .. 23 /\ dt[5] \in 0 .. 59 /\ dt[6] \in 0 .. 59

\* A line shows the time at which it was logged, in the zone that is set,
\* before and after each transition and before 1970; the one exception is a
\* zone that is set between two lines of one second.
LineShowsTime ==
    line # NoLine /\ ~line.stale =>
        Shows(line.time, line.at + (IF line.z THEN 0 ELSE OffsetAt(line.zone, line.at)))

\* The value that digits stand for.
ValueOf(digits, base) == FoldLeft(LAMBDA v, d : v * base + d, 0, digits)

\* A stream never writes past its buffer, although numbers are written in place
\* with a NUL behind them and only then added, and every number in it is whole
\* and right.
StreamIsRight ==
    /\ stream.reach <= SIZE
    /\ \A i \in DOMAIN stream.pieces :
           LET piece == stream.pieces[i]
               negative == piece.value < 0
               digits == SubSeq(piece.chars, CASE piece.base = 16 -> 3
                                               [] negative -> 2 [] OTHER -> 1, Len(piece.chars))
           IN  piece.base # 0 =>
                   /\ digits # <<>>
                   /\ negative <=> Head(piece.chars) = Minus
                   /\ piece.value = ValueOf(digits, piece.base) * (IF negative THEN -1 ELSE 1)

\* A quantity takes at most five characters in SI units and six in IEC units.
QuantitiesFit ==
    part = "quantity" =>
        \A m \in Mantissas :
            /\ FormatSI(m, exponent) <= 5
            /\ exponent \in 1 .. 5 => /\ FormatIEC(1023 + m, exponent) <= 6
                                      /\ m >= 10 => FormatIEC(104 * m, exponent) <= 6
            /\ exponent = 6 /\ m < 7168 => FormatIEC(1023 + m, exponent) <= 6

\* What a stream and its helpers write is whole, right and within its space.
FormatsAreRight == StreamIsRight /\ QuantitiesFit
=============================================================================
