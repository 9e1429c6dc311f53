------------------------------- MODULE LogFile -------------------------------
(***************************************************************************)
(* dc::LogFile on dc::AppendFile, as functions on the file's value:         *)
(*   m_count, m_startOfPeriod, m_lastRoll, m_lastFlush                      *)
(*   writtenBytes   of the AppendFile that is open; a line is one byte      *)
(*   stdio          the lines in that AppendFile's m_buffer                 *)
(*   disk           the lines that have reached the disk                    *)
(*   lost           the lines a write error has cost                        *)
(*   rolled         the size of the file that rollFile closed last; -1: none *)
(* Every AppendFile is opened for appending, under one and the same name:   *)
(* getLogFileName makes a date and a process id but leaves them out.        *)
(***************************************************************************)
EXTENDS Integers, Sequences

CONSTANTS m_rollSize, m_flushInterval, m_checkEveryN,
          kRollPerSeconds

ASSUME LogFileAssumption ==
    /\ m_rollSize \in Nat /\ m_flushInterval \in Nat /\ m_checkEveryN \in Nat
    /\ kRollPerSeconds \in Nat \ {0}

Flush(f) == [f EXCEPT !.disk = @ \o f.stdio, !.stdio = <<>>]

\* Variant: what the old file has buffered is not written.
RollFileUnflushed(f, now) ==
    IF now <= f.m_lastRoll THEN f
    ELSE [f EXCEPT !.m_lastRoll = now, !.m_lastFlush = now, !.stdio = <<>>,
                   !.writtenBytes = 0, !.rolled = f.writtenBytes]

\* ~AppendFile closes the old file, and fclose flushes it.  rollFile returns
\* whether it changes m_lastRoll.
RollFile(f, now) ==
    IF now <= f.m_lastRoll THEN f
    ELSE [Flush(f) EXCEPT !.m_lastRoll = now, !.m_lastFlush = now,
                          !.m_startOfPeriod = (now \div kRollPerSeconds) * kRollPerSeconds,
                          !.writtenBytes = 0, !.rolled = f.writtenBytes]

Rolls(f, now) == now > f.m_lastRoll

\* The constructor.
Opened(now) ==
    [RollFile([m_count |-> 0, m_startOfPeriod |-> 0, m_lastRoll |-> 0, m_lastFlush |-> 0,
               writtenBytes |-> 0, stdio |-> <<>>, disk |-> <<>>, lost |-> <<>>,
               rolled |-> -1], now) EXCEPT !.rolled = -1]

\* AppendFile::append: when fwrite takes fewer lines than it is given, after an
\* error, the rest is lost and those it took are not counted.
AppendToFile(f, lines, written) ==
    [f EXCEPT !.stdio = @ \o SubSeq(lines, 1, written),
              !.writtenBytes = IF written = Len(lines) THEN @ + written ELSE @,
              !.lost = @ \o SubSeq(lines, written + 1, Len(lines))]

\* append_unlocked compares writtenBytes() with what rollFile() returns, not
\* with m_rollSize; either may be evaluated first.
AppendUnlocked(f, lines, written, now, sizeFirst) ==
    LET appended == AppendToFile(f, lines, written)
        rolled == RollFile(appended, now)
        size == IF sizeFirst THEN appended.writtenBytes ELSE rolled.writtenBytes
        limit == IF Rolls(appended, now) THEN 1 ELSE 0
        counted == [rolled EXCEPT !.m_count = @ + 1]
        checked == [counted EXCEPT !.m_count = 0]
        thisPeriod == (now \div kRollPerSeconds) * kRollPerSeconds
    IN  IF size > limit THEN RollFile(rolled, now)
        ELSE IF counted.m_count <= m_checkEveryN THEN counted
        ELSE IF thisPeriod # rolled.m_startOfPeriod THEN RollFile(checked, now)
        ELSE IF now - rolled.m_lastFlush > m_flushInterval
        THEN Flush([checked EXCEPT !.m_lastFlush = now])
        ELSE checked

\* append and flush: the one LogFile of the system is not threadSafe, so that
\* m_mutex is null and its only thread takes no lock.
AppendTo(f, lines, written, now, sizeFirst) == AppendUnlocked(f, lines, written, now, sizeFirst)

FlushOutput(f) == Flush(f)
=============================================================================
