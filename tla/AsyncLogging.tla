---------------------------- MODULE AsyncLogging ----------------------------
(***************************************************************************)
(* dc::AsyncLogging: any thread appends lines to m_currentBuffer, under     *)
(* m_mutex; a logging thread takes the buffers and writes them to a         *)
(* LogFile.  Lines are numbered in the order in which append() takes the    *)
(* mutex and have one size.  What is done under the mutex is one step; the  *)
(* timed wait is left by a notify, by its timeout or for no reason.         *)
(*                                                                          *)
(* pc of the logging thread: "none", "loop" (tests is_running), "lock",     *)
(* "wait" (in waitForSeconds), "drop", "write" (buffer by buffer), "exited". *)
(* NoBuffer stands for a null BufferPtr.                                    *)
(***************************************************************************)
EXTENDS Integers, Sequences, Functions, LogFile

CONSTANTS BufferSize,   \* kLargeBuffer, in lines
          MaxBuffers,   \* 25: more buffers than this are dropped
          MaxLines,     \* bound on lines appended
          MaxTime,      \* bound on the clock
          MaxErrors     \* bound on write errors

ASSUME AsyncLoggingAssumption ==
    /\ BufferSize \in Nat /\ BufferSize > 1 /\ MaxBuffers \in Nat /\ MaxBuffers > 1
    /\ MaxLines \in Nat /\ MaxTime \in Nat /\ MaxErrors \in Nat

VARIABLES m_currentBuffer, m_nextBuffer, m_buffers, is_running,
          newBuffer1, newBuffer2, buffersToWrite,
          written,      \* how many of buffersToWrite are written
          pc,           \* of the logging thread
          notified,     \* m_cond was notified while it waited
          main,         \* "idle", "running", "stopping" or "joined"
          output,       \* the LogFile
          appended,     \* how many lines were appended
          dropped,      \* the set of lines that were dropped
          now, errors,
          aborted

shared == <<m_currentBuffer, m_nextBuffer, m_buffers>>
local == <<newBuffer1, newBuffer2, buffersToWrite, written>>
world == <<now, errors>>
vars == <<shared, local, is_running, pc, notified, main, output, appended, dropped,
          world, aborted>>

NoBuffer == <<0>>
Null(b) == b = NoBuffer
Notice == 0             \* the line "Dropped log message at ..."
Lines(buffers) == (UNION {Range(buffers[i]) : i \in DOMAIN buffers}) \ {Notice}

Init ==
    /\ m_currentBuffer = <<>> /\ m_nextBuffer = <<>> /\ m_buffers = <<>>
    /\ newBuffer1 = <<>> /\ newBuffer2 = <<>> /\ buffersToWrite = <<>> /\ written = 0
    /\ is_running = FALSE /\ pc = "none" /\ notified = FALSE /\ main = "idle"
    /\ now = 1 /\ output = Opened(now)     \* threadFunc opens it: see Start
    /\ appended = 0 /\ dropped = {} /\ errors = 0 /\ aborted = FALSE

-----------------------------------------------------------------------------
(* Any thread. *)

\* FixedBuffer::append stores a line only if there is more room than it takes.
Fits(buffer) == BufferSize - Len(buffer) > 1

AppendLine ==
    /\ ~aborted /\ appended < MaxLines /\ appended' = appended + 1
    /\ IF Fits(m_currentBuffer)
       THEN /\ m_currentBuffer' = Append(m_currentBuffer, appended')
            /\ UNCHANGED <<m_nextBuffer, m_buffers, notified>>
       ELSE /\ m_buffers' = Append(m_buffers, m_currentBuffer)
            /\ m_currentBuffer' = <<appended'>>     \* in m_nextBuffer or a new one
            /\ m_nextBuffer' = NoBuffer
            /\ notified' = (notified \/ pc = "wait")
    /\ UNCHANGED <<local, is_running, pc, main, output, dropped, world, aborted>>

\* The latch holds start() until threadFunc runs, which opens its LogFile.
Start ==
    /\ main = "idle" /\ main' = "running" /\ is_running' = TRUE /\ pc' = "loop"
    /\ output' = Opened(now)
    /\ UNCHANGED <<shared, local, notified, appended, dropped, world, aborted>>

\* stop() notifies without the mutex, perhaps before the thread waits.
Stop ==
    /\ ~aborted /\ main = "running" /\ main' = "stopping" /\ is_running' = FALSE
    /\ notified' = (notified \/ pc = "wait")
    /\ UNCHANGED <<shared, local, pc, output, appended, dropped, world, aborted>>

Join ==
    /\ main = "stopping" /\ pc = "exited" /\ main' = "joined"
    /\ UNCHANGED <<shared, local, is_running, pc, notified, output, appended, dropped,
                   world, aborted>>

Tick ==
    /\ now < MaxTime /\ now' = now + 1
    /\ UNCHANGED <<shared, local, is_running, pc, notified, main, output, appended,
                   dropped, errors, aborted>>

-----------------------------------------------------------------------------
(* threadFunc. *)

Loop ==
    /\ ~aborted /\ pc = "loop"
    /\ IF is_running
       THEN /\ aborted' = ~(newBuffer1 = <<>> /\ newBuffer2 = <<>> /\ buffersToWrite = <<>>)
            /\ pc' = "lock" /\ UNCHANGED output
       ELSE pc' = "exited" /\ output' = FlushOutput(output) /\ UNCHANGED aborted
    /\ UNCHANGED <<shared, local, is_running, notified, main, appended, dropped, world>>

\* Variant: the next buffer is replaced even when it is still there.
SwapBuffersBoth ==
    /\ buffersToWrite' = Append(m_buffers, m_currentBuffer) /\ m_buffers' = <<>>
    /\ m_currentBuffer' = newBuffer1 /\ newBuffer1' = NoBuffer
    /\ m_nextBuffer' = newBuffer2 /\ newBuffer2' = NoBuffer

SwapBuffers ==
    /\ buffersToWrite' = Append(m_buffers, m_currentBuffer) /\ m_buffers' = <<>>
    /\ m_currentBuffer' = newBuffer1 /\ newBuffer1' = NoBuffer
    /\ IF Null(m_nextBuffer) THEN m_nextBuffer' = newBuffer2 /\ newBuffer2' = NoBuffer
                             ELSE UNCHANGED <<m_nextBuffer, newBuffer2>>

LockMutex ==
    /\ ~aborted /\ pc = "lock"
    /\ IF m_buffers = <<>> THEN pc' = "wait" /\ UNCHANGED <<shared, local>>
                           ELSE pc' = "drop" /\ SwapBuffers /\ UNCHANGED written
    /\ notified' = FALSE
    /\ UNCHANGED <<is_running, main, output, appended, dropped, world, aborted>>

\* Variant: the wait has no timeout.
WaitReturnsNotified ==
    /\ ~aborted /\ pc = "wait" /\ notified /\ pc' = "drop" /\ notified' = FALSE
    /\ SwapBuffers /\ UNCHANGED written
    /\ UNCHANGED <<is_running, main, output, appended, dropped, world, aborted>>

\* waitForSeconds returns and the mutex is taken again.
WaitReturns ==
    /\ ~aborted /\ pc = "wait" /\ pc' = "drop" /\ notified' = FALSE
    /\ SwapBuffers /\ UNCHANGED written
    /\ UNCHANGED <<is_running, main, output, appended, dropped, world, aborted>>

\* output.append of lines, of which an error may cost the last few.
Output(lines, sizeFirst, lost) ==
    /\ lost \in 0 .. Len(lines) /\ errors' = errors + (IF lost > 0 THEN 1 ELSE 0)
    /\ errors' <= MaxErrors
    /\ output' = AppendTo(output, lines, Len(lines) - lost, now, sizeFirst)

\* All but the first two buffers are dropped when there are too many.
DropBuffers(sizeFirst, lost) ==
    /\ ~aborted /\ pc = "drop" /\ pc' = "write"
    /\ IF Len(buffersToWrite) > MaxBuffers
       THEN /\ dropped' = dropped \cup Lines(SubSeq(buffersToWrite, 3, Len(buffersToWrite)))
            /\ Output(<<Notice>>, sizeFirst, lost)
            /\ buffersToWrite' = SubSeq(buffersToWrite, 1, 2)
       ELSE UNCHANGED <<dropped, buffersToWrite, output, errors>>
    /\ UNCHANGED <<shared, newBuffer1, newBuffer2, written, is_running, notified, main,
                   appended, now, aborted>>

WriteBuffer(sizeFirst, lost) ==
    /\ ~aborted /\ pc = "write" /\ written < Len(buffersToWrite)
    /\ Output(buffersToWrite[written + 1], sizeFirst, lost)
    /\ written' = written + 1
    /\ UNCHANGED <<shared, newBuffer1, newBuffer2, buffersToWrite, is_running, pc, notified,
                   main, appended, dropped, now, aborted>>

\* Variant: the output is not flushed.
RefillUnflushed ==
    /\ ~aborted /\ pc = "write" /\ written = Len(buffersToWrite) /\ pc' = "loop"
    /\ newBuffer1' = <<>> /\ newBuffer2' = <<>> /\ buffersToWrite' = <<>> /\ written' = 0
    /\ UNCHANGED <<shared, output, is_running, notified, main, appended, dropped, world,
                   aborted>>

\* Two of the written buffers, reset, become the new buffers again.
Refill ==
    LET needed == (IF Null(newBuffer1) THEN 1 ELSE 0) + (IF Null(newBuffer2) THEN 1 ELSE 0) IN
    /\ ~aborted /\ pc = "write" /\ written = Len(buffersToWrite) /\ pc' = "loop"
    /\ aborted' = (needed > Len(buffersToWrite))
    /\ newBuffer1' = <<>> /\ newBuffer2' = <<>>
    /\ buffersToWrite' = <<>> /\ written' = 0 /\ output' = FlushOutput(output)
    /\ UNCHANGED <<shared, is_running, notified, main, appended, dropped, world>>

-----------------------------------------------------------------------------

LoggingThread ==
    \/ Loop \/ LockMutex \/ WaitReturns \/ Refill
    \/ \E sizeFirst \in BOOLEAN, lost \in 0 .. BufferSize :
           DropBuffers(sizeFirst, lost) \/ WriteBuffer(sizeFirst, lost)

Next == LoggingThread \/ AppendLine \/ Start \/ Stop \/ Join \/ Tick

\* The wait ends after m_flushInterval at the latest.
Spec == Init /\ [][Next]_vars /\ WF_vars(LoggingThread) /\ WF_vars(Join)

-----------------------------------------------------------------------------
(* Properties. *)

\* No assertion of threadFunc fails: there are always two empty buffers to
\* swap in, because the buffer that append() used up is among those written.
AssertionsHold == ~aborted

\* The lines of a sequence of buffers increase.
Increase(buffers) ==
    \A p, q \in DOMAIN buffers : \A i \in DOMAIN buffers[p], j \in DOMAIN buffers[q] :
        /\ p < q \/ (p = q /\ i < j)
        /\ buffers[p][i] # Notice /\ buffers[q][j] # Notice
        => buffers[p][i] < buffers[q][j]

\* The lines that have reached the file, those that wait in it, in
\* buffersToWrite, in m_buffers and in m_currentBuffer are, in this order,
\* the lines in the order of append(), without those that were dropped or
\* lost in an error: none is doubled, overtaken or lost in a swap or a roll.
LinesInOrder ==
    LET pending == SubSeq(buffersToWrite, written + 1, Len(buffersToWrite))
        kept == <<output.disk \o output.stdio>> \o pending \o m_buffers \o <<m_currentBuffer>>
    IN  Increase(kept) /\ Lines(kept) = (1 .. appended) \ (dropped \cup Range(output.lost))

\* A line that is appended reaches the disk, unless it is dropped or lost or
\* the logging is stopped.
LinesReachDisk ==
    \A i \in 1 .. MaxLines :
        (appended >= i /\ main = "running") ~>
            (i \in Range(output.disk \o output.lost) \cup dropped \/ main # "running")

\* stop() returns, even when its notify comes before the wait.
StopReturns == main = "stopping" ~> main = "joined"

\* A file is replaced when its size reaches m_rollSize.
RollsBySize == output.rolled # -1 => output.rolled >= m_rollSize
=============================================================================
