--------------------------- MODULE TcpConnection ---------------------------
(***************************************************************************)
(* The methods of dc::net::TcpConnection that run in the connection's loop, *)
(* as functions on the connection's value.  The fields of a connection are  *)
(* those of its channel and                                                 *)
(*   state, is_reading                  m_state, is_reading                 *)
(*   out        m_outputBuffer; a byte is its position in the stream        *)
(*   wire, sent the bytes the socket took; how many send() accepted         *)
(*   fin        m_socket->shutdownWrite() was called                        *)
(*   peer       the other end: "open", "fin" after its FIN, "rst" after its *)
(*              RST, "gone" once the error of the RST has been fetched      *)
(*   input      there are bytes to read                                     *)
(*   revents    what the last poll reported                                 *)
(* A method returns the connection after it and the callbacks it queued.    *)
(***************************************************************************)
EXTENDS Integers, Sequences, Channel

CONSTANTS MessageLen,     \* bytes of a message
          HighWaterMark   \* m_highWaterMark

ASSUME TcpConnectionAssumption ==
    MessageLen \in Nat \ {0} /\ HighWaterMark \in Nat

States == {"kDisconnected", "kConnecting", "kConnected", "kDisconnecting"}

Constructed ==
    [state |-> "kConnecting", is_reading |-> FALSE, events |-> {},
     index |-> "kNew", out |-> <<>>, wire |-> <<>>, sent |-> 0, fin |-> FALSE,
     peer |-> "open", input |-> FALSE, revents |-> {}]

\* The assertions of ~TcpConnection and of ~Channel.
Destroyable(c) == c.state = "kDisconnected" /\ CanDestroy(c)

Open(c) == c.state \in {"kConnected", "kDisconnecting"}

Result(c, callbacks) == [conn |-> c, queued |-> callbacks]

-----------------------------------------------------------------------------
(* The kernel's socket, as the methods use it. *)

Fault == -1

\* What write() of len bytes may return; 0 stands for EWOULDBLOCK.
WriteResults(c, len) ==
    IF c.fin \/ c.peer \in {"rst", "gone"} THEN {Fault} ELSE 0 .. len

Readable(c) == c.input \/ c.peer # "open"
HungUp(c) == c.peer \in {"rst", "gone"} \/ (c.peer = "fin" /\ c.fin)

\* The sets of events poll() may report for a channel the kernel watches.
PollEvents(c) ==
    {r \in SUBSET {"in", "out", "hup", "err"} :
        /\ "in" \in r <=> IsReading(c) /\ Readable(c)
        /\ "out" \in r => IsWriting(c)
        /\ "hup" \in r <=> HungUp(c)
        /\ "err" \in r <=> c.peer = "rst"}

-----------------------------------------------------------------------------

\* Variant: output that waits is not waited for.
ShutdownAtOnce(c) == [c EXCEPT !.fin = TRUE]

ShutdownInLoop(c) == IF IsWriting(c) THEN c ELSE [c EXCEPT !.fin = TRUE]

\* Variant: write() is tried whatever waits in m_outputBuffer.
WritesAlways(c) == TRUE

\* Whether sendInLoop tries write() first.
WritesDirectly(c) == ~IsWriting(c) /\ c.out = <<>>

\* One result for every number of bytes the direct write() may take.
SendInLoop(c) ==
    LET message == [i \in 1 .. MessageLen |-> c.sent + i]
        After(nwrote) ==
            LET rest == SubSeq(message, nwrote + 1, MessageLen)
                took == [c EXCEPT !.wire = @ \o SubSeq(message, 1, nwrote),
                                  !.out = @ \o rest,
                                  !.sent = @ + MessageLen]
                crossed == /\ Len(c.out) < HighWaterMark
                           /\ Len(c.out \o rest) >= HighWaterMark
            IN  CASE nwrote = Fault -> Result(c, <<>>)
                  [] nwrote = MessageLen -> Result(took, <<"writeComplete">>)
                  [] OTHER -> Result(IF IsWriting(c) THEN took ELSE EnableWriting(took),
                                     IF crossed THEN <<"highWaterMark">> ELSE <<>>)
    IN  IF c.state = "kDisconnected" THEN {Result(c, <<>>)}
        ELSE {After(n) : n \in IF WritesDirectly(c) THEN WriteResults(c, MessageLen) ELSE {0}}

\* Called with the channel writing: handleEventWithGuard has just tested it.
HandleWrite(c) ==
    LET After(n) ==
            LET took == [c EXCEPT !.wire = @ \o SubSeq(c.out, 1, n),
                                  !.out = SubSeq(c.out, n + 1, Len(c.out))]
                drained == DisableWriting(took)
            IN  CASE n \in {Fault, 0} -> Result(c, <<>>)
                  [] n > 0 /\ n < Len(c.out) -> Result(took, <<>>)
                  [] OTHER -> Result(IF c.state = "kDisconnecting"
                                     THEN ShutdownInLoop(drained) ELSE drained,
                                     <<"writeComplete">>)
    IN  {After(n) : n \in WriteResults(c, Len(c.out))}

\* What handleClose does before it calls the connection callback.
HandleClose(c) == [DisableAll(c) EXCEPT !.state = "kDisconnected"]

\* Variant: a connection that is shutting down is left open.
ForceClosesConnected(c) == c.state = "kConnected"

\* Whether forceCloseInLoop calls handleClose.
ForceCloses(c) == Open(c)

StartReadInLoop(c) ==
    IF ~c.is_reading \/ ~IsReading(c)
    THEN [EnableReading(c) EXCEPT !.is_reading = TRUE] ELSE c

StopReadInLoop(c) ==
    IF c.is_reading \/ IsReading(c)
    THEN [DisableReading(c) EXCEPT !.is_reading = FALSE] ELSE c

\* What connectEstablished does before it calls the connection callback.
ConnectEstablished(c) == [EnableReading(c) EXCEPT !.state = "kConnected"]

\* getsockopt(SO_ERROR) clears the error.
HandleError(c) == [c EXCEPT !.peer = IF @ = "rst" THEN "gone" ELSE @]
=============================================================================
