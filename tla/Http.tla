-------------------------------- MODULE Http --------------------------------
(***************************************************************************)
(* dc::net::HttpServer on one connection, with its HttpContext: the peer's  *)
(* lines arrive cut anywhere, each read calls onMessage, which parses the   *)
(* complete lines of the input buffer until it has one request and answers  *)
(* it.  A line is a record and takes two units on the wire, so that a read  *)
(* may end inside it (before or within its CRLF).  What a connection does   *)
(* with send() and shutdown() is the guard of TcpConnection: send() is for  *)
(* a connection that is connected.                                          *)
(***************************************************************************)
EXTENDS Integers, Sequences, SequencesExt, FiniteSetsExt

CONSTANTS MaxLines      \* bound on the lines the peer sends

ASSUME HttpAssumption == MaxLines \in Nat

VARIABLES stream,       \* the lines the peer has sent
          received,     \* how many units of them the server has read
          consumed,     \* how many lines it has retrieved from the buffer
          context,      \* the HttpContext
          m_state,      \* of the connection
          httpCallback_,\* "default" or "user"
          handled,      \* the requests given to httpCallback_
          responses,    \* the responses sent
          pipelined,    \* the peer has sent a line before the last answer
          failed        \* setMethod's assertion has failed

vars == <<stream, received, consumed, context, m_state, httpCallback_, handled,
          responses, pipelined, failed>>

(* Lines.  Method is whether the request line begins with GET, POST, PUT or  *)
(* DELETE; version is kUnknown if the line is otherwise not well-formed.     *)

RequestLines ==
    [is : {"request"}, method : {TRUE}, version : {"kHttp10", "kHttp11", "kUnknown"}]
        \cup [is : {"request"}, method : {FALSE}, version : {"kHttp11"}]
HeaderLines == [is : {"header"}, field : {"Connection"}, value : {"close", "Keep-Alive"}]
                   \cup [is : {"header"}, field : {"Other"}, value : {"text"}]
BlankLine == [is |-> "blank"]

\* A line with a space and no colon: a line of a request's body, which nothing
\* reads as one, or a header that is not well-formed.
TextLine == [is |-> "text"]
GoodLine(l) == l.is = "request" /\ l.method /\ l.version # "kUnknown"

NewRequest == [method_ |-> FALSE, version_ |-> "kUnknown",
               headers_ |-> [f \in {"Connection", "Other"} |-> ""]]

NewContext == [state_ |-> "kExpectRequestLine", request_ |-> NewRequest]

Init ==
    /\ stream = <<>> /\ received = 0 /\ consumed = 0 /\ pipelined = FALSE
    /\ context = NewContext /\ m_state = "kConnected"
    /\ httpCallback_ \in {"default", "user"}
    /\ handled = <<>> /\ responses = <<>> /\ failed = FALSE

-----------------------------------------------------------------------------
(* HttpContext: p is the context with parseRequest's local variables. *)

\* A line taken for a request line, perhaps one that was refused and is still
\* in the buffer; setMethod is called if it has a space.
ProcessRequestLine(p, line) ==
    LET set == line.is = "request"
        method == set /\ line.method
        ok == GoodLine(line)
        tried == [p EXCEPT !.failed = @ \/ (line.is # "blank" /\ p.request_.method_),
                           !.request_.method_ = IF line.is = "blank" THEN @ ELSE method]
    IN  IF ok THEN [tried EXCEPT !.request_.version_ = line.version, !.taken = @ + 1,
                                 !.state_ = "kExpectHeaders"]
              ELSE [tried EXCEPT !.ok = FALSE, !.hasMore = FALSE]

\* A line without a colon ends the headers.
ProcessHeader(p, line) ==
    IF line.is = "header"
    THEN [p EXCEPT !.request_.headers_[line.field] = line.value, !.taken = @ + 1]
    ELSE [p EXCEPT !.state_ = "kGotAll", !.hasMore = FALSE, !.taken = @ + 1]

\* Variant: one line for each call.
ParseLineOnce(p, line) ==
    IF ~p.hasMore THEN p
    ELSE [(IF p.state_ = "kExpectRequestLine" THEN ProcessRequestLine(p, line)
                                              ELSE ProcessHeader(p, line))
             EXCEPT !.hasMore = FALSE]

ParseLine(p, line) ==
    IF ~p.hasMore THEN p
    ELSE IF p.state_ = "kExpectRequestLine" THEN ProcessRequestLine(p, line)
    ELSE ProcessHeader(p, line)

\* parseRequest on the complete lines of the buffer.
ParseRequest(c, lines) ==
    FoldLeft(ParseLine, [state_ |-> c.state_, request_ |-> c.request_, hasMore |-> TRUE,
                         ok |-> TRUE, taken |-> 0, failed |-> FALSE], lines)

\* Variant: the headers of the last request stay.
ResetState(c) == [c EXCEPT !.state_ = "kExpectRequestLine", !.request_.method_ = FALSE]

Reset(c) == NewContext

-----------------------------------------------------------------------------
(* HttpServer. *)

\* HttpRequest::getHeader.
GetHeader(request, field) == request.headers_[field]

\* What a request asks for and what the callback makes of it.
KeepsClosing(request) ==
    LET connection == GetHeader(request, "Connection")
    IN  connection = "close" \/ (request.version_ = "kHttp10" /\ connection # "Keep-Alive")

\* What appendToBuffer writes of a response: the status, and "Connection:
\* close" or else a Content-Length and "Connection: Keep-Alive".
Response(statusCode, closeConnection) == [status |-> statusCode, close |-> closeConnection]

\* The default callback closes the connection; the user's leaves it as asked.
HttpCallback(close) ==
    IF httpCallback_ = "default" THEN Response(404, TRUE) ELSE Response(200, close)

\* Variant: a connection that is shut down still sends.
SendUnguarded(c, response) == [c EXCEPT !.responses = Append(@, response)]

\* TcpConnection::send and shutdown.
Send(c, response) ==
    IF c.m_state = "kConnected" THEN [c EXCEPT !.responses = Append(@, response)] ELSE c

Shutdown(c) == IF c.m_state = "kConnected" THEN [c EXCEPT !.m_state = "kDisconnecting"] ELSE c

OnRequest(c, request) ==
    LET response == HttpCallback(KeepsClosing(request))
        sent == Send([c EXCEPT !.handled = Append(@, request)], response)
    IN  IF response.close THEN Shutdown(sent) ELSE sent

BadRequest == Response(400, TRUE)

\* findCRLF finds the end of a line once both of its units are there.
LinesFound(units) == units \div 2

\* A read: the units up to units are in the buffer, and onMessage runs.
OnMessage(units) ==
    \E p \in {ParseRequest(context, SubSeq(stream, consumed + 1, LinesFound(units)))} :
    LET c == [m_state |-> m_state, responses |-> responses, handled |-> handled]
        c1 == IF p.ok THEN c ELSE Shutdown(Send(c, BadRequest))
        c2 == IF p.state_ = "kGotAll" THEN OnRequest(c1, p.request_) ELSE c1
        parsed == [state_ |-> p.state_, request_ |-> p.request_]
    IN  /\ ~failed /\ m_state # "kDisconnected" /\ units > received /\ received' = units
        /\ consumed' = consumed + p.taken
        /\ context' = IF p.state_ = "kGotAll" THEN Reset(parsed) ELSE parsed
        /\ m_state' = c2.m_state /\ responses' = c2.responses /\ handled' = c2.handled
        /\ failed' = p.failed
        /\ UNCHANGED <<stream, httpCallback_, pipelined>>

-----------------------------------------------------------------------------
(* The peer, and the specification by which it reads the stream. *)

HeaderOf(block, field) ==
    LET at == {i \in 2 .. Len(block) - 1 : block[i].field = field}
    IN  IF at = {} THEN "" ELSE block[Max(at)].value

AsRequest(block) ==
    [method_ |-> TRUE, version_ |-> block[1].version,
     headers_ |-> [f \in {"Connection", "Other"} |-> HeaderOf(block, f)]]

\* The requests of a stream from line start on, up to the first that is not
\* well-formed: each is a request line, headers and a line that is no header.
RECURSIVE RequestsFrom(_, _)
RequestsFrom(s, start) ==
    LET ends == {i \in start + 1 .. Len(s) : s[i].is # "header"} IN
    IF ends = {} \/ ~GoodLine(s[start]) THEN <<>>
    ELSE <<AsRequest(SubSeq(s, start, Min(ends)))>> \o RequestsFrom(s, Min(ends) + 1)

Requests(s) == RequestsFrom(s, 1)

BetweenRequests == stream = <<>> \/ Last(stream).is \in {"blank", "text"}

\* A request is followed by the next one or, where it has a body, by text.
PeerSends(line) ==
    /\ ~failed /\ m_state # "kDisconnected" /\ Len(stream) < MaxLines
    /\ line.is \in IF BetweenRequests THEN {"request", "text"} ELSE {"header", "blank", "text"}
    /\ stream' = Append(stream, line)
    /\ pipelined' = (pipelined \/ Len(responses) < Len(Requests(stream)))
    /\ UNCHANGED <<received, consumed, context, m_state, httpCallback_, handled,
                   responses, failed>>

\* The peer closes and TcpConnection::handleClose follows.
PeerCloses ==
    /\ ~failed /\ m_state # "kDisconnected" /\ m_state' = "kDisconnected"
    /\ UNCHANGED <<stream, received, consumed, context, httpCallback_, handled,
                   responses, pipelined, failed>>

Read == \E units \in received + 1 .. 2 * Len(stream) : OnMessage(units)

Next ==
    \/ Read \/ PeerCloses
    \/ \E line \in RequestLines \cup HeaderLines \cup {BlankLine, TextLine} : PeerSends(line)

\* What has arrived is read in the end: the poller is level-triggered.
Spec == Init /\ [][Next]_vars /\ WF_vars(Read)

-----------------------------------------------------------------------------
(* Properties. *)

\* However the stream is cut, the requests that onMessage hands to the
\* callback are the first of the stream's requests, each with its own version
\* and headers and none left over from the request before it.
RequestsAsSent == IsPrefix(handled, Requests(stream))

\* A response that says the connection closes (it has no Content-Length) is
\* the last one on it, and the connection is then shut down; every other is
\* the answer to the request of the same number.
CloseIsLast ==
    /\ \A i \in 1 .. Len(responses) - 1 : ~responses[i].close
    /\ responses # <<>> /\ Last(responses).close => m_state # "kConnected"
    /\ \A i \in 1 .. Len(responses) :
           responses[i].status # 400 => responses[i] = HttpCallback(KeepsClosing(handled[i]))

\* A peer that waits for each answer before its next request gets every one.
RequestsAnswered ==
    LET answered == Len(responses) >= Len(Requests(stream))
    IN  ~answered ~> answered \/ pipelined \/ m_state # "kConnected" \/ failed

\* setMethod's assertion holds: no request line is parsed twice.
MethodSetOnce == ~failed
=============================================================================
