------------------------------ MODULE Connector ------------------------------
(***************************************************************************)
(* The methods of dc::net::Connector as functions on the connector's value. *)
(* Its fields are                                                           *)
(*   is_connect, m_state, m_channel, m_retryDelayMs                         *)
(*   queue     m_pendingFunctors of its loop, with the number of the        *)
(*             connection a functor is for, or 0                            *)
(*   timers    how many startInLoop timers retry() has pending              *)
(*   sockets   how many descriptors the client's side has open              *)
(*   up        the descriptor just handed to m_newConnectionCallback        *)
(*   gaveUp    connect() met an error that retry() is not called for        *)
(*   failed    the assertion that failed, or "none"                         *)
(* The functors are bound to a raw `this', the timers to a ConnectorPtr.    *)
(***************************************************************************)
EXTENDS Integers, Sequences, FiniteSetsExt, Channel

CONSTANTS kInitRetryDelayMs, kMaxRetryDelayMs

ASSUME ConnectorAssumption ==
    kInitRetryDelayMs \in Nat \ {0} /\ kMaxRetryDelayMs \in Nat \ {0}

NoChannel == [events |-> {}, index |-> "none"]

Constructed ==
    [is_connect |-> FALSE, m_state |-> "kDisconnected", m_channel |-> NoChannel,
     m_retryDelayMs |-> kInitRetryDelayMs, queue |-> <<>>, timers |-> 0,
     sockets |-> 0, up |-> FALSE, gaveUp |-> FALSE, failed |-> "none"]

\* The value after a step that asserts holds, or the failure.
Asserting(holds, place, before, after) ==
    IF holds THEN after ELSE [before EXCEPT !.failed = place]

Functor(do, c) == [do |-> do, conn |-> c]
QueueInLoop(k, do, c) == [k EXCEPT !.queue = Append(@, Functor(do, c))]

\* Variant: the descriptor is not closed.
RetryLeaking(k) ==
    LET idle == [k EXCEPT !.m_state = "kDisconnected"] IN
    IF ~k.is_connect THEN idle ELSE [idle EXCEPT !.timers = @ + 1]

\* Variant: another try is made only after the first failure.
RetryOnce(k) ==
    LET closed == [k EXCEPT !.sockets = @ - 1, !.m_state = "kDisconnected"] IN
    IF ~k.is_connect \/ k.m_retryDelayMs # kInitRetryDelayMs THEN closed
    ELSE [closed EXCEPT !.timers = @ + 1,
                        !.m_retryDelayMs = Min({@ * 2, kMaxRetryDelayMs})]

Retry(k) ==
    LET closed == [k EXCEPT !.sockets = @ - 1, !.m_state = "kDisconnected"] IN
    IF ~k.is_connect THEN closed
    ELSE [closed EXCEPT !.timers = @ + 1,
                        !.m_retryDelayMs = Min({@ * 2, kMaxRetryDelayMs})]

Connecting(k) ==
    LET connecting == [k EXCEPT !.m_state = "kConnecting"] IN
    Asserting(k.m_channel = NoChannel, "connector.cc:118", connecting,
        [connecting EXCEPT !.m_channel = EnableWriting([events |-> {}, index |-> "kNew"])])

\* What connect(2) may say: success, EINPROGRESS, EINTR or EISCONN; an error
\* worth another try; any other error.
ConnectResults == {"connecting", "retry", "error"}

Connect(k, result) ==
    LET opened == [k EXCEPT !.sockets = @ + 1] IN
    CASE result = "connecting" -> Connecting(opened)
      [] result = "retry" -> Retry(opened)
      [] result = "error" -> [opened EXCEPT !.sockets = @ - 1, !.gaveUp = TRUE]

StartInLoop(k, result) ==
    Asserting(k.m_state = "kDisconnected", "connector.cc:38", k,
              IF k.is_connect THEN Connect(k, result) ELSE k)

Restart(k, result) ==
    StartInLoop([k EXCEPT !.m_state = "kDisconnected", !.is_connect = TRUE,
                          !.m_retryDelayMs = kInitRetryDelayMs], result)

\* m_channel is kept: its handleEvent may be running.
RemoveAndResetChannel(k) ==
    QueueInLoop([k EXCEPT !.m_channel = Remove(DisableAll(@))], "resetChannel", 0)

ResetChannel(k) ==
    Asserting(k.m_channel = NoChannel \/ CanDestroy(k.m_channel), "channel.cc", k,
              [k EXCEPT !.m_channel = NoChannel])

StopInLoop(k) ==
    IF k.m_state = "kConnecting" THEN Retry(RemoveAndResetChannel(k)) ELSE k

\* Variant: the connection is handed over although stop() was called.
HandleWriteUnasked(k, outcome) ==
    IF k.m_state # "kConnecting" THEN k
    ELSE LET removed == RemoveAndResetChannel(k) IN
         IF outcome = "ok" THEN [removed EXCEPT !.m_state = "kConnected", !.up = TRUE]
         ELSE Retry(removed)

\* outcome is "ok", or what SO_ERROR or isSelfConnect says against it.
HandleWrite(k, outcome) ==
    IF k.m_state # "kConnecting"
    THEN Asserting(k.m_state = "kDisconnected", "connector.cc:174", k, k)
    ELSE LET removed == RemoveAndResetChannel(k)
             connected == [removed EXCEPT !.m_state = "kConnected"]
         IN  IF outcome # "ok" THEN Retry(removed)
             ELSE IF k.is_connect THEN [connected EXCEPT !.up = TRUE]
             ELSE [connected EXCEPT !.sockets = @ - 1]

HandleError(k) ==
    IF k.m_state = "kConnecting" THEN Retry(RemoveAndResetChannel(k)) ELSE k

\* The channel's handleEvent: a failed attempt may report POLLERR too.
HandleEvent(k, outcome) ==
    IF outcome = "pollerr" THEN HandleWrite(HandleError(k), outcome)
                           ELSE HandleWrite(k, outcome)

Outcomes == {"ok", "soerror", "selfconnect", "pollerr"}

Stop(k) == QueueInLoop([k EXCEPT !.is_connect = FALSE], "stopInLoop", 0)
=============================================================================
