--------------------------- MODULE DefaultPoller ---------------------------
(***************************************************************************)
(* dc::net::Poller::newDefaultPoller: the loop's poller is a PollPoller if  *)
(* DC_USE_POLL is in the environment and an EpollPoller if it is not.  The  *)
(* variables of EpollPoller have their names; those of PollPoller begin     *)
(* with p_.  The poller that was not made has no channel.                   *)
(***************************************************************************)
EXTENDS EpollPoller

CONSTANT Risks

ASSUME DefaultPollerAssumption == Risks \subseteq {"startsIdle", "misused"}

VARIABLES DC_USE_POLL,
          p_events, p_index, p_channels, m_pollfds, p_active, aborted

pollVars == <<p_events, p_index, p_channels, m_pollfds, p_active, aborted>>
allVars == <<DC_USE_POLL, vars, pollVars>>

PollPoller == INSTANCE PollPoller WITH
    events <- p_events, index <- p_index, m_channels <- p_channels, active <- p_active

NewDefaultPoller ==
    /\ DC_USE_POLL \in BOOLEAN
    /\ Init /\ PollPoller!Init

UseEpollPoller == ~DC_USE_POLL /\ Next /\ UNCHANGED <<DC_USE_POLL, pollVars>>
UsePollPoller == DC_USE_POLL /\ PollPoller!Next /\ UNCHANGED <<DC_USE_POLL, vars>>

UsePoller == UseEpollPoller \/ UsePollPoller

SpecDefault == NewDefaultPoller /\ [][UsePoller]_allVars

-----------------------------------------------------------------------------
\* PollPoller does what EventLoop relies on in Poller.
PollImplementsPoller == PollPoller!ImplementsPoller
=============================================================================
