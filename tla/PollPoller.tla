----------------------------- MODULE PollPoller -----------------------------
(***************************************************************************)
(* dc::net::PollPoller: the vector m_pollfds, in which a channel's m_index  *)
(* is its place, and from which a channel is removed by swapping it with    *)
(* the last.  A channel that asks for no event has its descriptor fd stored *)
(* as -fd - 1.  Descriptors name channels: NewChannel destroys the channel  *)
(* of a descriptor and constructs another.                                  *)
(***************************************************************************)
EXTENDS Integers, Sequences, Descriptors

CONSTANT Risks   \* what may happen that an assertion does not survive:
                 \*   "startsIdle"  a channel's first update asks for no event,
                 \*                 as Acceptor::~Acceptor does before listen()
                 \*   "misused"     a channel is updated after it was removed, or
                 \*                 removed twice or with events to ask for

VARIABLES events,      \* Channel::m_events of each descriptor's channel
          index,       \* Channel::m_index; the first place is 0
          m_channels,  \* the descriptors in Poller::m_channels
          m_pollfds,   \* the vector of [fd, events]
          active,      \* the channels the last poll reported
          aborted      \* an assertion failed

vars == <<events, index, m_channels, m_pollfds, active, aborted>>

Ignored(fd) == -fd - 1

Init ==
    /\ events = [fd \in Fds |-> {}]
    /\ index = [fd \in Fds |-> -1]
    /\ m_channels = {}
    /\ m_pollfds = <<>>
    /\ active = {}
    /\ aborted = FALSE

\* A Channel is constructed on a descriptor that no channel is registered for.
NewChannel(fd) ==
    /\ ~aborted /\ fd \notin m_channels
    /\ events' = [events EXCEPT ![fd] = {}]
    /\ index' = [index EXCEPT ![fd] = -1]
    /\ UNCHANGED <<m_channels, m_pollfds, active, aborted>>

\* Variant: every channel that is updated is ignored.
UpdatedFdIgnored(fd, ev) == Ignored(fd)

\* The descriptor updateChannel stores for a channel it has.
UpdatedFd(fd, ev) == IF ev = {} THEN Ignored(fd) ELSE fd

\* updateChannel of a channel whose m_events has become ev.  removeChannel
\* leaves m_index alone, so that a removed channel is looked for in vain.
UpdateChannel(fd, ev) ==
    /\ ~aborted /\ events' = [events EXCEPT ![fd] = ev]
    /\ IF index[fd] < 0
       THEN /\ ev # {} \/ "startsIdle" \in Risks
            /\ m_pollfds' = Append(m_pollfds, [fd |-> fd, events |-> ev])
            /\ index' = [index EXCEPT ![fd] = Len(m_pollfds)]
            /\ m_channels' = m_channels \cup {fd} /\ UNCHANGED aborted
       ELSE IF fd \in m_channels
       THEN /\ m_pollfds' = [m_pollfds EXCEPT ![index[fd] + 1] =
                                [fd |-> UpdatedFd(fd, ev), events |-> ev]]
            /\ UNCHANGED <<index, m_channels, aborted>>
       ELSE /\ "misused" \in Risks
            /\ aborted' = TRUE /\ UNCHANGED <<index, m_channels, m_pollfds>>
    /\ UNCHANGED active

\* The channel whose pollfd is pfd.
ChannelOf(pfd) == IF pfd.fd < 0 THEN Ignored(pfd.fd) ELSE pfd.fd

\* Variant: the channel moved to the freed place is not told.
MovedToSilently(last, place) == index

\* The channel that was last is told its new place.
MovedTo(last, place) == [index EXCEPT ![ChannelOf(last)] = place - 1]

Removable(fd) == fd \in m_channels /\ events[fd] = {}

RemoveChannel(fd) ==
    LET place == index[fd] + 1
        last == m_pollfds[Len(m_pollfds)]
    IN
    /\ ~aborted /\ (Removable(fd) \/ "misused" \in Risks)
    /\ IF ~Removable(fd) \/ m_pollfds[place].fd # Ignored(fd)
       THEN aborted' = TRUE /\ UNCHANGED <<index, m_channels, m_pollfds>>
       ELSE /\ m_channels' = m_channels \ {fd}
            /\ m_pollfds' = SubSeq([m_pollfds EXCEPT ![place] = last], 1, Len(m_pollfds) - 1)
            /\ index' = IF place = Len(m_pollfds) THEN index
                        ELSE MovedTo(last, place)
            /\ UNCHANGED aborted
    /\ UNCHANGED <<events, active>>

\* The channels of the pollfds with an event, found by their descriptors.
FillActiveChannels(ready) ==
    /\ \A fd \in ready : \E i \in 1 .. Len(m_pollfds) : m_pollfds[i].fd = fd
    /\ active' = ready

\* poll reports some of the descriptors that are not negative.
Poll(ready) ==
    /\ ~aborted
    /\ FillActiveChannels(ready)
    /\ UNCHANGED <<events, index, m_channels, m_pollfds, aborted>>

Next ==
    \/ \E fd \in Fds : NewChannel(fd) \/ RemoveChannel(fd)
    \/ \E fd \in Fds, ev \in Events : UpdateChannel(fd, ev)
    \/ \E ready \in SUBSET Fds : Poll(ready)

Spec == Init /\ [][Next]_vars

-----------------------------------------------------------------------------
(* Properties. *)

\* Every variable has its type.
TypeOK ==
    /\ events \in [Fds -> Events]
    /\ index \in [Fds -> Int]
    /\ m_channels \subseteq Fds /\ active \subseteq Fds
    /\ m_pollfds \in Seq([fd : Int, events : Events])
    /\ aborted \in BOOLEAN

\* m_pollfds has one place for each channel of m_channels, the one m_index
\* says, through any swaps by removeChannel.
IndexIsPlace ==
    /\ \A fd \in m_channels :
          /\ index[fd] + 1 \in 1 .. Len(m_pollfds)
          /\ ChannelOf(m_pollfds[index[fd] + 1]) = fd
          /\ m_pollfds[index[fd] + 1].events = events[fd]
    /\ \A i \in 1 .. Len(m_pollfds) :
          ChannelOf(m_pollfds[i]) \in m_channels /\ index[ChannelOf(m_pollfds[i])] = i - 1

\* A channel that asks for no event is not watched, not even for errors.
IdleIsIgnored ==
    \A i \in 1 .. Len(m_pollfds) : m_pollfds[i].fd < 0 <=> m_pollfds[i].events = {}

\* removeChannel finds the pollfd of an idle channel negated (assert,
\* pollPoller.cc:89), and updateChannel finds a channel that has a place in
\* m_channels (pollPoller.cc:62).
AssertionsHold == ~aborted

\* PollPoller does what EventLoop relies on in Poller.
watch == [fd \in m_channels |-> LET pfd == m_pollfds[index[fd] + 1] IN
                                IF pfd.fd = fd THEN pfd.events ELSE {}]
Abstract == INSTANCE Poller
ImplementsPoller == Abstract!Spec
=============================================================================
