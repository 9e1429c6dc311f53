----------------------------- MODULE EpollPoller -----------------------------
(***************************************************************************)
(* dc::net::EpollPoller and the kernel's epoll set, for the channels of one *)
(* loop.  Descriptors name channels; a channel removed from the poller may  *)
(* be destroyed and its descriptor be taken by a new one.  A channel may    *)
(* change m_events to anything at any time and update itself.               *)
(***************************************************************************)
EXTENDS Integers, FiniteSets, Descriptors

CONSTANT kInitEventListSize  \* the length m_events starts with

ASSUME EpollPollerAssumption ==
    /\ IsFiniteSet(Fds) /\ kInitEventListSize \in Nat \ {0}

VARIABLES events,      \* Channel::m_events of each descriptor's channel
          index,       \* Channel::m_index
          m_channels,  \* the descriptors in Poller::m_channels
          kernel,      \* epoll's set: the events of each descriptor in it
          m_events,    \* the length of the list epoll_wait fills
          active,      \* the channels the last poll reported
          fatal        \* epoll_ctl failed to add or modify

vars == <<events, index, m_channels, kernel, m_events, active, fatal>>

Init ==
    /\ events = [fd \in Fds |-> {}]
    /\ index = [fd \in Fds |-> "kNew"]
    /\ m_channels = {}
    /\ kernel = [fd \in {} |-> {}]
    /\ m_events = kInitEventListSize
    /\ active = {}
    /\ fatal = FALSE

\* Variant: epoll_ctl is not called to delete.
updateWithoutDel(op, fd, ev) ==
    /\ kernel' = IF op = "DEL" THEN kernel
                 ELSE [f \in DOMAIN kernel \cup {fd} |-> IF f = fd THEN ev ELSE kernel[f]]
    /\ fatal' = (fatal \/ (op = "ADD" /\ fd \in DOMAIN kernel)
                       \/ (op = "MOD" /\ fd \notin DOMAIN kernel))

\* epoll_ctl, which fails for an ADD of what is there and a MOD of what is not;
\* a failure of these two ends the process.
update(op, fd, ev) ==
    /\ kernel' = IF op = "DEL"
                 THEN [f \in DOMAIN kernel \ {fd} |-> kernel[f]]
                 ELSE [f \in DOMAIN kernel \cup {fd} |-> IF f = fd THEN ev ELSE kernel[f]]
    /\ fatal' = (fatal \/ (op = "ADD" /\ fd \in DOMAIN kernel)
                       \/ (op = "MOD" /\ fd \notin DOMAIN kernel))

\* updateChannel of a channel whose m_events has become ev.
UpdateChannel(fd, ev) ==
    /\ events' = [events EXCEPT ![fd] = ev]
    /\ \/ /\ index[fd] \in {"kNew", "kDeleted"}
          /\ m_channels' = m_channels \cup {fd}
          /\ index' = [index EXCEPT ![fd] = "kAdded"]
          /\ update("ADD", fd, ev)
       \/ /\ index[fd] = "kAdded" /\ ev = {}
          /\ update("DEL", fd, ev)
          /\ index' = [index EXCEPT ![fd] = "kDeleted"]
          /\ UNCHANGED m_channels
       \/ /\ index[fd] = "kAdded" /\ ev # {}
          /\ update("MOD", fd, ev)
          /\ UNCHANGED <<index, m_channels>>
    /\ UNCHANGED <<m_events, active>>

RemoveChannel(fd) ==
    /\ fd \in m_channels /\ events[fd] = {}
    /\ m_channels' = m_channels \ {fd}
    /\ IF index[fd] = "kAdded" THEN update("DEL", fd, {}) ELSE UNCHANGED <<kernel, fatal>>
    /\ index' = [index EXCEPT ![fd] = "kNew"]
    /\ UNCHANGED <<events, m_events, active>>

\* poll: epoll_wait reports at most m_events of the descriptors in the set;
\* a list that was filled is doubled.
Poll(ready) ==
    /\ ready \subseteq DOMAIN kernel /\ Cardinality(ready) <= m_events
    /\ m_events' = IF Cardinality(ready) = m_events THEN 2 * m_events ELSE m_events
    /\ active' = ready
    /\ UNCHANGED <<events, index, m_channels, kernel, fatal>>

Next ==
    \/ \E fd \in Fds, ev \in Events : UpdateChannel(fd, ev)
    \/ \E fd \in Fds : RemoveChannel(fd)
    \/ \E ready \in SUBSET Fds : Poll(ready)

Spec == Init /\ [][Next]_vars

-----------------------------------------------------------------------------
(* Properties. *)

\* Every variable has its type.
TypeOK ==
    /\ events \in [Fds -> Events]
    /\ index \in [Fds -> {"kNew", "kAdded", "kDeleted"}]
    /\ m_channels \subseteq Fds /\ active \subseteq Fds
    /\ DOMAIN kernel \subseteq Fds
    /\ kernel \in [DOMAIN kernel -> Events]
    /\ m_events \in Nat /\ fatal \in BOOLEAN

\* m_index tells where the channel is: in m_channels unless kNew, in the
\* kernel's set, with the events it asks for, iff kAdded.  The assertions of
\* updateChannel, removeChannel and fillActiveChannels rest on it.
IndexTells ==
    \A fd \in Fds :
        /\ fd \in m_channels <=> index[fd] # "kNew"
        /\ fd \in DOMAIN kernel <=> index[fd] = "kAdded"
        /\ fd \in DOMAIN kernel => kernel[fd] = events[fd]
        /\ fd \in m_channels /\ fd \notin DOMAIN kernel => events[fd] = {}

\* epoll_ctl never fails to add or modify a descriptor, which would end the
\* process: no ADD of one in the set, no MOD of one that is not.
NeverFatal == ~fatal

\* EpollPoller does what EventLoop relies on in Poller.
watch == [fd \in m_channels |-> IF fd \in DOMAIN kernel THEN kernel[fd] ELSE {}]
Abstract == INSTANCE Poller
ImplementsPoller == Abstract!Spec
=============================================================================
