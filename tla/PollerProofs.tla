---------------------------- MODULE PollerProofs ----------------------------
(***************************************************************************)
(* Proofs about the two pollers, each and as newDefaultPoller chooses one.  *)
(* The first half is about EpollPoller, for any finite set of descriptors,  *)
(* the second about PollPoller.                                             *)
(***************************************************************************)
EXTENDS DefaultPoller, SequenceTheorems, TLAPS

EpollInv == TypeOK /\ IndexTells /\ NeverFatal

\* A poller that was just constructed has no channel and an empty set.
LEMMA EpollInit == Init => EpollInv
BY EpollPollerAssumption DEF Init, EpollInv, TypeOK, IndexTells, NeverFatal, Events

\* updateChannel keeps m_index telling where the channel is.
LEMMA EpollUpdate ==
  ASSUME EpollInv, NEW fd \in Fds, NEW ev \in Events, UpdateChannel(fd, ev)
  PROVE  EpollInv'
<1> USE DEF EpollInv, TypeOK, IndexTells, NeverFatal, Events, UpdateChannel, update
<1>1. CASE index[fd] \in {"kNew", "kDeleted"}
  BY <1>1
<1>2. CASE index[fd] = "kAdded" /\ ev = {}
  BY <1>2
<1>3. CASE index[fd] = "kAdded" /\ ev # {}
  BY <1>3
<1> QED
  BY <1>1, <1>2, <1>3

\* removeChannel leaves nothing of the channel behind.
LEMMA EpollRemove ==
  ASSUME EpollInv, NEW fd \in Fds, RemoveChannel(fd)
  PROVE  EpollInv'
<1> USE DEF EpollInv, TypeOK, IndexTells, NeverFatal, Events, RemoveChannel, update
<1>1. CASE index[fd] = "kAdded"
  BY <1>1
<1>2. CASE index[fd] # "kAdded"
  BY <1>2
<1> QED
  BY <1>1, <1>2

\* poll changes what was reported and the size of the list only.
LEMMA EpollPoll ==
  ASSUME EpollInv, NEW ready \in SUBSET Fds, Poll(ready)
  PROVE  EpollInv'
BY DEF EpollInv, TypeOK, IndexTells, NeverFatal, Poll

\* m_index, m_channels and the kernel's set agree, and epoll_ctl is never
\* called in a way that would end the process.
THEOREM EpollInvariance == Spec => []EpollInv
<1>1. EpollInv /\ [Next]_vars => EpollInv'
  <2> SUFFICES ASSUME EpollInv, [Next]_vars PROVE EpollInv'
    OBVIOUS
  <2>1. CASE UNCHANGED vars
    BY <2>1 DEF EpollInv, TypeOK, IndexTells, NeverFatal, vars
  <2> QED
    BY <2>1, EpollUpdate, EpollRemove, EpollPoll DEF Next
<1> QED
  BY EpollInit, <1>1, PTL DEF Spec

\* epoll_ctl never fails to add or modify a descriptor.
THEOREM EpollCtlSucceeds == Spec => []NeverFatal
BY EpollInvariance, PTL DEF EpollInv

\* m_index tells where a channel is, so the poller's assertions hold.
THEOREM IndexIsRight == Spec => []IndexTells
BY EpollInvariance, PTL DEF EpollInv

-----------------------------------------------------------------------------

\* Every step of EpollPoller is one of Poller or leaves its state alone.
LEMMA EpollStep ==
  EpollInv /\ EpollInv' /\ [Next]_vars => [Abstract!Next]_<<events, watch, active>>
<1> SUFFICES ASSUME EpollInv, EpollInv', [Next]_vars
             PROVE  [Abstract!Next]_<<events, watch, active>>
  OBVIOUS
<1>1. ASSUME NEW fd \in Fds, NEW ev \in Events, UpdateChannel(fd, ev)
      PROVE  Abstract!Next
  <2>1. watch' = [f \in DOMAIN watch \cup {fd} |-> IF f = fd THEN ev ELSE watch[f]]
    <3>1. watch = [f \in m_channels |-> events[f]]
      BY DEF EpollInv, TypeOK, IndexTells, watch
    <3>2. watch' = [f \in m_channels' |-> events'[f]]
      BY DEF EpollInv, TypeOK, IndexTells, watch
    <3>3. m_channels' = m_channels \cup {fd} /\ events' = [events EXCEPT ![fd] = ev]
      BY <1>1 DEF EpollInv, TypeOK, IndexTells, UpdateChannel
    <3> QED
      BY <3>1, <3>2, <3>3 DEF EpollInv, TypeOK
  <2>2. Abstract!UpdateChannel(fd, ev)
    BY <1>1, <2>1 DEF UpdateChannel, Abstract!UpdateChannel
  <2> QED
    BY <2>2 DEF Abstract!Next, Abstract!Events, Events
<1>2. ASSUME NEW fd \in Fds, RemoveChannel(fd)
      PROVE  Abstract!Next
  <2>1. /\ fd \in DOMAIN watch /\ watch[fd] = {}
        /\ watch' = [f \in DOMAIN watch \ {fd} |-> watch[f]]
    BY <1>2 DEF EpollInv, TypeOK, IndexTells, watch, RemoveChannel, update
  <2>2. Abstract!RemoveChannel(fd)
    BY <1>2, <2>1 DEF RemoveChannel, Abstract!RemoveChannel
  <2> QED
    BY <2>2 DEF Abstract!Next
<1>3. ASSUME NEW ready \in SUBSET Fds, Poll(ready)
      PROVE  Abstract!Next
  <2>1. Abstract!Poll
    BY <1>3 DEF EpollInv, TypeOK, IndexTells, watch, Poll, Abstract!Poll
  <2> QED
    BY <2>1 DEF Abstract!Next
<1>4. CASE UNCHANGED vars
  BY <1>4 DEF vars, watch
<1> QED
  BY <1>1, <1>2, <1>3, <1>4 DEF Next

\* EpollPoller does what EventLoop relies on in Poller.
THEOREM EpollImplementsPoller == Spec => ImplementsPoller
<1>1. Init => Abstract!Init
  BY DEF Init, Abstract!Init, watch
<1> QED
  BY EpollInvariance, <1>1, EpollStep, PTL DEF Spec, ImplementsPoller, Abstract!Spec

-----------------------------------------------------------------------------
(* PollPoller. *)

PollFd == [fd : Int, events : PollPoller!Events]

PollInv ==
  /\ PollPoller!TypeOK /\ PollPoller!IndexIsPlace
  /\ (Risks = {} => PollPoller!IdleIsIgnored /\ PollPoller!AssertionsHold)

\* A poller that was just constructed has no channel and no pollfd.
LEMMA PollInit == PollPoller!Init => PollInv
<1> SUFFICES ASSUME PollPoller!Init PROVE PollInv
  OBVIOUS
<1>1. m_pollfds \in Seq(PollFd) /\ Len(m_pollfds) = 0
  BY EmptySeq DEF PollPoller!Init
<1>2. PollPoller!TypeOK
  <2>1. {} \in PollPoller!Events /\ -1 \in Int
    BY DEF PollPoller!Events
  <2> QED
    BY <1>1, <2>1 DEF PollPoller!Init, PollPoller!TypeOK, PollFd
<1>3. PollPoller!IndexIsPlace /\ PollPoller!IdleIsIgnored /\ PollPoller!AssertionsHold
  BY <1>1 DEF PollPoller!Init, PollPoller!IndexIsPlace, PollPoller!IdleIsIgnored,
     PollPoller!AssertionsHold
<1> QED
  BY <1>2, <1>3 DEF PollInv

\* A pollfd, negated or not, is its channel's.
LEMMA ChannelOfPollFd ==
  ASSUME NEW fd \in Fds, NEW ev \in PollPoller!Events
  PROVE  /\ PollPoller!ChannelOf([fd |-> fd, events |-> ev]) = fd
         /\ PollPoller!ChannelOf([fd |-> PollPoller!Ignored(fd), events |-> ev]) = fd
         /\ PollPoller!Ignored(fd) \in Int /\ PollPoller!Ignored(fd) < 0
         /\ fd \in Int /\ ~(fd < 0)
BY DescriptorsAssumption DEF PollPoller!ChannelOf, PollPoller!Ignored

\* A new channel on a descriptor that is not in the poller disturbs no place.
LEMMA PollNew ==
  ASSUME PollInv, NEW fd \in Fds, PollPoller!NewChannel(fd)
  PROVE  PollInv'
<1>1. /\ fd \notin p_channels /\ p_events' = [p_events EXCEPT ![fd] = {}]
      /\ p_index' = [p_index EXCEPT ![fd] = -1]
      /\ UNCHANGED <<p_channels, m_pollfds, p_active, aborted>>
  BY DEF PollPoller!NewChannel
<1>2. PollPoller!TypeOK'
  <2>1. {} \in PollPoller!Events /\ -1 \in Int
    BY DEF PollPoller!Events
  <2> QED
    BY <1>1, <2>1 DEF PollInv, PollPoller!TypeOK
<1>3. \A c \in p_channels : p_index'[c] = p_index[c] /\ p_events'[c] = p_events[c]
  BY <1>1 DEF PollInv, PollPoller!TypeOK
<1>4. PollPoller!IndexIsPlace'
  <2>1. ASSUME NEW c \in p_channels'
        PROVE  /\ p_index'[c] + 1 \in 1 .. Len(m_pollfds')
               /\ PollPoller!ChannelOf(m_pollfds'[p_index'[c] + 1]) = c
               /\ m_pollfds'[p_index'[c] + 1].events = p_events'[c]
    BY <1>1, <1>3 DEF PollInv, PollPoller!IndexIsPlace
  <2>2. ASSUME NEW i \in 1 .. Len(m_pollfds')
        PROVE  /\ PollPoller!ChannelOf(m_pollfds'[i]) \in p_channels'
               /\ p_index'[PollPoller!ChannelOf(m_pollfds'[i])] = i - 1
    BY <1>1, <1>3 DEF PollInv, PollPoller!IndexIsPlace
  <2> QED
    BY <2>1, <2>2 DEF PollPoller!IndexIsPlace, PollPoller!ChannelOf, PollPoller!Ignored
<1>5. Risks = {} => PollPoller!IdleIsIgnored' /\ PollPoller!AssertionsHold'
  BY <1>1 DEF PollInv, PollPoller!IdleIsIgnored, PollPoller!AssertionsHold
<1> QED
  BY <1>2, <1>4, <1>5 DEF PollInv

\* A channel that is added gets the place at the end.
LEMMA PollAdd ==
  ASSUME PollInv, NEW fd \in Fds, NEW ev \in PollPoller!Events,
         PollPoller!UpdateChannel(fd, ev), p_index[fd] < 0,
         fd \notin p_channels
  PROVE  PollInv'
<1> DEFINE pfd == [fd |-> fd, events |-> ev]
           n == Len(m_pollfds)
<1>1. /\ m_pollfds' = Append(m_pollfds, pfd) /\ p_index' = [p_index EXCEPT ![fd] = n]
      /\ p_channels' = p_channels \cup {fd} /\ p_events' = [p_events EXCEPT ![fd] = ev]
      /\ UNCHANGED <<p_active, aborted>> /\ (ev # {} \/ "startsIdle" \in Risks)
  BY DEF PollPoller!UpdateChannel, PollPoller!UpdatedFd
<1>2. pfd \in PollFd /\ n \in Nat /\ m_pollfds \in Seq(PollFd)
  BY ChannelOfPollFd, LenProperties DEF PollInv, PollPoller!TypeOK, PollFd
<1>3. /\ m_pollfds' \in Seq(PollFd) /\ Len(m_pollfds') = n + 1
      /\ \A i \in 1 .. n : m_pollfds'[i] = m_pollfds[i]
      /\ m_pollfds'[n + 1] = pfd
  BY <1>1, <1>2, AppendProperties
<1>4. PollPoller!ChannelOf(pfd) = fd /\ ~(pfd.fd < 0)
  BY ChannelOfPollFd
<1> HIDE DEF pfd
<1>5. PollPoller!TypeOK'
  BY <1>1, <1>2, <1>3 DEF PollInv, PollPoller!TypeOK, PollFd
<1>6. PollPoller!IndexIsPlace'
  <2>1. ASSUME NEW c \in p_channels'
        PROVE  /\ p_index'[c] + 1 \in 1 .. Len(m_pollfds')
               /\ PollPoller!ChannelOf(m_pollfds'[p_index'[c] + 1]) = c
               /\ m_pollfds'[p_index'[c] + 1].events = p_events'[c]
    <3>1. CASE c = fd
      <4>1. p_index'[c] = n /\ p_events'[c] = ev
        BY <1>1, <3>1 DEF PollInv, PollPoller!TypeOK
      <4>2. pfd.events = ev
        BY DEF pfd
      <4> QED
        BY <1>2, <1>3, <1>4, <3>1, <4>1, <4>2
    <3>2. CASE c # fd
      <4>1. /\ p_index[c] + 1 \in 1 .. n /\ PollPoller!ChannelOf(m_pollfds[p_index[c] + 1]) = c
            /\ m_pollfds[p_index[c] + 1].events = p_events[c]
        BY <1>1, <3>2 DEF PollInv, PollPoller!IndexIsPlace
      <4>2. p_index'[c] = p_index[c] /\ p_events'[c] = p_events[c]
        BY <1>1, <3>2 DEF PollInv, PollPoller!TypeOK
      <4> QED
        BY <1>2, <1>3, <4>1, <4>2
    <3> QED
      BY <3>1, <3>2
  <2>2. ASSUME NEW i \in 1 .. Len(m_pollfds')
        PROVE  /\ PollPoller!ChannelOf(m_pollfds'[i]) \in p_channels'
               /\ p_index'[PollPoller!ChannelOf(m_pollfds'[i])] = i - 1
    <3>1. CASE i = n + 1
      BY <1>1, <1>3, <1>4, <1>2, <3>1 DEF PollInv, PollPoller!TypeOK
    <3>2. CASE i \in 1 .. n
      BY <1>1, <1>3, <3>2 DEF PollInv, PollPoller!TypeOK, PollPoller!IndexIsPlace
    <3> QED
      BY <1>2, <1>3, <3>1, <3>2
  <2> QED
    BY <2>1, <2>2 DEF PollPoller!IndexIsPlace, PollPoller!ChannelOf, PollPoller!Ignored
<1>7. Risks = {} => PollPoller!IdleIsIgnored' /\ PollPoller!AssertionsHold'
  <2> SUFFICES ASSUME Risks = {}
               PROVE  PollPoller!IdleIsIgnored' /\ PollPoller!AssertionsHold'
    OBVIOUS
  <2>1. ASSUME NEW i \in 1 .. Len(m_pollfds')
        PROVE  m_pollfds'[i].fd < 0 <=> m_pollfds'[i].events = {}
    <3>1. CASE i = n + 1
      BY <1>1, <1>3, <1>4, <3>1 DEF pfd
    <3>2. CASE i \in 1 .. n
      BY <1>3, <3>2 DEF PollInv, PollPoller!IdleIsIgnored
    <3> QED
      BY <1>2, <1>3, <3>1, <3>2
  <2> QED
    BY <1>1, <2>1 DEF PollPoller!IdleIsIgnored, PollPoller!AssertionsHold, PollInv
<1> QED
  BY <1>5, <1>6, <1>7 DEF PollInv

\* A channel that is in the poller keeps its place.
LEMMA PollModify ==
  ASSUME PollInv, NEW fd \in Fds, NEW ev \in PollPoller!Events,
         PollPoller!UpdateChannel(fd, ev), fd \in p_channels
  PROVE  PollInv'
<1> DEFINE pfd == [fd |-> IF ev = {} THEN PollPoller!Ignored(fd) ELSE fd, events |-> ev]
           p == p_index[fd] + 1
           n == Len(m_pollfds)
<1>1. p \in 1 .. n /\ n \in Nat /\ m_pollfds \in Seq(PollFd)
  BY LenProperties DEF PollInv, PollPoller!IndexIsPlace, PollPoller!TypeOK, PollFd
<1>2. /\ m_pollfds' = [m_pollfds EXCEPT ![p] = pfd] /\ UNCHANGED <<p_index, p_channels>>
      /\ p_events' = [p_events EXCEPT ![fd] = ev] /\ UNCHANGED <<p_active, aborted>>
  BY <1>1 DEF PollPoller!UpdateChannel, PollPoller!UpdatedFd, PollInv, PollPoller!TypeOK
<1>3. /\ pfd \in PollFd /\ PollPoller!ChannelOf(pfd) = fd
      /\ (pfd.fd < 0 <=> ev = {}) /\ pfd.events = ev
  BY ChannelOfPollFd DEF PollFd
<1> HIDE DEF pfd
<1>4. /\ m_pollfds' \in Seq(PollFd) /\ Len(m_pollfds') = n
      /\ \A j \in 1 .. n : m_pollfds'[j] = IF j = p THEN pfd ELSE m_pollfds[j]
  BY <1>1, <1>2, <1>3, ExceptSeq
<1>5. PollPoller!TypeOK'
  BY <1>2, <1>4 DEF PollInv, PollPoller!TypeOK, PollFd
<1>6. PollPoller!IndexIsPlace'
  <2>1. ASSUME NEW c \in p_channels'
        PROVE  /\ p_index'[c] + 1 \in 1 .. Len(m_pollfds')
               /\ PollPoller!ChannelOf(m_pollfds'[p_index'[c] + 1]) = c
               /\ m_pollfds'[p_index'[c] + 1].events = p_events'[c]
    <3>1. CASE c = fd
      <4>1. p_events'[c] = ev
        BY <1>2, <3>1 DEF PollInv, PollPoller!TypeOK
      <4> QED
        BY <1>1, <1>2, <1>3, <1>4, <3>1, <4>1
    <3>2. CASE c # fd
      <4>1. /\ p_index[c] + 1 \in 1 .. n /\ PollPoller!ChannelOf(m_pollfds[p_index[c] + 1]) = c
            /\ m_pollfds[p_index[c] + 1].events = p_events[c]
            /\ PollPoller!ChannelOf(m_pollfds[p]) = fd
        BY <1>2 DEF PollInv, PollPoller!IndexIsPlace
      <4>2. p_index[c] + 1 # p /\ p_events'[c] = p_events[c]
        BY <1>2, <3>2, <4>1 DEF PollInv, PollPoller!TypeOK
      <4>3. m_pollfds'[p_index[c] + 1] = m_pollfds[p_index[c] + 1]
        BY <1>4, <4>1, <4>2
      <4> QED
        BY <1>2, <1>4, <4>1, <4>2, <4>3
    <3> QED
      BY <3>1, <3>2
  <2>2. ASSUME NEW i \in 1 .. Len(m_pollfds')
        PROVE  /\ PollPoller!ChannelOf(m_pollfds'[i]) \in p_channels'
               /\ p_index'[PollPoller!ChannelOf(m_pollfds'[i])] = i - 1
    <3>1. i \in 1 .. n
      BY <1>4
    <3>2. CASE i = p
      <4>1. PollPoller!ChannelOf(m_pollfds'[i]) = fd
        BY <1>3, <1>4, <3>1, <3>2
      <4>2. p_index[fd] \in Int
        BY DEF PollInv, PollPoller!TypeOK
      <4> QED
        BY <1>2, <3>2, <4>1, <4>2
    <3>3. CASE i # p
      <4>1. m_pollfds'[i] = m_pollfds[i]
        BY <1>4, <3>1, <3>3
      <4> QED
        BY <1>2, <3>1, <4>1 DEF PollInv, PollPoller!IndexIsPlace
    <3> QED
      BY <3>2, <3>3
  <2> QED
    BY <2>1, <2>2 DEF PollPoller!IndexIsPlace, PollPoller!ChannelOf, PollPoller!Ignored
<1>7. Risks = {} => PollPoller!IdleIsIgnored' /\ PollPoller!AssertionsHold'
  <2> SUFFICES ASSUME Risks = {}
               PROVE  PollPoller!IdleIsIgnored' /\ PollPoller!AssertionsHold'
    OBVIOUS
  <2>1. \A i \in 1 .. n : m_pollfds[i].fd < 0 <=> m_pollfds[i].events = {}
    BY DEF PollInv, PollPoller!IdleIsIgnored
  <2>2. \A i \in 1 .. n : m_pollfds'[i].fd < 0 <=> m_pollfds'[i].events = {}
    BY <1>3, <1>4, <2>1
  <2> QED
    BY <1>2, <1>4, <2>2 DEF PollInv, PollPoller!IdleIsIgnored, PollPoller!AssertionsHold
<1> QED
  BY <1>5, <1>6, <1>7 DEF PollInv

\* An update or a removal that an assertion stops changes no place.
LEMMA PollAborts ==
  ASSUME PollInv, aborted' = TRUE, Risks # {}, UNCHANGED <<p_index, p_channels, m_pollfds, p_active>>,
         NEW fd \in Fds, NEW ev \in PollPoller!Events,
         p_events' = p_events \/ (fd \notin p_channels /\ p_events' = [p_events EXCEPT ![fd] = ev])
  PROVE  PollInv'
<1>1. PollPoller!TypeOK'
  BY DEF PollInv, PollPoller!TypeOK
<1>2. \A f \in p_channels : p_events'[f] = p_events[f]
  BY DEF PollInv, PollPoller!TypeOK
<1>3. PollPoller!IndexIsPlace'
  BY <1>2 DEF PollInv, PollPoller!IndexIsPlace
<1> QED
  BY <1>1, <1>3 DEF PollInv

\* A channel that is removed gives its place to the last one.
LEMMA PollRemove ==
  ASSUME PollInv, NEW fd \in Fds, PollPoller!RemoveChannel(fd), PollPoller!Removable(fd)
  PROVE  PollInv'
<1> DEFINE p == p_index[fd] + 1
           n == Len(m_pollfds)
           last == m_pollfds[n]
           moved == [m_pollfds EXCEPT ![p] = last]
<1>1. fd \in p_channels /\ p_events[fd] = {} /\ UNCHANGED <<p_events, p_active>> /\ ~aborted
  BY DEF PollPoller!RemoveChannel, PollPoller!MovedTo, PollPoller!Removable
<1>2. /\ p \in 1 .. n /\ n \in Nat /\ m_pollfds \in Seq(PollFd)
      /\ PollPoller!ChannelOf(m_pollfds[p]) = fd /\ m_pollfds[p].events = {}
  BY <1>1, LenProperties DEF PollInv, PollPoller!IndexIsPlace, PollPoller!TypeOK, PollFd
<1>3. CASE m_pollfds[p].fd # PollPoller!Ignored(fd)
  <2>1. Risks # {}
    <3>1. m_pollfds[p].fd \in Int /\ fd \in Int
      <4>1. m_pollfds[p] \in PollFd
        BY <1>2, ElementOfSeq
      <4>2. fd \in Int
        BY DescriptorsAssumption
      <4> QED
        BY <4>1, <4>2 DEF PollFd
    <3>2. ~(m_pollfds[p].fd < 0)
      BY <1>2, <1>3, <3>1 DEF PollPoller!ChannelOf, PollPoller!Ignored
    <3> QED
      BY <1>2, <3>2 DEF PollInv, PollPoller!IdleIsIgnored
  <2>2. aborted' = TRUE /\ UNCHANGED <<p_index, p_channels, m_pollfds, p_events, p_active>>
    BY <1>1, <1>3 DEF PollPoller!RemoveChannel
  <2>3. PollPoller!TypeOK'
    BY <2>2 DEF PollInv, PollPoller!TypeOK
  <2>4. PollPoller!IndexIsPlace'
    BY <2>2 DEF PollInv, PollPoller!IndexIsPlace
  <2> QED
    BY <2>1, <2>3, <2>4 DEF PollInv
<1>4. CASE m_pollfds[p].fd = PollPoller!Ignored(fd)
  <2>1. /\ p_channels' = p_channels \ {fd} /\ m_pollfds' = SubSeq(moved, 1, n - 1)
        /\ p_index' = IF p = n THEN p_index
                      ELSE [p_index EXCEPT ![PollPoller!ChannelOf(last)] = p - 1]
        /\ UNCHANGED aborted
    BY <1>4 DEF PollPoller!RemoveChannel, PollPoller!MovedTo
  <2>2. /\ last \in PollFd /\ PollPoller!ChannelOf(last) \in p_channels
        /\ p_index[PollPoller!ChannelOf(last)] = n - 1
    BY <1>2, ElementOfSeq DEF PollInv, PollPoller!IndexIsPlace
  <2>3. /\ moved \in Seq(PollFd)
        /\ \A j \in 1 .. n : moved[j] = IF j = p THEN last ELSE m_pollfds[j]
    BY <1>2, <2>2, ExceptSeq
  <2> HIDE DEF moved
  <2>4. /\ m_pollfds' \in Seq(PollFd) /\ Len(m_pollfds') = n - 1
        /\ \A j \in 1 .. n - 1 : m_pollfds'[j] = IF j = p THEN last ELSE m_pollfds[j]
    <3>1. ASSUME NEW j \in 1 .. n - 1 PROVE moved[j] \in PollFd
      <4>1. j \in 1 .. n
        <5>1. n \in Nat
          BY <1>2
        <5> HIDE DEF n
        <5> QED
          BY <5>1
      <4>2. m_pollfds[j] \in PollFd
        BY <1>2, <4>1, ElementOfSeq
      <4> QED
        BY <2>2, <2>3, <4>1, <4>2
    <3>2. /\ SubSeq(moved, 1, n - 1) \in Seq(PollFd)
          /\ Len(SubSeq(moved, 1, n - 1)) = n - 1
          /\ \A j \in 1 .. n - 1 : SubSeq(moved, 1, n - 1)[j] = moved[j]
      <4> DEFINE k == n - 1
      <4>1. k \in Nat /\ k - 1 + 1 = k /\ (1 <= k \/ k = 0)
        <5>1. p \in 1 .. n /\ n \in Nat
          BY <1>2
        <5> HIDE DEF p, n
        <5> QED
          BY <5>1
      <4>2. \A j \in 1 .. k : moved[j] \in PollFd
        BY <3>1
      <4> HIDE DEF k
      <4>3. /\ SubSeq(moved, 1, k) \in Seq(PollFd)
            /\ Len(SubSeq(moved, 1, k)) = IF 1 <= k THEN k - 1 + 1 ELSE 0
            /\ \A j \in 1 .. k - 1 + 1 : SubSeq(moved, 1, k)[j] = moved[1 + j - 1]
        BY <4>1, <4>2, SubSeqProperties
      <4>4. /\ SubSeq(moved, 1, k) \in Seq(PollFd) /\ Len(SubSeq(moved, 1, k)) = k
            /\ \A j \in 1 .. k : SubSeq(moved, 1, k)[j] = moved[j]
        BY <4>1, <4>3
      <4> QED
        BY <4>4 DEF k
    <3>3. \A j \in 1 .. n - 1 : moved[j] = IF j = p THEN last ELSE m_pollfds[j]
      BY <1>2, <2>3
    <3> HIDE DEF moved, p, n, last
    <3> QED
      BY <2>1, <3>2, <3>3, Zenon
  <2> HIDE DEF last
  <2>5. p_index' \in [Fds -> Int]
    BY <1>2, <2>1, <2>2 DEF PollInv, PollPoller!TypeOK
  <2>6. PollPoller!TypeOK'
    BY <1>1, <2>1, <2>4, <2>5 DEF PollInv, PollPoller!TypeOK, PollFd
  <2>7. PollPoller!IndexIsPlace'
    <3>1. ASSUME NEW c \in p_channels'
          PROVE  /\ p_index'[c] + 1 \in 1 .. Len(m_pollfds')
                 /\ PollPoller!ChannelOf(m_pollfds'[p_index'[c] + 1]) = c
                 /\ m_pollfds'[p_index'[c] + 1].events = p_events'[c]
      <4>0. /\ c \in p_channels /\ c # fd /\ p_index[c] + 1 \in 1 .. n
            /\ PollPoller!ChannelOf(m_pollfds[p_index[c] + 1]) = c
            /\ m_pollfds[p_index[c] + 1].events = p_events[c]
        BY <2>1 DEF PollInv, PollPoller!IndexIsPlace
      <4>1. CASE c = PollPoller!ChannelOf(last)
        <5>1. p # n
          BY <1>2, <4>0, <4>1 DEF last
        <5>2. p_index'[c] + 1 = p /\ p \in 1 .. n - 1
          BY <1>2, <2>1, <2>2, <4>1, <5>1 DEF PollInv, PollPoller!TypeOK
        <5>3. p_index[c] + 1 = n
          BY <1>2, <2>2, <4>1 DEF PollInv, PollPoller!TypeOK
        <5> QED
          BY <1>1, <2>4, <4>0, <4>1, <5>2, <5>3 DEF last
      <4>2. CASE c # PollPoller!ChannelOf(last)
        <5>1. p_index'[c] = p_index[c]
          BY <2>1, <2>2, <4>2, <4>0 DEF PollInv, PollPoller!TypeOK
        <5>2. p_index[c] + 1 # n
          BY <4>0, <4>2 DEF last
        <5>3. p_index[c] + 1 # p
          BY <1>2, <4>0
        <5>4. p_index[c] + 1 \in 1 .. n - 1
          <6>1. p_index[c] + 1 \in 1 .. n /\ n \in Nat
            BY <1>2, <4>0
          <6> HIDE DEF n
          <6> QED
            BY <5>2, <6>1
        <5>5. m_pollfds'[p_index[c] + 1] = m_pollfds[p_index[c] + 1]
          BY <2>4, <5>3, <5>4
        <5>6. p_events'[c] = p_events[c] /\ Len(m_pollfds') = n - 1
          BY <1>1, <2>4
        <5> QED
          BY <4>0, <5>1, <5>4, <5>5, <5>6
      <4> QED
        BY <4>1, <4>2
    <3>2. ASSUME NEW i \in 1 .. Len(m_pollfds')
          PROVE  /\ PollPoller!ChannelOf(m_pollfds'[i]) \in p_channels'
                 /\ p_index'[PollPoller!ChannelOf(m_pollfds'[i])] = i - 1
      <4>0. i \in 1 .. n - 1 /\ i \in 1 .. n /\ i # n
        BY <1>2, <2>4
      <4>1. CASE i = p
        <5>1. PollPoller!ChannelOf(last) # fd
          BY <1>2, <2>2, <4>0, <4>1 DEF PollInv, PollPoller!TypeOK
        <5> QED
          BY <1>2, <2>1, <2>2, <2>4, <4>0, <4>1, <5>1 DEF PollInv, PollPoller!TypeOK
      <4>2. CASE i # p
        <5> DEFINE c == PollPoller!ChannelOf(m_pollfds[i])
        <5>1. m_pollfds'[i] = m_pollfds[i] /\ c \in p_channels /\ p_index[c] = i - 1
          BY <2>4, <4>0, <4>2 DEF PollInv, PollPoller!IndexIsPlace
        <5>2. c # fd /\ c # PollPoller!ChannelOf(last)
          BY <1>2, <2>2, <4>0, <4>2, <5>1
        <5> QED
          BY <2>1, <2>2, <5>1, <5>2 DEF PollInv, PollPoller!TypeOK
      <4> QED
        BY <4>1, <4>2
    <3> QED
      BY <3>1, <3>2 DEF PollPoller!IndexIsPlace, PollPoller!ChannelOf, PollPoller!Ignored
  <2>8. Risks = {} => PollPoller!IdleIsIgnored' /\ PollPoller!AssertionsHold'
    <3> SUFFICES ASSUME Risks = {}
                 PROVE  PollPoller!IdleIsIgnored' /\ PollPoller!AssertionsHold'
      OBVIOUS
    <3>1. ASSUME NEW i \in 1 .. n - 1
          PROVE  m_pollfds'[i].fd < 0 <=> m_pollfds'[i].events = {}
      <4>1. i \in 1 .. n /\ n \in 1 .. n
        BY <1>2
      <4> QED
        BY <2>4, <4>1 DEF PollInv, PollPoller!IdleIsIgnored, last
    <3> QED
      BY <2>1, <2>4, <3>1 DEF PollInv, PollPoller!IdleIsIgnored, PollPoller!AssertionsHold
  <2> QED
    BY <2>6, <2>7, <2>8 DEF PollInv
<1> QED
  BY <1>3, <1>4

\* poll changes what was reported only.
LEMMA PollPoll ==
  ASSUME PollInv, NEW ready \in SUBSET Fds, PollPoller!Poll(ready)
  PROVE  PollInv'
BY DEF PollInv, PollPoller!TypeOK, PollPoller!IndexIsPlace, PollPoller!IdleIsIgnored,
   PollPoller!AssertionsHold, PollPoller!Poll, PollPoller!FillActiveChannels

\* Every call of the poller keeps the places.
LEMMA PollNext == PollInv /\ [PollPoller!Next]_(PollPoller!vars) => PollInv'
<1> SUFFICES ASSUME PollInv, [PollPoller!Next]_(PollPoller!vars) PROVE PollInv'
  OBVIOUS
<1>1. ASSUME NEW fd \in Fds, NEW ev \in PollPoller!Events,
             PollPoller!UpdateChannel(fd, ev)
      PROVE  PollInv'
  <2>1. p_index[fd] < 0 => fd \notin p_channels
    BY DEF PollInv, PollPoller!TypeOK, PollPoller!IndexIsPlace
  <2>2. CASE ~(p_index[fd] < 0) /\ fd \notin p_channels
    <3>1. /\ aborted' = TRUE /\ Risks # {} /\ UNCHANGED <<p_index, p_channels, m_pollfds, p_active>>
          /\ p_events' = [p_events EXCEPT ![fd] = ev]
      BY <1>1, <2>2 DEF PollPoller!UpdateChannel
    <3> QED
      BY <2>2, <3>1, PollAborts
  <2> QED
    BY <1>1, <2>1, <2>2, PollAdd, PollModify
<1>3. ASSUME NEW fd \in Fds, PollPoller!RemoveChannel(fd) PROVE PollInv'
  <2>1. CASE ~PollPoller!Removable(fd)
    <3>1. /\ aborted' = TRUE /\ Risks # {}
          /\ UNCHANGED <<p_events, p_index, p_channels, m_pollfds, p_active>>
      BY <1>3, <2>1 DEF PollPoller!RemoveChannel
    <3>2. {} \in PollPoller!Events
      BY DEF PollPoller!Events
    <3> QED
      BY <3>1, <3>2, PollAborts
  <2> QED
    BY <1>3, <2>1, PollRemove
<1>2. CASE UNCHANGED PollPoller!vars
  BY <1>2 DEF PollInv, PollPoller!TypeOK, PollPoller!IndexIsPlace, PollPoller!IdleIsIgnored,
     PollPoller!AssertionsHold, PollPoller!vars
<1> QED
  BY <1>1, <1>2, <1>3, PollNew, PollPoll DEF PollPoller!Next

\* The inductive invariant.
THEOREM PollInvariance == PollPoller!Spec => []PollInv
BY PollInit, PollNext, PTL DEF PollPoller!Spec

\* The places of m_pollfds and the indexes of the channels stay inverse to
\* each other, through any sequence of additions and swapping removals.
THEOREM PlacesAreRight == PollPoller!Spec => []PollPoller!IndexIsPlace
BY PollInvariance, PTL DEF PollInv

\* When no channel starts idle and none is used after it was removed, exactly
\* the idle channels are ignored by poll and the assertions of updateChannel and
\* removeChannel hold.
THEOREM RemoveSucceeds ==
  ASSUME Risks = {}
  PROVE  PollPoller!Spec => [](PollPoller!IdleIsIgnored /\ PollPoller!AssertionsHold)
<1>1. PollInv => PollPoller!IdleIsIgnored /\ PollPoller!AssertionsHold
  BY DEF PollInv
<1> QED
  BY PollInvariance, <1>1, PTL

-----------------------------------------------------------------------------

\* Whether negated or not, a channel's pollfd watches for the events the
\* channel asks for: a negated one has none.
LEMMA WatchIsEvents ==
  PollInv /\ Risks = {} => PollPoller!watch = [f \in p_channels |-> p_events[f]]
<1> SUFFICES ASSUME PollInv, Risks = {}, NEW fd \in p_channels
             PROVE  PollPoller!watch[fd] = p_events[fd]
  BY DEF PollPoller!watch
<1> DEFINE pfd == m_pollfds[p_index[fd] + 1]
<1>1. /\ p_index[fd] + 1 \in 1 .. Len(m_pollfds) /\ PollPoller!ChannelOf(pfd) = fd
      /\ pfd.events = p_events[fd] /\ (pfd.fd < 0 <=> pfd.events = {})
  BY DEF PollInv, PollPoller!IndexIsPlace, PollPoller!IdleIsIgnored
<1>2. PollPoller!watch[fd] = IF pfd.fd = fd THEN pfd.events ELSE {}
  BY DEF PollPoller!watch
<1>3. pfd.fd < 0 \/ pfd.fd = fd
  BY <1>1 DEF PollPoller!ChannelOf
<1> QED
  BY <1>1, <1>2, <1>3

\* Every step of PollPoller is one of Poller or leaves its state alone.
LEMMA PollStep ==
  ASSUME PollInv, PollInv', [PollPoller!Next]_(PollPoller!vars), Risks = {}
  PROVE  [PollPoller!Abstract!Next]_<<p_events, PollPoller!watch, p_active>>
<1>0. /\ PollPoller!watch = [f \in p_channels |-> p_events[f]]
      /\ PollPoller!watch' = [f \in p_channels' |-> p_events'[f]]
      /\ p_events \in [Fds -> PollPoller!Events] /\ p_channels \subseteq Fds
  <2>1. PollPoller!watch' = [f \in p_channels' |-> p_events'[f]]
    <3>1. (PollInv /\ Risks = {} => PollPoller!watch = [f \in p_channels |-> p_events[f]])'
      BY WatchIsEvents, PTL
    <3> QED
      BY <3>1
  <2> QED
    BY <2>1, WatchIsEvents DEF PollInv, PollPoller!TypeOK
<1>1. ASSUME NEW fd \in Fds, NEW ev \in PollPoller!Events, PollPoller!UpdateChannel(fd, ev)
      PROVE  PollPoller!Abstract!Next
  <2>1. p_channels' = p_channels \cup {fd} /\ p_events' = [p_events EXCEPT ![fd] = ev]
        /\ UNCHANGED p_active
    BY <1>1 DEF PollPoller!UpdateChannel, PollPoller!UpdatedFd, PollInv, PollPoller!TypeOK
  <2>2. PollPoller!watch' = [f \in DOMAIN PollPoller!watch \cup {fd} |->
                              IF f = fd THEN ev ELSE PollPoller!watch[f]]
    BY <1>0, <2>1
  <2>3. PollPoller!Abstract!UpdateChannel(fd, ev)
    BY <2>1, <2>2 DEF PollPoller!Abstract!UpdateChannel
  <2> QED
    BY <2>3 DEF PollPoller!Abstract!Next, PollPoller!Abstract!Events, PollPoller!Events
<1>2. ASSUME NEW fd \in Fds, PollPoller!RemoveChannel(fd)
      PROVE  PollPoller!Abstract!Next
  <2>1. /\ fd \in p_channels /\ p_events[fd] = {} /\ UNCHANGED <<p_events, p_active>>
        /\ p_channels' = p_channels \ {fd}
    BY <1>2 DEF PollPoller!RemoveChannel, PollPoller!Removable, PollPoller!MovedTo, PollInv,
       PollPoller!AssertionsHold
  <2>2. PollPoller!Abstract!RemoveChannel(fd)
    BY <1>0, <2>1 DEF PollPoller!Abstract!RemoveChannel
  <2> QED
    BY <2>2 DEF PollPoller!Abstract!Next
<1>3. ASSUME NEW fd \in Fds, PollPoller!NewChannel(fd)
      PROVE  PollPoller!Abstract!Next
  <2>1. PollPoller!Abstract!NewChannel(fd)
    BY <1>0, <1>3 DEF PollPoller!NewChannel, PollPoller!Abstract!NewChannel
  <2> QED
    BY <2>1 DEF PollPoller!Abstract!Next
<1>4. ASSUME NEW ready \in SUBSET Fds, PollPoller!Poll(ready)
      PROVE  PollPoller!Abstract!Next
  <2>1. \A fd \in ready : fd \in p_channels
    <3> SUFFICES ASSUME NEW fd \in ready PROVE fd \in p_channels
      OBVIOUS
    <3>1. PICK i \in 1 .. Len(m_pollfds) : m_pollfds[i].fd = fd
      BY <1>4 DEF PollPoller!Poll, PollPoller!FillActiveChannels
    <3>2. fd \in Nat
      BY DescriptorsAssumption
    <3>3. ~(m_pollfds[i].fd < 0)
      BY <3>1, <3>2
    <3>4. PollPoller!ChannelOf(m_pollfds[i]) = fd
      BY <3>1, <3>3 DEF PollPoller!ChannelOf
    <3> QED
      BY <3>4 DEF PollInv, PollPoller!IndexIsPlace
  <2>2. PollPoller!Abstract!Poll
    BY <1>0, <1>4, <2>1 DEF PollPoller!Poll, PollPoller!FillActiveChannels,
       PollPoller!Abstract!Poll
  <2> QED
    BY <2>2 DEF PollPoller!Abstract!Next
<1>5. CASE UNCHANGED PollPoller!vars
  BY <1>0, <1>5 DEF PollPoller!vars
<1> QED
  BY <1>1, <1>2, <1>3, <1>4, <1>5 DEF PollPoller!Next

\* When no channel starts idle and none is used after it was removed, PollPoller
\* does what EventLoop relies on in Poller.
THEOREM PollIsPoller ==
  ASSUME Risks = {}
  PROVE  PollPoller!Spec => PollPoller!ImplementsPoller
<1>1. PollPoller!Init => PollPoller!Abstract!Init
  BY DEF PollPoller!Init, PollPoller!Abstract!Init, PollPoller!watch
<1>2. PollInv /\ PollInv' /\ [PollPoller!Next]_(PollPoller!vars)
        => [PollPoller!Abstract!Next]_<<p_events, PollPoller!watch, p_active>>
  BY PollStep
<1> QED
  BY PollInvariance, <1>1, <1>2, PTL DEF PollPoller!Spec, PollPoller!ImplementsPoller,
     PollPoller!Abstract!Spec

-----------------------------------------------------------------------------
(* The default poller. *)

\* The poller that newDefaultPoller makes when DC_USE_POLL is not set, and the
\* one it does not make, do what EventLoop relies on in Poller.
THEOREM DefaultEpoll == SpecDefault => ImplementsPoller
<1>1. NewDefaultPoller => Init
  BY DEF NewDefaultPoller
<1>2. [UsePoller]_allVars => [Next]_vars
  BY DEF UsePoller, UseEpollPoller, UsePollPoller, allVars, vars
<1> QED
  BY <1>1, <1>2, EpollImplementsPoller, PTL DEF SpecDefault, Spec

\* The same of the one it makes when DC_USE_POLL is set, when no channel starts
\* idle and none is used after it was removed.
THEOREM DefaultPoll == ASSUME Risks = {} PROVE SpecDefault => PollImplementsPoller
<1>1. NewDefaultPoller => PollPoller!Init
  BY DEF NewDefaultPoller
<1>2. [UsePoller]_allVars => [PollPoller!Next]_(PollPoller!vars)
  BY DEF UsePoller, UseEpollPoller, UsePollPoller, allVars, pollVars, PollPoller!vars
<1> QED
  BY <1>1, <1>2, PollIsPoller, PTL DEF SpecDefault, PollPoller!Spec, PollImplementsPoller
=============================================================================
