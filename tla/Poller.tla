------------------------------- MODULE Poller -------------------------------
(***************************************************************************)
(* What EventLoop relies on in dc::net::Poller, for the channels of one     *)
(* loop, each named by its descriptor: after updateChannel the kernel       *)
(* watches for exactly the events the channel asks for, removeChannel is    *)
(* for a channel that asks for none, and poll reports only channels that    *)
(* are in the poller.                                                       *)
(***************************************************************************)
CONSTANT Fds

VARIABLES events,   \* Channel::m_events, what each channel asks for
          watch,    \* the events watched for, for each channel in the poller
          active    \* the channels the last poll reported

Events == SUBSET {"in", "out"}

Init ==
    /\ events = [fd \in Fds |-> {}]
    /\ watch = [fd \in {} |-> {}]
    /\ active = {}

\* A channel is made for a descriptor that has none in the poller.
NewChannel(fd) ==
    /\ fd \notin DOMAIN watch
    /\ events' = [events EXCEPT ![fd] = {}]
    /\ UNCHANGED <<watch, active>>

UpdateChannel(fd, ev) ==
    /\ events' = [events EXCEPT ![fd] = ev]
    /\ watch' = [f \in DOMAIN watch \cup {fd} |-> IF f = fd THEN ev ELSE watch[f]]
    /\ UNCHANGED active

RemoveChannel(fd) ==
    /\ fd \in DOMAIN watch /\ events[fd] = {}
    /\ watch' = [f \in DOMAIN watch \ {fd} |-> watch[f]]
    /\ UNCHANGED <<events, active>>

Poll == active' \in SUBSET DOMAIN watch /\ UNCHANGED <<events, watch>>

Next ==
    \/ \E fd \in Fds : NewChannel(fd) \/ RemoveChannel(fd)
    \/ \E fd \in Fds, ev \in Events : UpdateChannel(fd, ev)
    \/ Poll

Spec == Init /\ [][Next]_<<events, watch, active>>
=============================================================================
