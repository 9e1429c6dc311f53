------------------------------- MODULE Channel -------------------------------
(***************************************************************************)
(* The operations of dc::net::Channel as functions on a channel's value,    *)
(* with the half of EpollPoller they call.  A channel is any record with    *)
(* the fields                                                               *)
(*   events   m_events, a subset of {"in", "out"}                           *)
(*   index    m_index, what EpollPoller has done with the descriptor        *)
(* A channel is in m_channels iff its index is not kNew, and the kernel     *)
(* watches its descriptor, for exactly `events' plus hang-ups and errors,   *)
(* iff its index is kAdded.                                                 *)
(***************************************************************************)

Indexes == {"kNew", "kAdded", "kDeleted"}

IsNoneEvent(ch) == ch.events = {}
IsReading(ch) == "in" \in ch.events
IsWriting(ch) == "out" \in ch.events

\* A new or deleted channel is added to the kernel's set even when it wants
\* no event; an added one that wants none is taken out of it.
Update(ch) ==
    [ch EXCEPT !.index = IF ch.index = "kAdded" /\ IsNoneEvent(ch)
                         THEN "kDeleted" ELSE "kAdded"]

\* Variant: without update().
EnableReadingUnseen(ch) == [ch EXCEPT !.events = @ \cup {"in"}]

EnableReading(ch) == Update([ch EXCEPT !.events = @ \cup {"in"}])
DisableReading(ch) == Update([ch EXCEPT !.events = @ \ {"in"}])
EnableWriting(ch) == Update([ch EXCEPT !.events = @ \cup {"out"}])
DisableWriting(ch) == Update([ch EXCEPT !.events = @ \ {"out"}])

\* Variant: only reading is disabled.
DisableAllButWriting(ch) == Update([ch EXCEPT !.events = @ \ {"in"}])

DisableAll(ch) == Update([ch EXCEPT !.events = {}])

\* The assertions of Channel::remove and EpollPoller::removeChannel.
CanRemove(ch) == IsNoneEvent(ch) /\ ch.index # "kNew"

\* Variant: the poller keeps the channel.
RemoveNothing(ch) == ch

Remove(ch) == [ch EXCEPT !.index = "kNew"]

\* The assertions of Channel::~Channel.
CanDestroy(ch) == ch.index = "kNew"
=============================================================================
