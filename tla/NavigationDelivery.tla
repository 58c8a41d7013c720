------------------------- MODULE NavigationDelivery -------------------------
(***************************************************************************)
(* What the extension and the native host together promise about a         *)
(* navigation once it is in the browser's durable queue: it waits there,   *)
(* in order, until a record of it is in the log or the host has refused    *)
(* it, unless the bounded queue pushes it out as the oldest entry.         *)
(* Records are written at least once, so a record may also be written      *)
(* after the event has left the queue.                                     *)
(***************************************************************************)
EXTENDS Integers, Sequences, Functions

CONSTANTS
    MaxEvents,   \* how many navigations there may be
    MaxQueue     \* the queue's limit, at least 1

VARIABLES
    waiting,      \* the durable queue, oldest first
    written,      \* events with at least one record in the log
    refused,      \* events the host has refused
    overflowed    \* events the bounded queue has pushed out

vars == <<waiting, written, refused, overflowed>>

Events == 1..MaxEvents
Seen == Range(waiting) \cup written \cup refused \cup overflowed

Init ==
    /\ waiting = <<>>
    /\ written = {}
    /\ refused = {}
    /\ overflowed = {}

\* A new navigation joins the queue; a full queue gives up its oldest entry.
Offer(e) ==
    /\ e \notin Seen
    /\ IF Len(waiting) < MaxQueue
       THEN waiting' = Append(waiting, e) /\ UNCHANGED overflowed
       ELSE /\ waiting' = Append(Tail(waiting), e)
            /\ overflowed' = overflowed \cup {Head(waiting)}
    /\ UNCHANGED <<written, refused>>

\* A record of an event the queue has held reaches the log.
Write(e) ==
    /\ e \in Seen
    /\ written' = written \cup {e}
    /\ UNCHANGED <<waiting, refused, overflowed>>

\* The oldest event leaves the queue: its record exists, or the host refused it.
Settle ==
    /\ waiting # <<>>
    /\ \/ Head(waiting) \in written /\ UNCHANGED refused
       \/ refused' = refused \cup {Head(waiting)}
    /\ waiting' = Tail(waiting)
    /\ UNCHANGED <<written, overflowed>>

Next == Settle \/ \E e \in Events : Offer(e) \/ Write(e)

Spec == Init /\ [][Next]_vars
=============================================================================
