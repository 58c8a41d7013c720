---------------------------- MODULE ServiceWorker ----------------------------
(***************************************************************************)
(* Delivery of navigation events from the Edge extension's service worker  *)
(* (edge-extension/service-worker.js) to the native host's log.            *)
(*                                                                         *)
(* Every change of the durable queue runs in the worker's operation chain. *)
(* One action below is what the code runs between two awaits, so another   *)
(* listener, timer or process can act between any two of them.  The        *)
(* browser may stop the worker at any moment: module variables are lost,   *)
(* chrome.storage stays.  The native host appears as the state of the      *)
(* connection to it; its lock and its files are not part of this module.   *)
(*                                                                         *)
(* Events are numbered in the order they are captured (their event_id is a *)
(* fresh UUID).  Counters are written but never read by this code, and     *)
(* reconnectDelayMs only scales a timer: neither is modelled here.         *)
(***************************************************************************)
EXTENDS Integers, Sequences, Functions

CONSTANTS
    MaxEvents,   \* navigations captured in a behaviour
    MaxQueue,    \* MAX_QUEUE_SIZE
    Invalid,     \* events the host's validation refuses, such as a URL over 8192 bytes
    Oversize,    \* events longer than the host's maxMessageSize
    MaxFaults,   \* bound on stops, crashes, timeouts and failed writes together
    MaxChain     \* bound on the operations waiting when an alarm adds one

Events == 1..MaxEvents

ASSUME EventsAssumption == MaxEvents \in Nat
ASSUME QueueAssumption == MaxQueue \in Nat \ {0}
ASSUME KindAssumption == Invalid \subseteq Events /\ Oversize \subseteq Events \ Invalid
ASSUME BoundAssumption == MaxFaults \in Nat /\ MaxChain \in Nat \ {0}

NoEvent == 0
\* In the operation chain an event stands for its enqueueEvent, Flush for flushQueue.
Flush == 0

VARIABLES
    captured,   \* how many navigations have been captured
    queue,      \* chrome.storage.local[QUEUE_KEY], oldest first
    awake,      \* whether the worker is running
    chain,      \* operationChain: the running operation, then those that wait for it
    pc,         \* the await the running operation has reached
    local,      \* the queue as the running operation read it
    current,    \* flushQueue's `event`
    pending,    \* pendingAcknowledgement.eventId
    outcome,    \* how the promise of sendAndWaitForAcknowledgement settled
    timer,      \* whether a reconnect timer is armed
    port,       \* the connection to the native host and how far that host has come
    carried,    \* the event the connection's host was last sent
    orphans,    \* per event, how many hosts of closed connections still hold it
    log,        \* the records in the host's log, in the order written
    stored,     \* history: events the durable queue has held
    rejected,   \* history: events removed after a refusal
    dropped,    \* history: events removed by the queue's limit
    faults      \* failures so far

storage == <<queue, stored, dropped>>
worker == <<awake, chain, pc, local, current, pending, outcome, timer>>
host == <<port, carried, orphans, log>>
vars == <<captured, queue, awake, chain, pc, local, current, pending, outcome, timer,
          port, carried, orphans, log, stored, rejected, dropped, faults>>

PcStates == {"idle", "storing", "sending", "awaiting", "settled", "removing"}
Outcomes == {"none", "accepted", "refused", "failed"}
PortStates == {"closed", "reading", "received", "logged", "accepted", "refused", "exited"}

Logged == Range(log)

TypeOK ==
    /\ captured \in 0..MaxEvents
    /\ queue \in Seq(Events) /\ Len(queue) <= MaxQueue
    /\ awake \in BOOLEAN
    /\ chain \in Seq(Events \cup {Flush})
    /\ pc \in PcStates
    /\ local \in Seq(Events)
    /\ current \in Events \cup {NoEvent}
    /\ pending \in Events \cup {NoEvent}
    /\ outcome \in Outcomes
    /\ timer \in BOOLEAN
    /\ port \in PortStates
    /\ carried \in Events \cup {NoEvent}
    /\ orphans \in [Events -> Nat]
    /\ log \in Seq(Events)
    /\ stored \subseteq Events
    /\ rejected \subseteq Events
    /\ dropped \subseteq Events
    /\ faults \in 0..MaxFaults

Init ==
    /\ captured = 0
    /\ queue = <<>>
    /\ awake = FALSE
    /\ chain = <<>>
    /\ pc = "idle"
    /\ local = <<>>
    /\ current = NoEvent
    /\ pending = NoEvent
    /\ outcome = "none"
    /\ timer = FALSE
    /\ port = "closed"
    /\ carried = NoEvent
    /\ orphans = [e \in Events |-> 0]
    /\ log = <<>>
    /\ stored = {}
    /\ rejected = {}
    /\ dropped = {}
    /\ faults = 0

Fault == faults < MaxFaults /\ faults' = faults + 1

Running(op) == chain # <<>> /\ Head(chain) = op

\* serializeOperation's result settles, whether the operation returned or threw, and the
\* next operation of the chain may start.
EndOperation ==
    /\ pc' = "idle"
    /\ local' = <<>>
    /\ current' = NoEvent
    /\ outcome' = "none"

-----------------------------------------------------------------------------
(* Mistakes this code could have had.  No specification uses them: each    *)
(* stands in for the definition it resembles when a property is tested.    *)

\* Pushed without the splice.
PushedUnbounded(q, e) == Append(q, e)

\* Pushed giving up the newest event instead of the oldest.
PushedDropsNewest(q, e) == IF Len(q) < MaxQueue THEN Append(q, e) ELSE q

\* CaptureNavigation storing its event at once, outside serializeOperation.
CaptureUnserialized ==
    /\ awake
    /\ captured < MaxEvents
    /\ captured' = captured + 1
    /\ queue' = IF Len(queue) < MaxQueue THEN Append(queue, captured + 1)
                ELSE Append(Tail(queue), captured + 1)
    /\ stored' = stored \cup {captured + 1}
    /\ dropped' = IF Len(queue) < MaxQueue THEN dropped ELSE dropped \cup {Head(queue)}
    /\ chain' = Append(chain, Flush)
    /\ UNCHANGED <<awake, pc, local, current, pending, outcome, timer, host, rejected, faults>>

\* FlushGivesUp moving the undelivered event to the end of the queue.
FlushGivesUpRequeues ==
    /\ pc = "settled" /\ outcome = "failed"
    /\ queue' = Append(Tail(queue), Head(queue))
    /\ timer' = TRUE
    /\ chain' = Tail(chain)
    /\ EndOperation
    /\ UNCHANGED <<captured, stored, dropped, awake, pending, host, rejected, faults>>

\* HostAcknowledge answering before the record is written.
HostAcknowledgeEarly ==
    /\ port = "received" /\ carried \notin Invalid \cup Oversize
    /\ port' = "accepted"
    /\ UNCHANGED <<captured, storage, worker, carried, orphans, log, rejected, faults>>

\* HandleNativeDisconnect without `port = null`.
DisconnectKeepsPort ==
    /\ port = "exited" /\ pending # NoEvent
    /\ pending' = NoEvent /\ outcome' = "failed" /\ pc' = "settled"
    /\ UNCHANGED <<captured, storage, awake, chain, local, current, timer, host,
                   rejected, faults>>

\* HandleNativeDisconnect without rejecting the pending acknowledgement.
DisconnectForgetsPending ==
    /\ port = "exited"
    /\ port' = "closed" /\ carried' = NoEvent
    /\ UNCHANGED <<captured, storage, worker, orphans, log, rejected, faults>>

-----------------------------------------------------------------------------
(* Listeners and timers: what adds operations to the chain.                *)

\* The browser starts the worker for an alarm, a startup or a navigation; the module's
\* last line schedules a flush before the listener of that event runs.
Wake ==
    /\ ~awake
    /\ awake' = TRUE
    /\ chain' = <<Flush>>
    /\ UNCHANGED <<captured, storage, pc, local, current, pending, outcome, timer, host,
                   rejected, faults>>

\* captureNavigation for a main-frame navigation that is not a recent duplicate.
CaptureNavigation ==
    /\ awake
    /\ captured < MaxEvents
    /\ captured' = captured + 1
    /\ chain' = Append(chain, captured + 1)
    /\ UNCHANGED <<storage, awake, pc, local, current, pending, outcome, timer, host,
                   rejected, faults>>

\* The retry alarm of a running worker, or onStartup and onInstalled.
Alarm ==
    /\ awake
    /\ Len(chain) < MaxChain
    /\ chain' = Append(chain, Flush)
    /\ UNCHANGED <<captured, storage, awake, pc, local, current, pending, outcome, timer,
                   host, rejected, faults>>

\* The timer that scheduleReconnect armed.
ReconnectTimer ==
    /\ timer
    /\ timer' = FALSE
    /\ chain' = Append(chain, Flush)
    /\ UNCHANGED <<captured, storage, awake, pc, local, current, pending, outcome, host,
                   rejected, faults>>

-----------------------------------------------------------------------------
(* enqueueEvent.                                                           *)

EnqueueRead ==
    /\ pc = "idle"
    /\ chain # <<>> /\ Head(chain) # Flush
    /\ pc' = "storing"
    /\ local' = queue
    /\ UNCHANGED <<captured, storage, awake, chain, current, pending, outcome, timer, host,
                   rejected, faults>>

\* push, then splice(0, length - MAX_QUEUE_SIZE)
Pushed(q, e) ==
    IF Len(q) < MaxQueue THEN Append(q, e)
    ELSE SubSeq(Append(q, e), Len(q) + 2 - MaxQueue, Len(q) + 1)

\* The queue is stored and the event counted; captureNavigation then schedules a flush
\* behind whatever waits, unless the counting failed and enqueueEvent threw.
EnqueueStore ==
    /\ pc = "storing"
    /\ LET e == Head(chain)
           q == Pushed(local, e)
       IN  /\ queue' = q
           /\ stored' = stored \cup {e}
           /\ dropped' = dropped \cup (Range(Append(local, e)) \ Range(q))
    /\ \/ chain' = Append(Tail(chain), Flush) /\ UNCHANGED faults
       \/ chain' = Tail(chain) /\ Fault
    /\ EndOperation
    /\ UNCHANGED <<captured, awake, pending, timer, host, rejected>>

-----------------------------------------------------------------------------
(* flushQueue and the acknowledgement it waits for.                        *)

\* An empty queue ends the flush; otherwise its head is the event to send.
FlushRead ==
    /\ pc = "idle"
    /\ Running(Flush)
    /\ IF queue = <<>>
       THEN chain' = Tail(chain) /\ UNCHANGED <<pc, current>>
       ELSE pc' = "sending" /\ current' = Head(queue) /\ UNCHANGED chain
    /\ UNCHANGED <<captured, storage, awake, local, pending, outcome, timer, host,
                   rejected, faults>>

\* sendAndWaitForAcknowledgement refuses a second pending acknowledgement; otherwise it
\* connects if there is no port, and posts.  Posting to a port whose host has gone either
\* throws, which drops the port, or loses the message.
Post ==
    \/ /\ port \in {"closed", "reading"}
       /\ port' = "received" /\ carried' = current
       /\ pc' = "awaiting" /\ pending' = current /\ UNCHANGED outcome
    \/ /\ port = "exited"
       /\ pc' = "awaiting" /\ pending' = current
       /\ UNCHANGED <<port, carried, outcome>>
    \/ /\ port = "exited"
       /\ port' = "closed" /\ carried' = NoEvent
       /\ pc' = "settled" /\ outcome' = "failed" /\ UNCHANGED pending

Send ==
    /\ pc = "sending"
    /\ IF pending # NoEvent
       THEN /\ pc' = "settled" /\ outcome' = "failed"
            /\ UNCHANGED <<pending, port, carried>>
       ELSE Post
    /\ UNCHANGED <<captured, storage, awake, chain, local, current, timer, orphans, log,
                   rejected, faults>>

\* handleNativeMessage: a reply to anything but the pending event is ignored.
HandleNativeMessage ==
    /\ port \in {"accepted", "refused"}
    /\ port' = "reading" /\ carried' = NoEvent
    /\ IF pending # NoEvent /\ pending = carried
       THEN pending' = NoEvent /\ outcome' = port /\ pc' = "settled"
       ELSE UNCHANGED <<pending, outcome, pc>>
    /\ UNCHANGED <<captured, storage, awake, chain, local, current, timer, orphans, log,
                   rejected, faults>>

\* handleNativeDisconnect: the host has exited, a pending acknowledgement fails.
HandleNativeDisconnect ==
    /\ port = "exited"
    /\ port' = "closed" /\ carried' = NoEvent
    /\ IF pending # NoEvent
       THEN pending' = NoEvent /\ outcome' = "failed" /\ pc' = "settled"
       ELSE UNCHANGED <<pending, outcome, pc>>
    /\ UNCHANGED <<captured, storage, awake, chain, local, current, timer, orphans, log,
                   rejected, faults>>

\* The extension's end of the connection closes.  A host that holds an unwritten event
\* keeps it; every other one reads the end of its input and returns.
ClosePort ==
    /\ port' = "closed" /\ carried' = NoEvent
    /\ orphans' = IF port = "received" THEN [orphans EXCEPT ![carried] = @ + 1] ELSE orphans

\* No acknowledgement within ACK_TIMEOUT_MS: the promise fails and the port is dropped.
AcknowledgementTimeout ==
    /\ pending # NoEvent
    /\ Fault
    /\ pending' = NoEvent /\ outcome' = "failed" /\ pc' = "settled"
    /\ ClosePort
    /\ UNCHANGED <<captured, storage, awake, chain, local, current, timer, log, rejected>>

\* The catch block: scheduleReconnect, and the flush ends with the event still queued.
FlushGivesUp ==
    /\ pc = "settled" /\ outcome = "failed"
    /\ timer' = TRUE
    /\ chain' = Tail(chain)
    /\ EndOperation
    /\ UNCHANGED <<captured, storage, awake, pending, host, rejected, faults>>

\* After either answer the queue is read again...
FlushReread ==
    /\ pc = "settled" /\ outcome \in {"accepted", "refused"}
    /\ pc' = "removing"
    /\ local' = queue
    /\ UNCHANGED <<captured, storage, awake, chain, current, pending, outcome, timer, host,
                   rejected, faults>>

\* ...and the event removed if it is still the first; the loop then reads the queue anew.
FlushRemove ==
    /\ pc = "removing"
    /\ queue' = IF local # <<>> /\ Head(local) = current THEN Tail(local) ELSE queue
    /\ rejected' = IF outcome = "refused" THEN rejected \cup {current} ELSE rejected
    /\ EndOperation
    /\ UNCHANGED <<captured, awake, chain, pending, timer, host, stored, dropped, faults>>

-----------------------------------------------------------------------------
(* The native host of the open connection, and hosts of closed ones.       *)

HostUnchanged == UNCHANGED <<captured, storage, worker, rejected>>

Deliverable(e) == e \notin Invalid \cup Oversize

\* appendNavigationEvent has written and synced the record...
HostAppend ==
    /\ port = "received" /\ Deliverable(carried)
    /\ log' = Append(log, carried)
    /\ port' = "logged"
    /\ UNCHANGED <<carried, orphans, faults>>
    /\ HostUnchanged

\* ...and then the host acknowledges it.
HostAcknowledge ==
    /\ port = "logged"
    /\ port' = "accepted"
    /\ UNCHANGED <<carried, orphans, log, faults>>
    /\ HostUnchanged

\* parseAndValidateEvent fails, or appendNavigationEvent does: the lock is not free in
\* time, the rotation or the write fails, or the sync after a write that did happen.
HostRefuse ==
    /\ port = "received"
    /\ \/ carried \in Invalid /\ UNCHANGED <<faults, log>>
       \/ Deliverable(carried) /\ Fault /\ log' \in {log, Append(log, carried)}
    /\ port' = "refused"
    /\ UNCHANGED <<carried, orphans>>
    /\ HostUnchanged

\* readNativeMessage returns an error for an oversize message, and run returns it.
HostExitsOnOversize ==
    /\ port = "received" /\ carried \in Oversize
    /\ port' = "exited"
    /\ UNCHANGED <<carried, orphans, log, faults>>
    /\ HostUnchanged

\* The host process dies, or cannot write its acknowledgement and returns.
HostCrash ==
    /\ port \in {"reading", "received", "logged"}
    /\ Fault
    /\ port' = "exited"
    /\ UNCHANGED <<carried, orphans, log>>
    /\ HostUnchanged

\* A host of a closed connection ends: it has written the event it held, or not.
OrphanEnds ==
    \E e \in Events :
        /\ orphans[e] > 0
        /\ orphans' = [orphans EXCEPT ![e] = @ - 1]
        /\ \/ Deliverable(e) /\ log' = Append(log, e)
           \/ UNCHANGED log
        /\ UNCHANGED <<port, carried, faults>>
        /\ HostUnchanged

-----------------------------------------------------------------------------
(* Failures of the browser.                                                *)

\* A chrome.storage call rejects: the operation throws and the chain goes on.  The event of
\* an enqueueEvent that throws is gone; a flush that throws arms no timer.
StorageFails ==
    /\ chain # <<>>
    /\ pc \in {"idle", "storing", "settled", "removing"}
    /\ Fault
    /\ chain' = Tail(chain)
    /\ EndOperation
    /\ UNCHANGED <<captured, storage, awake, pending, timer, host, rejected>>

\* The browser stops the worker, idle or not.
Stop ==
    /\ awake
    /\ Fault
    /\ awake' = FALSE
    /\ chain' = <<>>
    /\ pending' = NoEvent
    /\ timer' = FALSE
    /\ EndOperation
    /\ ClosePort
    /\ UNCHANGED <<captured, storage, log, rejected>>

-----------------------------------------------------------------------------

FlushStep == FlushRead \/ Send \/ FlushGivesUp \/ FlushReread \/ FlushRemove
EnqueueStep == EnqueueRead \/ EnqueueStore
ConnectionStep == HandleNativeMessage \/ HandleNativeDisconnect
HostStep == HostAppend \/ HostAcknowledge \/ HostRefuse \/ HostExitsOnOversize

Next ==
    \/ Wake \/ CaptureNavigation \/ Alarm \/ ReconnectTimer
    \/ EnqueueStep
    \/ FlushStep
    \/ ConnectionStep
    \/ AcknowledgementTimeout
    \/ HostStep \/ HostCrash \/ OrphanEnds
    \/ StorageFails \/ Stop

Spec == Init /\ [][Next]_vars

(***************************************************************************)
(* The event loop runs every continuation that is ready, the browser       *)
(* delivers replies and disconnects, and a host that runs answers.  The    *)
(* one-minute alarm wakes a stopped worker and calls scheduleFlush in a    *)
(* running one.  No failure is fair: each may never happen.                *)
(***************************************************************************)
Fairness ==
    /\ WF_vars(EnqueueStep \/ FlushStep)
    /\ WF_vars(ConnectionStep)
    /\ WF_vars(HostStep)
    /\ WF_vars(Wake \/ Alarm)

FairSpec == Spec /\ Fairness

-----------------------------------------------------------------------------
(* Properties.                                                             *)

\* While the worker waits for an acknowledgement, the event it waits for is the first of
\* the stored queue: no enqueue, overflow or second flush moves it (flushQueue,
\* serializeOperation).
HeadInFlight ==
    pending # NoEvent => /\ pc = "awaiting" /\ current = pending
                         /\ queue # <<>> /\ Head(queue) = pending

\* An event the durable queue has held is never silently lost, whatever stops, crashes and
\* times out: it is still queued, or in the log, or was refused by the host, or was pushed
\* out by the queue's limit.
NoSilentLoss == stored \subseteq Range(queue) \cup Logged \cup rejected \cup dropped

\* The log follows the order of capture: whenever a record is written, every event stored
\* earlier has its own record before it, unless the extension gave that event up.
OrderPreserved ==
    \A i \in 1..Len(log) : \A e \in stored :
        e < log[i] => e \in Range(SubSeq(log, 1, i - 1)) \cup rejected \cup dropped

\* Delivery as a whole keeps the promise of NavigationDelivery.
Delivery == INSTANCE NavigationDelivery WITH
    waiting <- queue, written <- Logged, refused <- rejected, overflowed <- dropped
DeliverySpec == Delivery!Spec

\* A stored event that no oversize event can precede is eventually logged, refused or
\* pushed out: retries, reconnects, stopped workers and crashed hosts only delay it.
EventuallySettled ==
    \A e \in Events :
        (e \in stored /\ \A o \in Oversize : e < o)
            ~> (e \in Logged \cup rejected \cup dropped)

\* An acknowledgement the worker still waits for always comes, or fails: no flush holds the
\* operation chain, and with it every later capture, for ever.
ChainMoves == (pc = "awaiting") ~> (pc = "idle")
-----------------------------------------------------------------------------
(* Why the safety properties hold: an inductive invariant.                 *)

\* The event of the running flush is the stored queue's head, and a copy of the queue that
\* an operation read is still the queue: only the running operation changes it.
OperationOK ==
    /\ awake \/ (chain = <<>> /\ ~timer)
    /\ pc # "idle" => chain # <<>>
    /\ pc = "storing" => Head(chain) # Flush /\ local = queue
    /\ pc \in {"sending", "awaiting", "settled", "removing"} =>
           queue # <<>> /\ current = Head(queue)
    /\ pc = "removing" => local = queue /\ outcome \in {"accepted", "refused"}
    /\ pending # NoEvent => pc = "awaiting" /\ pending = current

\* An acceptance, at the host, on its way or received, means that the record exists.
AcceptanceOK ==
    /\ port \in {"logged", "accepted"} => carried \in Logged
    /\ pc \in {"settled", "removing"} /\ outcome = "accepted" => current \in Logged

\* Only events the queue has held are anywhere beyond it.
HeldOK ==
    /\ Range(queue) \cup Logged \cup rejected \cup dropped \subseteq stored
    /\ port \in {"received", "logged", "accepted", "refused"} => carried \in stored
    /\ \A e \in Events : orphans[e] > 0 => e \in stored

\* The chain and the queue hold every event at most once, the chain none that was stored.
ChainOK ==
    /\ stored \subseteq 1..captured
    /\ \A i \in 1..Len(chain) : chain[i] # Flush => chain[i] \in (1..captured) \ stored
    /\ \A i, j \in 1..Len(chain) : chain[i] = chain[j] /\ chain[i] # Flush => i = j
    /\ IsInjective(queue)

IInv == TypeOK /\ OperationOK /\ AcceptanceOK /\ HeldOK /\ ChainOK /\ NoSilentLoss

-----------------------------------------------------------------------------
(* What the repository says and the code does not keep.                    *)

\* service-worker.js:116, of the branch that drops a refused event: "A permanently invalid
\* event must not block the queue forever."  Every stored event leaves the queue in the end.
NothingBlocksTheQueue == \A e \in Events : e \in Range(queue) ~> e \notin Range(queue)

\* docs/edge-extension-implementation-plan.md, test matrix: "Native host unavailable | Event
\* queued up to the limit"; and only "a permanently invalid event" may leave it undelivered
\* (service-worker.js:116).  What the extension removes as refused is never a valid event.
OnlyInvalidEventsRefused == rejected \subseteq Invalid \cup Oversize
=============================================================================
