-------------------------- MODULE NavigationCapture --------------------------
(***************************************************************************)
(* What the Edge extension does with a navigation the browser reports:     *)
(* createNavigationEvent and RecentEventDeduplicator of event-utils.mjs,   *)
(* captureNavigation and updateCounter of service-worker.js.               *)
(*                                                                         *)
(* A new event goes through the operation chain, whose operations count    *)
(* what they do in a step of its own, before or after they change the      *)
(* stored queue.  A suppressed duplicate is counted outside that chain,    *)
(* and updateCounter reads all counters, waits, and writes them all back.  *)
(* The queue is its length here and the answer of the host a choice:       *)
(* ServiceWorker models both in full.                                      *)
(***************************************************************************)
EXTENDS Integers, FiniteSets, UrlNormalization

CONSTANTS
    Navigations,  \* reports: records of mainFrame, tab, kind, document, url
    NoDocument,   \* the document of a report without a documentId
    Window,       \* DUPLICATE_WINDOW_MS, in ticks of the model's clock
    MaxQueue,     \* MAX_QUEUE_SIZE
    MaxTime,      \* bound on the clock
    MaxReports,   \* bound on the navigations the browser reports
    MaxRetries,   \* bound on the deliveries that fail
    MaxStops      \* bound on how often the browser stops the worker

ASSUME WindowAssumption == Window \in Nat /\ MaxQueue \in Nat \ {0}
ASSUME CaptureBounds == {MaxTime, MaxReports, MaxRetries, MaxStops} \subseteq Nat

CounterNames == {"observed", "duplicates", "accepted", "rejected", "retries", "dropped"}

VARIABLES
    clock,       \* Date.now()
    recent,      \* RecentEventDeduplicator.recent: capture time by key
    counters,    \* chrome.storage.local[COUNTERS_KEY]
    backlog,     \* length of the stored queue
    chain,       \* operations of the chain, the running one first
    chainUpdate, \* the updateCounter the running operation waits for
    dupUpdates,  \* the updateCounter calls of suppressed duplicates, by report number
    reports,     \* how many navigations the browser has reported
    stops,       \* how often the worker has been stopped
    history,     \* history: what became of each reported event
    overlapped   \* history: whether an updateCounter call has begun while another waited

vars == <<clock, recent, counters, backlog, chain, chainUpdate, dupUpdates, reports,
          stops, history, overlapped>>

\* createNavigationEvent returns an event for a main-frame navigation to an http(s) URL.
IsEvent(n) == n.mainFrame /\ normalizeUrl(n.url) # NoUrl

\* The deduplicator's key: the document if the browser names one, else the event's URL.
Key(n) ==
    <<n.tab, n.kind, IF n.document = NoDocument THEN normalizeUrl(n.url) ELSE n.document>>
Keys == {Key(n) : n \in Navigations}

\* An updateCounter call that has read the counters and not yet written them.
Update(name) == [name |-> name, seen |-> counters]
NoUpdate == [name |-> "none"]
Updates == [name : CounterNames, seen : [CounterNames -> Nat]]

\* A call of updateCounter begins; another may be waiting between its read and its write.
Begins == overlapped' = (overlapped \/ chainUpdate # NoUpdate \/ DOMAIN dupUpdates # {})

Nothing == [x \in {} |-> 0]

\* The operations of the chain; "store", "observe" and "remove" are within the running one,
\* which has then changed either the queue or its counter, and not yet the other.
Halfway == {"store", "observe", "remove"}
Operations == {"enqueue", "flush"} \cup Halfway

TypeOK ==
    /\ clock \in 0..MaxTime
    /\ DOMAIN recent \subseteq Keys /\ \A k \in DOMAIN recent : recent[k] \in 0..clock
    /\ counters \in [CounterNames -> Nat]
    /\ backlog \in 0..MaxQueue
    /\ chain \in Seq(Operations)
    /\ chainUpdate = NoUpdate \/ chainUpdate.name \in CounterNames \ {"duplicates"}
    /\ DOMAIN dupUpdates \subseteq 1..reports
    /\ \A i \in DOMAIN dupUpdates :
          dupUpdates[i] \in Updates /\ dupUpdates[i].name = "duplicates"
    /\ reports \in 0..MaxReports
    /\ stops \in 0..MaxStops
    /\ overlapped \in BOOLEAN

Init ==
    /\ clock = 0
    /\ recent = Nothing
    /\ counters = [c \in CounterNames |-> 0]
    /\ backlog = 0
    /\ chain = <<>>
    /\ chainUpdate = NoUpdate
    /\ dupUpdates = Nothing
    /\ reports = 0
    /\ stops = 0
    /\ history = {}
    /\ overlapped = FALSE

-----------------------------------------------------------------------------
(* Mistakes this code could have had.  No specification uses them: each    *)
(* stands in for the definition it resembles when a property is tested.    *)

\* IsDuplicate excluding the end of the window.
IsDuplicateStrict(key) == key \in DOMAIN recent /\ clock - recent[key] < Window

\* Remembered with a duplicate refreshing its key's time.
RememberedRefreshed(key, duplicate) ==
    [k \in {k \in DOMAIN recent : clock - recent[k] <= Window} \cup {key} |->
        IF k = key THEN clock ELSE recent[k]]

\* Written storing only the counter it increments.
WrittenAlone(u) == [c \in CounterNames |-> IF c = u.name THEN u.seen[c] + 1 ELSE 0]

\* StartEnqueue without the queue's limit.
StartEnqueueUnbounded ==
    /\ chain # <<>> /\ Head(chain) = "enqueue" /\ chainUpdate = NoUpdate
    /\ backlog' = backlog + 1
    /\ chain' = <<"observe">> \o Tail(chain)
    /\ UNCHANGED <<clock, recent, counters, chainUpdate, dupUpdates, reports, stops, history,
                   overlapped>>

-----------------------------------------------------------------------------
(* RecentEventDeduplicator and updateCounter.                              *)

IsDuplicate(key) == key \in DOMAIN recent /\ clock - recent[key] <= Window

\* Every call deletes the keys older than the window; only a new event is remembered.
Remembered(key, duplicate) ==
    LET kept == {k \in DOMAIN recent : clock - recent[k] <= Window}
    IN  IF duplicate THEN Restrict(recent, kept)
        ELSE [k \in kept \cup {key} |-> IF k = key THEN clock ELSE recent[k]]

\* The counters an updateCounter call writes back: those it read, one incremented.
Written(u) == [u.seen EXCEPT ![u.name] = @ + 1]

-----------------------------------------------------------------------------
(* captureNavigation.                                                      *)

Tick ==
    /\ clock < MaxTime
    /\ clock' = clock + 1
    /\ UNCHANGED <<recent, counters, backlog, chain, chainUpdate, dupUpdates, reports,
                   stops, history, overlapped>>

\* Frames other than the main one and schemes other than http(s) are ignored.
IgnoreNavigation(n) ==
    /\ ~IsEvent(n)
    /\ reports' = reports + 1
    /\ UNCHANGED <<recent, chain, dupUpdates, history, overlapped>>

\* A duplicate is only counted, at once and outside the chain; a new event joins the chain.
CaptureEvent(n) ==
    LET key == Key(n)
        duplicate == IsDuplicate(key)
        verdict == IF duplicate THEN "suppressed" ELSE "captured"
    IN  /\ IsEvent(n)
        /\ reports' = reports + 1
        /\ recent' = Remembered(key, duplicate)
        /\ history' = history \cup {[report |-> reports + 1, key |-> key, time |-> clock,
                                     life |-> stops, verdict |-> verdict]}
        /\ IF duplicate
           THEN /\ dupUpdates' = [i \in DOMAIN dupUpdates \cup {reports + 1} |->
                       IF i = reports + 1 THEN Update("duplicates") ELSE dupUpdates[i]]
                /\ Begins
                /\ UNCHANGED chain
           ELSE chain' = Append(chain, "enqueue") /\ UNCHANGED <<dupUpdates, overlapped>>

CaptureNavigation ==
    /\ reports < MaxReports
    /\ \E n \in Navigations : IgnoreNavigation(n) \/ CaptureEvent(n)
    /\ UNCHANGED <<clock, counters, backlog, chainUpdate, stops>>

FinishDuplicate ==
    \E i \in DOMAIN dupUpdates :
        /\ counters' = Written(dupUpdates[i])
        /\ dupUpdates' = Restrict(dupUpdates, DOMAIN dupUpdates \ {i})
        /\ UNCHANGED <<clock, recent, backlog, chain, chainUpdate, reports, stops, history,
                       overlapped>>

-----------------------------------------------------------------------------
(* The operation chain, as far as it counts.                               *)

MayStart(op) == chain # <<>> /\ Head(chain) = op /\ chainUpdate = NoUpdate

Then(op) == <<op>> \o Tail(chain)

\* enqueueEvent pushes the event and stores the queue, but in a full queue counts the drop first.
StartEnqueue ==
    /\ MayStart("enqueue")
    /\ IF backlog < MaxQueue
       THEN /\ backlog' = backlog + 1 /\ chain' = Then("observe")
            /\ UNCHANGED <<chainUpdate, overlapped>>
       ELSE chainUpdate' = Update("dropped") /\ Begins /\ UNCHANGED <<backlog, chain>>
    /\ UNCHANGED <<clock, recent, counters, dupUpdates, reports, stops, history>>

\* The queue stored without its oldest event and with the new one is as long as before.
StoreShortened ==
    /\ MayStart("store")
    /\ chain' = Then("observe")
    /\ UNCHANGED <<clock, recent, counters, backlog, chainUpdate, dupUpdates, reports, stops,
                   history, overlapped>>

\* The event is counted once the queue is stored.
StartObserve ==
    /\ MayStart("observe")
    /\ chainUpdate' = Update("observed") /\ Begins
    /\ UNCHANGED <<clock, recent, counters, backlog, chain, dupUpdates, reports, stops, history>>

\* flushQueue: nothing to send, or the head is answered or its delivery fails.
StartFlush ==
    /\ MayStart("flush")
    /\ IF backlog = 0
       THEN chain' = Tail(chain) /\ UNCHANGED <<chainUpdate, overlapped>>
       ELSE /\ \E answer \in {"accepted", "rejected", "retries"} :
                   /\ answer = "retries" => counters["retries"] < MaxRetries
                   /\ chainUpdate' = Update(answer)
            /\ Begins
            /\ UNCHANGED chain
    /\ UNCHANGED <<clock, recent, counters, backlog, dupUpdates, reports, stops, history>>

\* An answered event is removed after it has been counted, from the queue as it then is.
RemoveHead ==
    /\ MayStart("remove")
    /\ backlog' = backlog - 1
    /\ chain' = Then("flush")
    /\ UNCHANGED <<clock, recent, counters, chainUpdate, dupUpdates, reports, stops, history,
                   overlapped>>

\* Where the running operation goes on once its updateCounter has returned.
FinishChainUpdate ==
    /\ chainUpdate # NoUpdate
    /\ counters' = Written(chainUpdate)
    /\ chainUpdate' = NoUpdate
    /\ chain' = CASE chainUpdate.name = "dropped" -> Then("store")
                  [] chainUpdate.name = "observed" -> Append(Tail(chain), "flush")
                  [] chainUpdate.name = "retries" -> Tail(chain)
                  [] OTHER -> Then("remove")
    /\ UNCHANGED <<clock, recent, backlog, dupUpdates, reports, stops, history, overlapped>>

\* The retry alarm, or the reconnect timer after a failed delivery.
Retry ==
    /\ chain = <<>> /\ backlog > 0
    /\ chain' = <<"flush">>
    /\ UNCHANGED <<clock, recent, counters, backlog, chainUpdate, dupUpdates, reports,
                   stops, history, overlapped>>

\* The browser stops the worker; the deduplicator, the chain and every update between its
\* read and its write are gone, and the running operation goes no further.  The next event
\* restarts it with a flush.
Stop ==
    /\ stops < MaxStops
    /\ stops' = stops + 1
    /\ recent' = Nothing
    /\ chain' = <<"flush">>
    /\ chainUpdate' = NoUpdate
    /\ dupUpdates' = Nothing
    /\ UNCHANGED <<clock, counters, backlog, reports, history, overlapped>>

Next ==
    \/ Tick \/ CaptureNavigation \/ FinishDuplicate
    \/ StartEnqueue \/ StoreShortened \/ StartObserve \/ StartFlush \/ RemoveHead
    \/ FinishChainUpdate \/ Retry \/ Stop

Spec == Init /\ [][Next]_vars

-----------------------------------------------------------------------------
(* Properties.                                                             *)

\* Reports whose URL the two normalizations treat differently, or damage.
TreatedDifferently == {n \in Navigations : IsEvent(n) /\ ~RedactedTwice(n.url)}
Damaged == {n \in Navigations : IsEvent(n) /\ ~StructureKept(n.url)}

Suppressed == {h \in history : h.verdict = "suppressed"}
Captured == {h \in history : h.verdict = "captured"}

\* A navigation is suppressed only for an event captured under its key within the window:
\* a train of duplicates never extends the window by suppressing each other.
SuppressedHasTwin ==
    \A h \in Suppressed : \E g \in Captured :
        g.key = h.key /\ g.report < h.report /\ h.time - g.time <= Window

\* While the worker lives, two captures under one key are more than the window apart,
\* although every call deletes keys from the map it then decides with.
CapturedAreApart ==
    \A g, h \in Captured :
        (g.key = h.key /\ g.life = h.life /\ g.report < h.report) => h.time - g.time > Window

\* What the counters say was answered or dropped, and what is queued, beyond what they say was
\* observed.
Unaccounted ==
    counters["accepted"] + counters["rejected"] + counters["dropped"] + backlog
        - counters["observed"]
InProgress == IF chain # <<>> /\ Head(chain) \in Halfway THEN 1 ELSE 0

Uncounted ==
    Cardinality(Suppressed) - counters["duplicates"] - Cardinality(DOMAIN dupUpdates)

\* docs/edge-extension-implementation-plan.md:319 has the operator "account for every accepted,
\* rejected, duplicated, and dropped event".  Until two updates overlap, what was observed is
\* what was accepted, rejected or dropped and what is still queued, but for the operation that
\* is halfway and one event for each stop of the worker within one: an event stored and never
\* counted, or counted as dropped or answered and then left in the queue, to be counted again
\* (service-worker.js:76-80, 113-127).  The duplicates likewise miss at most one for each stop;
\* and whatever overlaps, no more are counted than were suppressed.  A lost update (:222-227)
\* can take any other count away.
EventsAreAccounted ==
    /\ ~overlapped => Unaccounted \in InProgress..InProgress + stops
    /\ ~overlapped => Uncounted <= stops
    /\ Uncounted >= 0

\* native-host/README.md:75: sensitive values "are redacted again by the host": no navigation is
\* captured whose record depends on the extension having redacted it.
RedactionIsRepeated ==
    [][\A n \in TreatedDifferently : ~CaptureEvent(n)]_vars

\* docs/edge-extension-implementation-plan.md:123, 127: no navigation is captured whose record
\* lacks a parameter, a value that is not sensitive, or is refused for its query.
QueryStructureKept ==
    [][\A n \in Damaged : ~CaptureEvent(n)]_vars
=============================================================================
