----------------------- MODULE NavigationCapture_proofs -----------------------
(***************************************************************************)
(* That the deduplicator suppresses exactly what it should, and that the   *)
(* counters account for every event while no two updates overlap.          *)
(*                                                                         *)
(* The deduplicator decides with a map it prunes at every call, and        *)
(* forgets when the worker stops, so neither promise is about the map      *)
(* alone: RecentOK relates the map to the history of captures in both      *)
(* directions.  A key in it stands for a capture of this life at that      *)
(* time, and a capture of this life that is still within the window has    *)
(* its key in it, at no earlier a time.  The counters are written from     *)
(* copies read earlier: AloneOK says that until two updates overlap the    *)
(* only copy there can be is that of now, so that each step of the chain   *)
(* moves the queue or one counter by one, and ChainOK that only the        *)
(* running operation can be between the two.  CopiesOK bounds the          *)
(* duplicates in every copy, overlapped or not.                            *)
(***************************************************************************)
EXTENDS NavigationCapture, FiniteSetTheorems, TLAPS

Verdicts == {"captured", "suppressed"}

-----------------------------------------------------------------------------
(* The inductive invariant.                                                *)

HistoryOK ==
    \A h \in history :
        /\ h.report \in Nat /\ h.time \in Nat /\ h.life \in Nat
        /\ h.report <= reports /\ h.time <= clock /\ h.life <= stops

\* The operation that waits for an update with this name.
Waiting(name) ==
    CASE name = "dropped" -> "enqueue"
      [] name = "observed" -> "observe"
      [] OTHER -> "flush"

\* A running operation waits for at most one update, and keeps its place meanwhile.
PendingOK ==
    chainUpdate # NoUpdate =>
        /\ chainUpdate \in Updates
        /\ chain # <<>>
        /\ Head(chain) = Waiting(chainUpdate.name)
        /\ chainUpdate.name \in {"accepted", "rejected"} => backlog > 0

\* Only the first operation can be halfway, and one that removes has something to remove.
ChainOK ==
    /\ \A k \in DOMAIN chain : k # 1 => chain[k] \notin Halfway
    /\ (chain # <<>> /\ Head(chain) = "remove") => backlog > 0

\* g is the capture the deduplicator remembers under key k.
Remembers(g, k, r, life) == g.key = k /\ g.time = r[k] /\ g.life = life

\* The map remembers nothing but captures of this life of the worker...
RecentCaptured ==
    \A k \in DOMAIN recent : \E g \in Captured : Remembers(g, k, recent, stops)

\* ...and every one of them whose window is not over.
CapturedRemembered ==
    \A g \in Captured :
        (g.life = stops /\ clock - g.time <= Window) =>
            g.key \in DOMAIN recent /\ recent[g.key] >= g.time

RecentOK == RecentCaptured /\ CapturedRemembered

\* Until two updates overlap there is at most one, and it has read the counters as they are.
AloneOK ==
    ~overlapped =>
        /\ chainUpdate # NoUpdate => chainUpdate.seen = counters /\ DOMAIN dupUpdates = {}
        /\ \A i \in DOMAIN dupUpdates :
              dupUpdates[i].seen = counters /\ DOMAIN dupUpdates = {i}

\* The duplicates that are no longer waiting to be counted: counted, overwritten or cut off.
Settled == Cardinality(Suppressed) - Cardinality(DOMAIN dupUpdates)

\* No copy of the counters holds more duplicates than these.
CopiesOK ==
    /\ IsFiniteSet(history)
    /\ counters["duplicates"] <= Settled
    /\ chainUpdate # NoUpdate => chainUpdate.seen["duplicates"] <= Settled
    /\ \A i \in DOMAIN dupUpdates : dupUpdates[i].seen["duplicates"] <= Settled

QueueAccounted == ~overlapped => Unaccounted \in InProgress..InProgress + stops
DuplicatesAccounted == ~overlapped => Uncounted <= stops

IInv ==
    /\ TypeOK /\ HistoryOK /\ PendingOK /\ ChainOK /\ RecentOK /\ AloneOK /\ CopiesOK
    /\ QueueAccounted /\ DuplicatesAccounted
    /\ SuppressedHasTwin /\ CapturedAreApart

USE DEF vars

-----------------------------------------------------------------------------
(* The updates of the counters.                                            *)

\* The updates an operation of the chain can wait for.
LEMMA UpdateTyped ==
    ASSUME TypeOK, NEW c \in CounterNames
    PROVE  /\ Update(c) \in Updates /\ Update(c) # NoUpdate
           /\ Update(c).name = c /\ Update(c).seen = counters
<1>1. Update(c) \in Updates
  BY DEF TypeOK, Update, Updates
<1>2. c # "none"
  BY DEF CounterNames
<1>3. Update(c).name = c /\ Update(c).seen = counters /\ NoUpdate.name = "none"
  BY DEF Update, NoUpdate
<1> QED BY <1>1, <1>2, <1>3

\* What a finished update leaves: the counters it read, with its own raised.
LEMMA FinishFacts ==
    ASSUME NEW u \in Updates, counters' = Written(u)
    PROVE  /\ counters' \in [CounterNames -> Nat]
           /\ \A c \in CounterNames :
                counters'[c] = IF c = u.name THEN u.seen[c] + 1 ELSE u.seen[c]
<1>1. u.name \in CounterNames /\ u.seen \in [CounterNames -> Nat]
  BY DEF Updates
<1>2. counters' = [u.seen EXCEPT ![u.name] = @ + 1]
  BY DEF Written
<1> QED BY <1>1, <1>2

\* What finishing the update of one suppressed duplicate does to the others.
LEMMA DuplicateFinished ==
    ASSUME TypeOK, FinishDuplicate
    PROVE  \E i \in DOMAIN dupUpdates :
              /\ dupUpdates[i] \in Updates /\ counters' = Written(dupUpdates[i])
              /\ DOMAIN dupUpdates' = DOMAIN dupUpdates \ {i}
              /\ \A j \in DOMAIN dupUpdates' : dupUpdates'[j] = dupUpdates[j]
<1>1. PICK i \in DOMAIN dupUpdates :
          /\ counters' = Written(dupUpdates[i])
          /\ dupUpdates' = Restrict(dupUpdates, DOMAIN dupUpdates \ {i})
  BY DEF FinishDuplicate
<1>2. dupUpdates[i] \in Updates
  BY DEF TypeOK
<1>3. /\ DOMAIN dupUpdates' = DOMAIN dupUpdates \ {i}
      /\ \A j \in DOMAIN dupUpdates' : dupUpdates'[j] = dupUpdates[j]
  BY <1>1 DEF Restrict
<1> QED BY <1>1, <1>2, <1>3

-----------------------------------------------------------------------------
(* Types.                                                                  *)

LEMMA InitType == ASSUME Init PROVE TypeOK
<1>1. clock \in 0..MaxTime /\ reports \in 0..MaxReports /\ stops \in 0..MaxStops
      /\ backlog \in 0..MaxQueue
  BY CaptureBounds, WindowAssumption DEF Init
<1>2. DOMAIN recent = {} /\ DOMAIN dupUpdates = {}
  BY DEF Init, Nothing
<1>3. counters \in [CounterNames -> Nat] /\ overlapped \in BOOLEAN
  BY DEF Init
<1>4. chain \in Seq(Operations) /\ chainUpdate = NoUpdate
  BY DEF Init
<1> QED BY <1>1, <1>2, <1>3, <1>4 DEF TypeOK

\* What an event leaves in the deduplicator's map.
LEMMA RememberedFacts ==
    ASSUME TypeOK, NEW key \in Keys, NEW duplicate \in BOOLEAN
    PROVE  LET r == Remembered(key, duplicate) IN
           /\ DOMAIN r \subseteq Keys
           /\ \A k \in DOMAIN r : r[k] \in 0..clock
           /\ \A k \in DOMAIN r : ~(k = key /\ ~duplicate) =>
                 k \in DOMAIN recent /\ r[k] = recent[k]
           /\ \A k \in DOMAIN recent : clock - recent[k] <= Window => k \in DOMAIN r
           /\ ~duplicate => key \in DOMAIN r /\ r[key] = clock
<1> DEFINE r == Remembered(key, duplicate)
           kept == {k \in DOMAIN recent : clock - recent[k] <= Window}
<1>1. kept \subseteq DOMAIN recent
  OBVIOUS
<1>2. DOMAIN recent \subseteq Keys /\ (\A k \in DOMAIN recent : recent[k] \in 0..clock)
  BY DEF TypeOK
<1>3. clock \in 0..clock
  BY DEF TypeOK
<1>4. CASE duplicate
  <2>1. r = [k \in kept |-> recent[k]]
    BY <1>4 DEF Remembered, Restrict
  <2>2. DOMAIN r = kept /\ \A k \in kept : r[k] = recent[k]
    BY <2>1
  <2> QED BY <1>1, <1>2, <1>4, <2>2
<1>5. CASE ~duplicate
  <2>1. r = [k \in kept \cup {key} |-> IF k = key THEN clock ELSE recent[k]]
    BY <1>5 DEF Remembered
  <2>2. DOMAIN r = kept \cup {key} /\ r[key] = clock /\ \A k \in kept : k # key => r[k] = recent[k]
    BY <2>1
  <2>3. \A k \in DOMAIN r : r[k] \in 0..clock
    BY <1>1, <1>2, <1>3, <2>2
  <2>4. DOMAIN r \subseteq Keys
    BY <1>1, <1>2, <2>2
  <2> QED BY <1>1, <1>5, <2>2, <2>3, <2>4
<1> QED BY <1>4, <1>5

\* What reporting an event changes beside the map.
LEMMA CaptureType ==
    ASSUME TypeOK, CaptureNavigation
    PROVE  TypeOK'
<1> USE DEF TypeOK
<1>1. PICK n \in Navigations : IgnoreNavigation(n) \/ CaptureEvent(n)
  BY DEF CaptureNavigation
<1>2. /\ reports < MaxReports
      /\ UNCHANGED <<clock, counters, backlog, chainUpdate, stops>>
  BY DEF CaptureNavigation
<1>3. reports' = reports + 1
  BY <1>1 DEF IgnoreNavigation, CaptureEvent
<1>4. reports' \in 0..MaxReports /\ 1..reports \subseteq 1..reports' /\ reports' \in 1..reports'
  BY <1>2, <1>3, CaptureBounds
<1>5. CASE IgnoreNavigation(n)
  <2>1. UNCHANGED <<recent, chain, dupUpdates, overlapped>>
    BY <1>5 DEF IgnoreNavigation
  <2> QED BY <1>2, <1>4, <2>1
<1>6. CASE CaptureEvent(n)
  <2> DEFINE key == Key(n)
             duplicate == IsDuplicate(key)
  <2>1. key \in Keys
    BY DEF Keys
  <2>2. duplicate \in BOOLEAN
    BY DEF IsDuplicate
  <2>3. recent' = Remembered(key, duplicate)
    BY <1>6 DEF CaptureEvent
  <2>4. DOMAIN recent' \subseteq Keys /\ \A k \in DOMAIN recent' : recent'[k] \in 0..clock'
    <3> HIDE DEF key, duplicate, TypeOK
    <3> QED BY <1>2, <2>1, <2>2, <2>3, RememberedFacts
  <2>5. chain' \in Seq(Operations) /\ overlapped' \in BOOLEAN
    <3>1. chain' = chain \/ chain' = Append(chain, "enqueue")
      BY <1>6 DEF CaptureEvent
    <3>2. chain' \in Seq(Operations)
      BY <3>1 DEF Operations
    <3>3. UNCHANGED overlapped \/ Begins
      BY <1>6 DEF CaptureEvent
    <3>4. overlapped' \in BOOLEAN
      BY <3>3 DEF Begins
    <3> QED BY <3>2, <3>4
  <2>6. /\ DOMAIN dupUpdates' \subseteq 1..reports'
        /\ \A i \in DOMAIN dupUpdates' :
              dupUpdates'[i] \in Updates /\ dupUpdates'[i].name = "duplicates"
    <3>1. CASE duplicate
      <4>1. dupUpdates' = [i \in DOMAIN dupUpdates \cup {reports'} |->
                IF i = reports' THEN Update("duplicates") ELSE dupUpdates[i]]
        BY <1>3, <1>6, <3>1 DEF CaptureEvent
      <4>2. Update("duplicates") \in Updates /\ Update("duplicates").name = "duplicates"
        BY UpdateTyped DEF CounterNames
      <4> QED BY <1>4, <4>1, <4>2
    <3>2. CASE ~duplicate
      BY <1>4, <1>6, <3>2 DEF CaptureEvent
    <3> QED BY <3>1, <3>2
  <2> QED BY <1>2, <1>4, <2>4, <2>5, <2>6
<1> QED BY <1>1, <1>5, <1>6

\* The chain with its first operation replaced or at its end.
LEMMA ChainTyped ==
    ASSUME TypeOK, chain # <<>>
    PROVE  /\ Tail(chain) \in Seq(Operations)
           /\ \A op \in Operations : Then(op) \in Seq(Operations)
           /\ Append(Tail(chain), "flush") \in Seq(Operations)
BY DEF TypeOK, Then, Operations

\* A step of the chain either starts an update of a named counter or has none to wait for.
LEMMA ChainType ==
    ASSUME TypeOK, PendingOK, ChainOK,
           \/ StartEnqueue \/ StoreShortened \/ StartObserve \/ StartFlush \/ RemoveHead
           \/ FinishChainUpdate \/ Retry
    PROVE  TypeOK'
<1> USE DEF TypeOK
<1>1. UNCHANGED <<clock, recent, dupUpdates, reports, stops>>
  BY DEF StartEnqueue, StoreShortened, StartObserve, StartFlush, RemoveHead,
         FinishChainUpdate, Retry
<1>2. backlog \in Nat /\ backlog <= MaxQueue /\ MaxQueue \in Nat
  BY WindowAssumption
<1>3. CASE StartEnqueue
  <2>1. chain # <<>> /\ UNCHANGED counters
    BY <1>3 DEF StartEnqueue, MayStart
  <2>2. CASE backlog < MaxQueue
    <3>1. backlog' = backlog + 1 /\ chain' = Then("observe") /\ UNCHANGED <<chainUpdate, overlapped>>
      BY <1>3, <2>2 DEF StartEnqueue
    <3>2. backlog' \in 0..MaxQueue
      BY <1>2, <2>2, <3>1
    <3> QED BY <1>1, <2>1, <3>1, <3>2, ChainTyped DEF Operations, Halfway
  <2>3. CASE ~(backlog < MaxQueue)
    <3>1. backlog' = backlog /\ chain' = chain /\ chainUpdate' = Update("dropped") /\ Begins
      BY <1>3, <2>3 DEF StartEnqueue
    <3>2. chainUpdate'.name \in CounterNames \ {"duplicates"}
      BY <3>1 DEF Update, CounterNames
    <3> QED BY <1>1, <2>1, <3>1, <3>2 DEF Begins
  <2> QED BY <2>2, <2>3
<1>4. CASE StartObserve
  <2>1. UNCHANGED <<counters, backlog, chain>> /\ chainUpdate' = Update("observed") /\ Begins
    BY <1>4 DEF StartObserve
  <2>2. chainUpdate'.name \in CounterNames \ {"duplicates"}
    BY <2>1 DEF Update, CounterNames
  <2> QED BY <1>1, <2>1, <2>2 DEF Begins
<1>5. CASE StartFlush
  <2>1. chain # <<>> /\ UNCHANGED <<counters, backlog>>
    BY <1>5 DEF StartFlush, MayStart
  <2>2. CASE backlog = 0
    <3>1. chain' = Tail(chain) /\ UNCHANGED <<chainUpdate, overlapped>>
      BY <1>5, <2>2 DEF StartFlush
    <3> QED BY <1>1, <2>1, <3>1, ChainTyped
  <2>3. CASE backlog # 0
    <3>1. /\ chain' = chain /\ Begins
          /\ \E a \in {"accepted", "rejected", "retries"} : chainUpdate' = Update(a)
      BY <1>5, <2>3 DEF StartFlush
    <3>2. chainUpdate'.name \in CounterNames \ {"duplicates"}
      BY <3>1 DEF Update, CounterNames
    <3> QED BY <1>1, <2>1, <3>1, <3>2 DEF Begins
  <2> QED BY <2>2, <2>3
<1>6. CASE FinishChainUpdate
  <2>1. chainUpdate \in Updates /\ chain # <<>> /\ counters' = Written(chainUpdate)
    BY <1>6 DEF FinishChainUpdate, PendingOK
  <2>2. counters' \in [CounterNames -> Nat]
    BY <2>1, FinishFacts
  <2>3. chainUpdate' = NoUpdate /\ UNCHANGED <<backlog, overlapped>>
    BY <1>6 DEF FinishChainUpdate
  <2>4. chain' \in {Tail(chain), Then("store"), Then("remove"), Append(Tail(chain), "flush")}
    BY <1>6 DEF FinishChainUpdate
  <2>5. chain' \in Seq(Operations)
    BY <2>1, <2>4, ChainTyped DEF Operations, Halfway
  <2> QED BY <1>1, <2>2, <2>3, <2>5
<1>7. CASE Retry
  <2>1. UNCHANGED <<counters, backlog, chainUpdate, overlapped>> /\ chain' = <<"flush">>
    BY <1>7 DEF Retry
  <2> QED BY <1>1, <2>1 DEF Operations
<1>8. CASE StoreShortened
  <2>1. /\ chain # <<>> /\ chain' = Then("observe")
        /\ UNCHANGED <<counters, backlog, chainUpdate, overlapped>>
    BY <1>8 DEF StoreShortened, MayStart
  <2> QED BY <1>1, <2>1, ChainTyped DEF Operations, Halfway
<1>9. CASE RemoveHead
  <2>1. /\ chain # <<>> /\ Head(chain) = "remove" /\ chain' = Then("flush")
        /\ backlog' = backlog - 1 /\ UNCHANGED <<counters, chainUpdate, overlapped>>
    BY <1>9 DEF RemoveHead, MayStart
  <2>2. backlog' \in 0..MaxQueue
    BY <1>2, <2>1 DEF ChainOK
  <2> QED BY <1>1, <2>1, <2>2, ChainTyped DEF Operations
<1> QED BY <1>3, <1>4, <1>5, <1>6, <1>7, <1>8, <1>9

LEMMA TypeStep == ASSUME TypeOK, PendingOK, ChainOK, [Next]_vars PROVE TypeOK'
<1>1. CASE Tick
  <2>1. /\ clock' \in 0..MaxTime /\ 0..clock \subseteq 0..clock'
        /\ UNCHANGED <<recent, counters, backlog, chain, chainUpdate, dupUpdates, reports,
                       stops, overlapped>>
    BY <1>1, CaptureBounds DEF Tick, TypeOK
  <2> QED BY <2>1 DEF TypeOK
<1>2. CASE CaptureNavigation
  BY <1>2, CaptureType
<1>3. CASE FinishDuplicate
  <2>1. PICK i \in DOMAIN dupUpdates :
            /\ dupUpdates[i] \in Updates /\ counters' = Written(dupUpdates[i])
            /\ DOMAIN dupUpdates' = DOMAIN dupUpdates \ {i}
            /\ \A j \in DOMAIN dupUpdates' : dupUpdates'[j] = dupUpdates[j]
    BY <1>3, DuplicateFinished
  <2>2. counters' \in [CounterNames -> Nat]
    BY <2>1, FinishFacts
  <2>3. UNCHANGED <<clock, recent, backlog, chain, chainUpdate, reports, stops, overlapped>>
    BY <1>3 DEF FinishDuplicate
  <2> QED BY <2>1, <2>2, <2>3 DEF TypeOK
<1>4. CASE \/ StartEnqueue \/ StoreShortened \/ StartObserve \/ StartFlush \/ RemoveHead
           \/ FinishChainUpdate \/ Retry
  BY <1>4, ChainType
<1>5. CASE Stop
  <2>1. /\ stops' \in 0..MaxStops /\ DOMAIN recent' = {} /\ DOMAIN dupUpdates' = {}
        /\ chain' = <<"flush">> /\ chainUpdate' = NoUpdate
        /\ UNCHANGED <<clock, counters, backlog, reports, overlapped>>
    BY <1>5, CaptureBounds DEF Stop, Nothing, TypeOK
  <2> QED BY <2>1 DEF TypeOK, Operations
<1>6. CASE UNCHANGED vars
  BY <1>6 DEF TypeOK
<1> QED BY <1>1, <1>2, <1>3, <1>4, <1>5, <1>6 DEF Next

-----------------------------------------------------------------------------
(* The operation that waits for an update, and the chain behind it.        *)

\* What replacing, removing or adding an operation leaves of the chain.
LEMMA ChainFacts ==
    ASSUME TypeOK, ChainOK, chain # <<>>
    PROVE  /\ \A op \in Operations :
                 /\ Then(op) # <<>> /\ Head(Then(op)) = op
                 /\ \A k \in DOMAIN Then(op) : k # 1 => Then(op)[k] \notin Halfway
           /\ \A k \in DOMAIN Tail(chain) : Tail(chain)[k] \notin Halfway
           /\ \A k \in DOMAIN Append(Tail(chain), "flush") :
                 Append(Tail(chain), "flush")[k] \notin Halfway
<1>1. chain \in Seq(Operations) /\ \A k \in DOMAIN chain : k # 1 => chain[k] \notin Halfway
  BY DEF TypeOK, ChainOK
<1>2. /\ Tail(chain) \in Seq(Operations) /\ Len(Tail(chain)) = Len(chain) - 1
      /\ \A k \in 1..Len(chain) - 1 : Tail(chain)[k] = chain[k + 1]
  BY <1>1
<1>3. \A k \in DOMAIN Tail(chain) : Tail(chain)[k] \notin Halfway
  BY <1>1, <1>2
<1>4. ASSUME NEW op \in Operations
      PROVE  /\ Then(op) # <<>> /\ Head(Then(op)) = op
             /\ \A k \in DOMAIN Then(op) : k # 1 => Then(op)[k] \notin Halfway
  <2> DEFINE t == Tail(chain)
  <2>1. t \in Seq(Operations) /\ \A k \in DOMAIN t : t[k] \notin Halfway
    BY <1>2, <1>3
  <2> HIDE DEF t
  <2>2. /\ <<op>> \o t # <<>> /\ Head(<<op>> \o t) = op
        /\ DOMAIN (<<op>> \o t) = 1..Len(t) + 1
        /\ \A k \in 2..Len(t) + 1 : (<<op>> \o t)[k] = t[k - 1]
    BY <2>1
  <2>3. \A k \in 2..Len(t) + 1 : t[k - 1] \notin Halfway
    BY <2>1
  <2>4. \A k \in DOMAIN (<<op>> \o t) : k # 1 => (<<op>> \o t)[k] \notin Halfway
    BY <2>1, <2>2, <2>3
  <2> QED BY <2>2, <2>4 DEF Then, t
<1>5. \A k \in DOMAIN Append(Tail(chain), "flush") :
          Append(Tail(chain), "flush")[k] \notin Halfway
  BY <1>2, <1>3 DEF Halfway
<1> QED BY <1>3, <1>4, <1>5

\* What a step does to the chain.
LEMMA StepsOfChain ==
    ASSUME TypeOK, PendingOK, ChainOK, [Next]_vars
    PROVE  \/ chain' = chain
           \/ chain' = Append(chain, "enqueue") \/ chain' = <<"flush">>
           \/ chain # <<>> /\ chain' = Tail(chain)
           \/ chain # <<>> /\ chain' = Append(Tail(chain), "flush")
           \/ chain # <<>> /\ \E op \in Operations : chain' = Then(op)
<1>1. CASE CaptureNavigation
  BY <1>1 DEF CaptureNavigation, IgnoreNavigation, CaptureEvent
<1>2. CASE StartEnqueue \/ StartObserve \/ StartFlush \/ StoreShortened \/ RemoveHead
  BY <1>2 DEF StartEnqueue, StartObserve, StartFlush, StoreShortened, RemoveHead, MayStart,
              Operations, Halfway
<1>3. CASE FinishChainUpdate
  BY <1>3 DEF FinishChainUpdate, PendingOK, Operations, Halfway
<1>4. CASE Tick \/ FinishDuplicate \/ Retry \/ Stop \/ UNCHANGED vars
  BY <1>4 DEF Tick, FinishDuplicate, Retry, Stop
<1> QED BY <1>1, <1>2, <1>3, <1>4 DEF Next

\* An operation that has ended leaves no other halfway.
LEMMA NextNotHalfway ==
    ASSUME TypeOK, ChainOK, chain # <<>>, chain' \in {Tail(chain), Append(Tail(chain), "flush")}
    PROVE  chain' # <<>> => Head(chain') \notin Halfway
<1>1. chain' \in Seq(Operations)
  BY ChainTyped
<1>2. \A k \in DOMAIN chain' : chain'[k] \notin Halfway
  BY ChainFacts
<1>3. chain' # <<>> => 1 \in DOMAIN chain' /\ Head(chain') = chain'[1]
  BY <1>1
<1> QED BY <1>2, <1>3

\* Where the running operation goes on.
LEMMA GoesOn ==
    ASSUME TypeOK, ChainOK, chain # <<>>, NEW op \in Operations, chain' = Then(op)
    PROVE  chain' # <<>> /\ Head(chain') = op
BY ChainFacts

LEMMA RemovesSomething ==
    ASSUME TypeOK, PendingOK, ChainOK, [Next]_vars
    PROVE  (chain' # <<>> /\ Head(chain') = "remove") => backlog' > 0
<1> USE DEF Operations, Halfway
<1>1. CASE UNCHANGED <<chain, backlog>>
  BY <1>1 DEF ChainOK
<1>2. CASE CaptureNavigation
  <2>1. backlog' = backlog /\ (chain' = chain \/ chain' = Append(chain, "enqueue"))
    BY <1>2 DEF CaptureNavigation, IgnoreNavigation, CaptureEvent
  <2>2. \/ Head(chain') = Head(chain) /\ chain # <<>>
        \/ chain' = <<>>
        \/ Head(chain') = "enqueue"
    BY <2>1 DEF TypeOK
  <2> QED BY <2>1, <2>2 DEF ChainOK
<1>3. CASE StartEnqueue \/ StoreShortened \/ RemoveHead
  <2>1. CASE chain # <<>> /\ (chain' = Then("observe") \/ chain' = Then("flush"))
    BY <2>1, GoesOn
  <2> QED BY <1>1, <1>3, <2>1 DEF StartEnqueue, StoreShortened, RemoveHead, MayStart
<1>4. CASE StartFlush
  <2>1. CASE chain # <<>> /\ chain' = Tail(chain)
    BY <2>1, NextNotHalfway
  <2> QED BY <1>1, <1>4, <2>1 DEF StartFlush, MayStart
<1>5. CASE FinishChainUpdate
  <2>1. chain # <<>> /\ backlog' = backlog
    BY <1>5 DEF FinishChainUpdate, PendingOK
  <2>2. CASE chainUpdate.name \in {"accepted", "rejected"}
    BY <1>5, <2>1, <2>2 DEF FinishChainUpdate, PendingOK
  <2>3. CASE chainUpdate.name = "dropped"
    <3>1. chain' = Then("store")
      BY <1>5, <2>3 DEF FinishChainUpdate
    <3> QED BY <2>1, <3>1, GoesOn
  <2>4. CASE chainUpdate.name \in {"observed", "retries"}
    <3>1. chain' \in {Tail(chain), Append(Tail(chain), "flush")}
      BY <1>5, <2>4 DEF FinishChainUpdate
    <3> QED BY <2>1, <3>1, NextNotHalfway
  <2>5. chainUpdate.name \in CounterNames \ {"duplicates"}
    BY <1>5 DEF TypeOK, FinishChainUpdate
  <2> QED BY <2>2, <2>3, <2>4, <2>5 DEF CounterNames
<1>6. CASE Retry \/ Stop
  BY <1>6 DEF Retry, Stop
<1>7. CASE Tick \/ FinishDuplicate \/ StartObserve \/ UNCHANGED vars
  BY <1>1, <1>7 DEF Tick, FinishDuplicate, StartObserve
<1> QED BY <1>2, <1>3, <1>4, <1>5, <1>6, <1>7 DEF Next

LEMMA ChainStep ==
    ASSUME TypeOK, PendingOK, ChainOK, [Next]_vars
    PROVE  ChainOK'
<1>1. \A k \in DOMAIN chain' : k # 1 => chain'[k] \notin Halfway
  <2>1. CASE chain' = chain \/ chain' = <<"flush">>
    BY <2>1 DEF ChainOK, Halfway
  <2>2. CASE chain' = Append(chain, "enqueue")
    BY <2>2 DEF ChainOK, TypeOK, Halfway
  <2>3. CASE chain # <<>> /\ chain' = Tail(chain)
    BY <2>3, ChainFacts
  <2>4. CASE chain # <<>> /\ chain' = Append(Tail(chain), "flush")
    BY <2>4, ChainFacts
  <2>5. CASE chain # <<>> /\ \E op \in Operations : chain' = Then(op)
    BY <2>5, ChainFacts
  <2> QED BY <2>1, <2>2, <2>3, <2>4, <2>5, StepsOfChain
<1> QED BY <1>1, RemovesSomething DEF ChainOK

LEMMA PendingStep == ASSUME TypeOK, PendingOK, [Next]_vars PROVE PendingOK'
<1>1. CASE UNCHANGED <<chain, chainUpdate, backlog>>
  BY <1>1 DEF PendingOK
<1>2. CASE CaptureNavigation
  <2>1. UNCHANGED <<chainUpdate, backlog>> /\ (chain' = chain \/ chain' = Append(chain, "enqueue"))
    BY <1>2 DEF CaptureNavigation, IgnoreNavigation, CaptureEvent
  <2>2. chain # <<>> => chain' # <<>> /\ Head(chain') = Head(chain)
    BY <2>1 DEF TypeOK
  <2> QED BY <2>1, <2>2 DEF PendingOK
<1>3. CASE StartEnqueue
  <2>1. chainUpdate = NoUpdate /\ chain # <<>> /\ Head(chain) = "enqueue"
    BY <1>3 DEF StartEnqueue, MayStart
  <2>2. CASE backlog < MaxQueue
    <3>1. chainUpdate' = NoUpdate
      BY <1>3, <2>1, <2>2 DEF StartEnqueue
    <3> QED BY <3>1 DEF PendingOK, NoUpdate
  <2>3. CASE ~(backlog < MaxQueue)
    <3>1. chainUpdate' = Update("dropped") /\ chain' = chain
      BY <1>3, <2>3 DEF StartEnqueue
    <3>2. Update("dropped") \in Updates /\ Update("dropped").name = "dropped"
      BY UpdateTyped DEF CounterNames
    <3> QED BY <2>1, <3>1, <3>2 DEF PendingOK, Waiting
  <2> QED BY <2>2, <2>3
<1>4. CASE StartObserve
  <2>1. /\ chainUpdate' = Update("observed") /\ chain' = chain
        /\ chain # <<>> /\ Head(chain) = "observe"
    BY <1>4 DEF StartObserve, MayStart
  <2>2. Update("observed") \in Updates /\ Update("observed").name = "observed"
    BY UpdateTyped DEF CounterNames
  <2> QED BY <2>1, <2>2 DEF PendingOK, Waiting
<1>5. CASE StartFlush
  <2>1. /\ chainUpdate = NoUpdate /\ chain # <<>> /\ Head(chain) = "flush"
        /\ backlog' = backlog /\ backlog \in Nat
    BY <1>5 DEF StartFlush, MayStart, TypeOK
  <2>2. CASE backlog = 0
    <3>1. chainUpdate' = NoUpdate
      BY <1>5, <2>1, <2>2 DEF StartFlush
    <3> QED BY <3>1 DEF PendingOK, NoUpdate
  <2>3. CASE backlog # 0
    <3>1. PICK a \in {"accepted", "rejected", "retries"} : chainUpdate' = Update(a) /\ chain' = chain
      BY <1>5, <2>3 DEF StartFlush
    <3>2. Update(a) \in Updates /\ Update(a).name = a
      BY UpdateTyped DEF CounterNames
    <3>3. backlog > 0
      BY <2>1, <2>3
    <3> QED BY <2>1, <3>1, <3>2, <3>3 DEF PendingOK, Waiting
  <2> QED BY <2>2, <2>3
<1>6. CASE FinishChainUpdate \/ Stop
  BY <1>6 DEF FinishChainUpdate, Stop, PendingOK, NoUpdate
<1>7. CASE StoreShortened \/ RemoveHead
  <2>1. chainUpdate' = NoUpdate
    BY <1>7 DEF StoreShortened, RemoveHead, MayStart
  <2> QED BY <2>1 DEF PendingOK, NoUpdate
<1>8. CASE Retry
  <2>1. chain = <<>> /\ UNCHANGED <<chainUpdate, backlog>>
    BY <1>8 DEF Retry
  <2> QED BY <2>1 DEF PendingOK
<1>9. CASE Tick \/ FinishDuplicate \/ UNCHANGED vars
  BY <1>1, <1>9 DEF Tick, FinishDuplicate
<1> QED BY <1>2, <1>3, <1>4, <1>5, <1>6, <1>7, <1>8, <1>9 DEF Next

-----------------------------------------------------------------------------
(* The deduplicator.                                                       *)

\* What a step that captures or suppresses no event does to what the deduplicator knows.
Idle ==
    /\ UNCHANGED <<recent, history, stops>>
    /\ clock' >= clock /\ reports' >= reports

\* The record of what became of an event.
Entry(key, duplicate) ==
    [report |-> reports + 1, key |-> key, time |-> clock, life |-> stops,
     verdict |-> IF duplicate THEN "suppressed" ELSE "captured"]

Captures(key) ==
    /\ recent' = Remembered(key, IsDuplicate(key))
    /\ history' = history \cup {Entry(key, IsDuplicate(key))}
    /\ clock' = clock /\ stops' = stops /\ reports' = reports + 1

\* A step is idle for the deduplicator, decides on one event, or starts it anew.
LEMMA DedupShape ==
    ASSUME TypeOK, [Next]_vars
    PROVE  Idle \/ (\E key \in Keys : Captures(key)) \/ Stop
<1>1. clock \in Nat /\ reports \in Nat
  BY DEF TypeOK
<1>2. CASE Tick
  BY <1>1, <1>2 DEF Tick, Idle
<1>3. CASE CaptureNavigation
  <2>1. PICK n \in Navigations : IgnoreNavigation(n) \/ CaptureEvent(n)
    BY <1>3 DEF CaptureNavigation
  <2>2. clock' = clock /\ stops' = stops
    BY <1>3 DEF CaptureNavigation
  <2>3. CASE IgnoreNavigation(n)
    BY <1>1, <2>2, <2>3 DEF IgnoreNavigation, Idle
  <2>4. CASE CaptureEvent(n)
    <3>1. Key(n) \in Keys
      BY DEF Keys
    <3>2. Captures(Key(n))
      BY <2>2, <2>4 DEF CaptureEvent, Captures, Entry
    <3> QED BY <3>1, <3>2
  <2> QED BY <2>1, <2>3, <2>4
<1>4. CASE \/ FinishDuplicate \/ StartEnqueue \/ StoreShortened \/ StartObserve \/ StartFlush
           \/ RemoveHead \/ FinishChainUpdate \/ Retry \/ UNCHANGED vars
  <2>1. UNCHANGED <<recent, history, stops, clock, reports>>
    BY <1>4 DEF FinishDuplicate, StartEnqueue, StoreShortened, StartObserve, StartFlush,
                RemoveHead, FinishChainUpdate, Retry
  <2> QED BY <1>1, <2>1 DEF Idle
<1> QED BY <1>2, <1>3, <1>4 DEF Next

LEMMA EntryFacts ==
    ASSUME NEW key, NEW duplicate \in BOOLEAN
    PROVE  LET e == Entry(key, duplicate) IN
           /\ e.report = reports + 1 /\ e.key = key /\ e.time = clock /\ e.life = stops
           /\ (e.verdict = "suppressed") <=> duplicate
           /\ (e.verdict = "captured") <=> ~duplicate
BY DEF Entry

LEMMA DuplicateBoolean == \A key : IsDuplicate(key) \in BOOLEAN
BY DEF IsDuplicate

\* The captures after a decision: those before, and the event unless it is a duplicate.
LEMMA CapturedAfter ==
    ASSUME NEW key, Captures(key), NEW h
    PROVE  /\ h \in Captured' <=>
                 h \in Captured \/ (h = Entry(key, IsDuplicate(key)) /\ ~IsDuplicate(key))
           /\ h \in Suppressed' <=>
                 h \in Suppressed \/ (h = Entry(key, IsDuplicate(key)) /\ IsDuplicate(key))
<1>1. history' = history \cup {Entry(key, IsDuplicate(key))}
  BY DEF Captures
<1>2. LET e == Entry(key, IsDuplicate(key)) IN
      /\ (e.verdict = "suppressed") <=> IsDuplicate(key)
      /\ (e.verdict = "captured") <=> ~IsDuplicate(key)
  BY EntryFacts, DuplicateBoolean
<1> DEFINE e == Entry(key, IsDuplicate(key))
<1> HIDE DEF e
<1>3. history' = history \cup {e} /\ ((e.verdict = "suppressed") <=> IsDuplicate(key))
      /\ ((e.verdict = "captured") <=> ~IsDuplicate(key))
  BY <1>1, <1>2 DEF e
<1>4. /\ h \in Captured' <=> h \in Captured \/ (h = e /\ ~IsDuplicate(key))
      /\ h \in Suppressed' <=> h \in Suppressed \/ (h = e /\ IsDuplicate(key))
  BY <1>3 DEF Captured, Suppressed
<1> QED BY <1>4 DEF e

LEMMA HistoryStep == ASSUME TypeOK, TypeOK', HistoryOK, [Next]_vars PROVE HistoryOK'
<1>1. clock \in Nat /\ reports \in Nat /\ stops \in Nat
      /\ clock' \in Nat /\ reports' \in Nat /\ stops' \in Nat
  BY DEF TypeOK
<1>2. clock' >= clock /\ reports' >= reports /\ stops' >= stops
  BY <1>1, DedupShape DEF Idle, Captures, Stop
<1>3. \A h \in history : /\ h.report \in Nat /\ h.time \in Nat /\ h.life \in Nat
                         /\ h.report <= reports' /\ h.time <= clock' /\ h.life <= stops'
  BY <1>1, <1>2 DEF HistoryOK
<1>4. CASE history' = history
  BY <1>3, <1>4 DEF HistoryOK
<1>5. ASSUME NEW key, Captures(key) PROVE HistoryOK'
  <2> DEFINE e == Entry(key, IsDuplicate(key))
  <2>1. e.report = reports + 1 /\ e.time = clock /\ e.life = stops
    BY EntryFacts, DuplicateBoolean
  <2>2. history' = history \cup {e} /\ reports' = reports + 1 /\ clock' = clock /\ stops' = stops
    BY <1>5 DEF Captures
  <2> HIDE DEF e
  <2>3. /\ e.report \in Nat /\ e.time \in Nat /\ e.life \in Nat
        /\ e.report <= reports' /\ e.time <= clock' /\ e.life <= stops'
    BY <1>1, <2>1, <2>2
  <2> QED BY <1>3, <2>2, <2>3 DEF HistoryOK
<1> QED BY <1>4, <1>5, DedupShape DEF Idle, Stop

LEMMA CapturedRememberedStep ==
    ASSUME TypeOK, TypeOK', HistoryOK, CapturedRemembered, [Next]_vars
    PROVE  CapturedRemembered'
<1>1. clock \in Nat /\ stops \in Nat /\ clock' \in Nat /\ Window \in Nat
  BY WindowAssumption DEF TypeOK
<1>2. \A g \in Captured : g.time \in Nat /\ g.life \in Nat /\ g.time <= clock /\ g.life <= stops
  BY DEF HistoryOK, Captured
<1>3. \A k \in DOMAIN recent : recent[k] \in Nat
  BY DEF TypeOK
<1>4. CASE Idle
  <2>1. clock' >= clock /\ Captured' = Captured /\ UNCHANGED <<recent, stops>>
    BY <1>4 DEF Idle, Captured
  <2>2. SUFFICES ASSUME NEW g \in Captured, g.life = stops, clock' - g.time <= Window
                 PROVE  g.key \in DOMAIN recent /\ recent[g.key] >= g.time
    BY <2>1 DEF CapturedRemembered
  <2>3. clock - g.time <= Window
    BY <1>1, <1>2, <2>1, <2>2
  <2> QED BY <2>2, <2>3 DEF CapturedRemembered
<1>5. ASSUME NEW key \in Keys, Captures(key) PROVE CapturedRemembered'
  <2> DEFINE dup == IsDuplicate(key)
             e == Entry(key, dup)
  <2>1. recent' = Remembered(key, dup) /\ clock' = clock /\ stops' = stops
    BY <1>5 DEF Captures
  <2>2. dup \in BOOLEAN
    BY DuplicateBoolean
  <2>3. e.key = key /\ e.time = clock
    BY <2>2, EntryFacts
  <2>4. \A h : h \in Captured' => h \in Captured \/ (h = e /\ ~dup)
    BY <1>5, CapturedAfter
  <2> HIDE DEF dup, e
  <2>5. /\ \A k \in DOMAIN recent' : ~(k = key /\ ~dup) =>
              k \in DOMAIN recent /\ recent'[k] = recent[k]
        /\ \A k \in DOMAIN recent : clock - recent[k] <= Window => k \in DOMAIN recent'
        /\ ~dup => key \in DOMAIN recent' /\ recent'[key] = clock
    BY <2>1, <2>2, RememberedFacts
  <2>6. SUFFICES ASSUME NEW g \in Captured', g.life = stops, clock - g.time <= Window
                 PROVE  g.key \in DOMAIN recent' /\ recent'[g.key] >= g.time
    BY <2>1 DEF CapturedRemembered
  <2>7. CASE g = e /\ ~dup
    BY <1>1, <2>3, <2>5, <2>7
  <2>8. CASE g \in Captured
    <3>1. g.key \in DOMAIN recent /\ recent[g.key] >= g.time
      BY <2>6, <2>8 DEF CapturedRemembered
    <3> DEFINE k == g.key
               t == g.time
    <3>2. k \in DOMAIN recent /\ recent[k] \in Nat /\ recent[k] >= t /\ t \in Nat /\ t <= clock
          /\ clock - t <= Window
      BY <1>2, <1>3, <2>6, <2>8, <3>1
    <3> HIDE DEF k, t
    <3>3. clock - recent[k] <= Window
      BY <1>1, <3>2
    <3>4. k \in DOMAIN recent'
      BY <2>5, <3>2, <3>3
    <3>5. CASE k = key /\ ~dup
      BY <1>1, <2>5, <3>2, <3>5 DEF k, t
    <3>6. CASE ~(k = key /\ ~dup)
      BY <2>5, <3>2, <3>4, <3>6 DEF k, t
    <3> QED BY <3>5, <3>6
  <2> QED BY <2>4, <2>6, <2>7, <2>8
<1>6. CASE Stop
  <2>1. stops' = stops + 1 /\ Captured' = Captured
    BY <1>6 DEF Stop, Captured
  <2>2. \A g \in Captured' : g.life # stops'
    BY <1>1, <1>2, <2>1
  <2> QED BY <2>2 DEF CapturedRemembered
<1> QED BY <1>4, <1>5, <1>6, DedupShape

LEMMA RecentCapturedStep ==
    ASSUME TypeOK, RecentCaptured, [Next]_vars
    PROVE  RecentCaptured'
<1>1. CASE Idle
  BY <1>1 DEF Idle, RecentCaptured, Captured, Remembers
<1>2. ASSUME NEW key \in Keys, Captures(key) PROVE RecentCaptured'
  <2> DEFINE dup == IsDuplicate(key)
             e == Entry(key, dup)
  <2>1. recent' = Remembered(key, dup) /\ clock' = clock /\ stops' = stops
    BY <1>2 DEF Captures
  <2>2. dup \in BOOLEAN
    BY DuplicateBoolean
  <2>3. e.key = key /\ e.time = clock /\ e.life = stops
    BY <2>2, EntryFacts
  <2>4. \A h : h \in Captured' <=> h \in Captured \/ (h = e /\ ~dup)
    BY <1>2, CapturedAfter
  <2> HIDE DEF dup, e
  <2>5. /\ \A k \in DOMAIN recent' : ~(k = key /\ ~dup) =>
              k \in DOMAIN recent /\ recent'[k] = recent[k]
        /\ ~dup => key \in DOMAIN recent' /\ recent'[key] = clock
    BY <2>1, <2>2, RememberedFacts
  <2>6. SUFFICES ASSUME NEW k \in DOMAIN recent'
                 PROVE  \E g \in Captured' : Remembers(g, k, recent', stops')
    BY DEF RecentCaptured
  <2>7. CASE k = key /\ ~dup
    <3>1. e \in Captured'
      BY <2>4, <2>7
    <3>2. Remembers(e, k, recent', stops')
      BY <2>1, <2>3, <2>5, <2>7 DEF Remembers
    <3> QED BY <3>1, <3>2
  <2>8. CASE ~(k = key /\ ~dup)
    <3>1. k \in DOMAIN recent /\ recent'[k] = recent[k]
      BY <2>5, <2>8
    <3>2. PICK g \in Captured : Remembers(g, k, recent, stops)
      BY <3>1 DEF RecentCaptured
    <3>3. Remembers(g, k, recent', stops') /\ g \in Captured'
      BY <2>1, <2>4, <3>1, <3>2 DEF Remembers
    <3> QED BY <3>3
  <2> QED BY <2>7, <2>8
<1>3. CASE Stop
  BY <1>3 DEF Stop, Nothing, RecentCaptured
<1> QED BY <1>1, <1>2, <1>3, DedupShape

\* A suppressed event has been captured within the window: the map says so, and RecentCaptured
\* that what the map says is so.
LEMMA TwinStep ==
    ASSUME TypeOK, HistoryOK, RecentCaptured, SuppressedHasTwin, [Next]_vars
    PROVE  SuppressedHasTwin'
<1>1. CASE history' = history
  BY <1>1 DEF SuppressedHasTwin, Suppressed, Captured
<1>2. ASSUME NEW key \in Keys, Captures(key) PROVE SuppressedHasTwin'
  <2> DEFINE dup == IsDuplicate(key)
             e == Entry(key, dup)
  <2>1. dup \in BOOLEAN
    BY DuplicateBoolean
  <2>2. e.key = key /\ e.time = clock /\ e.report = reports + 1
    BY <2>1, EntryFacts
  <2>3. /\ \A h : h \in Captured' <=> h \in Captured \/ (h = e /\ ~dup)
        /\ \A h : h \in Suppressed' <=> h \in Suppressed \/ (h = e /\ dup)
    BY <1>2, CapturedAfter
  <2>4. dup => key \in DOMAIN recent /\ clock - recent[key] <= Window
    BY DEF IsDuplicate
  <2> HIDE DEF dup, e
  <2>5. ASSUME dup
        PROVE  \E g \in Captured : g.key = e.key /\ g.report < e.report /\ e.time - g.time <= Window
    <3>1. PICK g \in Captured : Remembers(g, key, recent, stops)
      BY <2>4, <2>5 DEF RecentCaptured
    <3>2. g.key = key /\ g.time = recent[key]
      BY <3>1 DEF Remembers
    <3>3. g.report \in Nat /\ g.report <= reports /\ reports \in Nat
      BY DEF HistoryOK, TypeOK, Captured
    <3>4. g.report < e.report
      BY <2>2, <3>3
    <3>5. e.time - g.time <= Window
      BY <2>2, <2>4, <2>5, <3>2
    <3> QED BY <2>2, <3>2, <3>4, <3>5
  <2>6. \A h \in Suppressed' : \E g \in Captured :
            g.key = h.key /\ g.report < h.report /\ h.time - g.time <= Window
    BY <2>3, <2>5 DEF SuppressedHasTwin
  <2> QED BY <2>3, <2>6 DEF SuppressedHasTwin
<1> QED BY <1>1, <1>2, DedupShape DEF Idle, Stop

\* An event is captured when the map has no capture of its key within the window, and by
\* CapturedRemembered there is then none.
LEMMA ApartStep ==
    ASSUME TypeOK, HistoryOK, CapturedRemembered, CapturedAreApart, [Next]_vars
    PROVE  CapturedAreApart'
<1>1. CASE history' = history
  BY <1>1 DEF CapturedAreApart, Captured
<1>2. ASSUME NEW key \in Keys, Captures(key) PROVE CapturedAreApart'
  <2> DEFINE dup == IsDuplicate(key)
             e == Entry(key, dup)
  <2>1. dup \in BOOLEAN
    BY DuplicateBoolean
  <2>2. e.key = key /\ e.time = clock /\ e.report = reports + 1 /\ e.life = stops
    BY <2>1, EntryFacts
  <2>3. \A h : h \in Captured' => h \in Captured \/ (h = e /\ ~dup)
    BY <1>2, CapturedAfter
  <2>4. ~dup => ~(key \in DOMAIN recent /\ clock - recent[key] <= Window)
    BY DEF IsDuplicate
  <2> HIDE DEF dup, e
  <2>5. \A g \in Captured : g.report \in Nat /\ g.report <= reports /\ g.time \in Nat /\ g.time <= clock
    BY DEF HistoryOK, Captured
  <2>6. reports \in Nat /\ clock \in Nat /\ Window \in Nat
        /\ \A k \in DOMAIN recent : recent[k] \in Nat
    BY WindowAssumption DEF TypeOK
  <2>7. ASSUME NEW g \in Captured, ~dup, g.key = key, g.life = stops
        PROVE  clock - g.time > Window
    <3>1. SUFFICES ASSUME clock - g.time <= Window PROVE FALSE
      BY <2>5, <2>6
    <3>2. key \in DOMAIN recent /\ recent[key] >= g.time
      BY <2>7, <3>1 DEF CapturedRemembered
    <3>3. clock - recent[key] <= Window
      BY <2>5, <2>6, <3>1, <3>2
    <3> QED BY <2>4, <2>7, <3>2, <3>3
  <2>8. SUFFICES ASSUME NEW g \in Captured', NEW h \in Captured',
                        g.key = h.key, g.life = h.life, g.report < h.report
                 PROVE  h.time - g.time > Window
    BY DEF CapturedAreApart
  <2>9. CASE g \in Captured /\ h \in Captured
    BY <2>8, <2>9 DEF CapturedAreApart
  <2>10. CASE g \in Captured /\ h = e /\ ~dup
    BY <2>2, <2>7, <2>8, <2>10
  <2>11. CASE g = e
    BY <2>2, <2>3, <2>5, <2>6, <2>8, <2>11
  <2> QED BY <2>3, <2>9, <2>10, <2>11
<1> QED BY <1>1, <1>2, DedupShape DEF Idle, Stop

-----------------------------------------------------------------------------
(* The updates while none overlaps another.                                *)

\* An update begins alone if no two have overlapped when it has begun.
LEMMA BeginsAlone ==
    ASSUME Begins, ~overlapped'
    PROVE  ~overlapped /\ chainUpdate = NoUpdate /\ DOMAIN dupUpdates = {}
BY DEF Begins

LEMMA AloneStep ==
    ASSUME TypeOK, PendingOK, AloneOK, [Next]_vars
    PROVE  AloneOK'
<1> SUFFICES ASSUME ~overlapped'
             PROVE  /\ chainUpdate' # NoUpdate => chainUpdate'.seen = counters' /\ DOMAIN dupUpdates' = {}
                    /\ \A i \in DOMAIN dupUpdates' :
                          dupUpdates'[i].seen = counters' /\ DOMAIN dupUpdates' = {i}
  BY DEF AloneOK, NoUpdate
<1>1. CASE UNCHANGED <<counters, chainUpdate, dupUpdates, overlapped>>
  BY <1>1 DEF AloneOK
<1>2. CASE CaptureNavigation
  <2>1. PICK n \in Navigations : IgnoreNavigation(n) \/ CaptureEvent(n)
    BY <1>2 DEF CaptureNavigation
  <2>2. UNCHANGED <<counters, chainUpdate>>
    BY <1>2 DEF CaptureNavigation
  <2>3. CASE CaptureEvent(n) /\ IsDuplicate(Key(n))
    <3>1. Begins /\ dupUpdates' = [i \in DOMAIN dupUpdates \cup {reports + 1} |->
              IF i = reports + 1 THEN Update("duplicates") ELSE dupUpdates[i]]
      BY <2>3 DEF CaptureEvent
    <3>2. chainUpdate = NoUpdate /\ DOMAIN dupUpdates = {}
      BY <3>1, BeginsAlone
    <3>3. DOMAIN dupUpdates' = {reports + 1} /\ dupUpdates'[reports + 1] = Update("duplicates")
      BY <3>1, <3>2
    <3> QED BY <2>2, <3>2, <3>3 DEF Update
  <2> QED BY <1>1, <2>1, <2>2, <2>3 DEF IgnoreNavigation, CaptureEvent
<1>3. CASE StartEnqueue \/ StartObserve \/ StartFlush
  <2>1. UNCHANGED <<counters, dupUpdates>>
    BY <1>3 DEF StartEnqueue, StartObserve, StartFlush
  <2>2. CASE Begins /\ \E c \in CounterNames : chainUpdate' = Update(c)
    <3>1. DOMAIN dupUpdates = {}
      BY <2>2, BeginsAlone
    <3> QED BY <2>1, <2>2, <3>1 DEF Update
  <2> QED BY <1>1, <1>3, <2>1, <2>2 DEF StartEnqueue, StartObserve, StartFlush, CounterNames
<1>4. CASE FinishChainUpdate
  <2>1. chainUpdate # NoUpdate /\ chainUpdate' = NoUpdate /\ UNCHANGED <<dupUpdates, overlapped>>
    BY <1>4 DEF FinishChainUpdate
  <2> QED BY <2>1 DEF AloneOK
<1>5. CASE FinishDuplicate
  <2>1. PICK i \in DOMAIN dupUpdates : DOMAIN dupUpdates' = DOMAIN dupUpdates \ {i}
    BY <1>5, DuplicateFinished
  <2>2. UNCHANGED <<chainUpdate, overlapped>>
    BY <1>5 DEF FinishDuplicate
  <2>3. DOMAIN dupUpdates = {i} /\ chainUpdate = NoUpdate
    BY <2>2 DEF AloneOK
  <2> QED BY <2>1, <2>2, <2>3
<1>6. CASE Stop
  BY <1>6 DEF Stop, Nothing
<1>7. CASE Tick \/ StoreShortened \/ RemoveHead \/ Retry \/ UNCHANGED vars
  BY <1>1, <1>7 DEF Tick, StoreShortened, RemoveHead, Retry
<1> QED BY <1>2, <1>3, <1>4, <1>5, <1>6, <1>7 DEF Next

-----------------------------------------------------------------------------
(* The queue against its counters.                                         *)

\* Which step moves the queue or a counter, and by one; the rest of the accounts is arithmetic.
LEMMA CountAlone ==
    ASSUME TypeOK, PendingOK, AloneOK, FinishChainUpdate, ~overlapped'
    PROVE  /\ ~overlapped /\ chainUpdate.name \in CounterNames \ {"duplicates"}
           /\ \A c \in CounterNames :
                counters'[c] = IF c = chainUpdate.name THEN counters[c] + 1 ELSE counters[c]
<1>1. /\ ~overlapped /\ chainUpdate # NoUpdate /\ chainUpdate \in Updates
      /\ counters' = Written(chainUpdate)
  BY DEF FinishChainUpdate, PendingOK
<1>2. chainUpdate.seen = counters
  BY <1>1 DEF AloneOK
<1>3. chainUpdate.name \in CounterNames \ {"duplicates"}
  BY <1>1 DEF TypeOK
<1> QED BY <1>1, <1>2, <1>3, FinishFacts

LEMMA CountersTyped ==
    ASSUME TypeOK
    PROVE  /\ counters["accepted"] \in Nat /\ counters["rejected"] \in Nat
           /\ counters["dropped"] \in Nat /\ counters["observed"] \in Nat
           /\ counters["duplicates"] \in Nat
           /\ backlog \in Nat /\ stops \in Nat /\ InProgress \in 0..1
BY DEF TypeOK, CounterNames, InProgress

\* The account from its terms, before and after a step.
LEMMA Account ==
    ASSUME NEW a \in Nat, NEW r \in Nat, NEW d \in Nat, NEW o \in Nat, NEW b \in Nat,
           counters["accepted"] = a, counters["rejected"] = r, counters["dropped"] = d,
           counters["observed"] = o, backlog = b
    PROVE  Unaccounted \in Int /\ Unaccounted = a + r + d + b - o
BY DEF Unaccounted

LEMMA QueueStep ==
    ASSUME TypeOK, TypeOK', PendingOK, ChainOK, AloneOK, QueueAccounted, [Next]_vars
    PROVE  QueueAccounted'
<1> USE DEF Operations, Halfway, MayStart
<1> SUFFICES ASSUME ~overlapped' PROVE Unaccounted' \in InProgress'..InProgress' + stops'
  BY DEF QueueAccounted
<1>1. /\ counters["accepted"] \in Nat /\ counters["rejected"] \in Nat
      /\ counters["dropped"] \in Nat /\ counters["observed"] \in Nat
      /\ backlog \in Nat /\ stops \in Nat /\ InProgress \in 0..1
  BY CountersTyped
<1>2. ~overlapped
  BY DEF Next, Tick, CaptureNavigation, IgnoreNavigation, CaptureEvent, FinishDuplicate,
         StartEnqueue, StoreShortened, StartObserve, StartFlush, RemoveHead, FinishChainUpdate,
         Retry, Stop, Begins
<1>3. Unaccounted \in InProgress..InProgress + stops /\ Unaccounted \in Int
  BY <1>1, <1>2, Account DEF QueueAccounted
<1>4. ASSUME UNCHANGED <<backlog, stops>>,
             \A c \in CounterNames \ {"duplicates", "retries"} : counters'[c] = counters[c],
             InProgress' = InProgress
      PROVE  Unaccounted' \in InProgress'..InProgress' + stops'
  BY <1>3, <1>4 DEF Unaccounted, CounterNames
<1>5. CASE CaptureNavigation
  <2>1. /\ UNCHANGED <<counters, backlog, stops>>
        /\ chain' = chain \/ chain' = Append(chain, "enqueue")
    BY <1>5 DEF CaptureNavigation, IgnoreNavigation, CaptureEvent
  <2>2. InProgress' = InProgress
    BY <2>1 DEF InProgress, TypeOK
  <2> QED BY <1>4, <2>1, <2>2
<1>6. CASE StartEnqueue
  <2>1. chain # <<>> /\ Head(chain) = "enqueue" /\ UNCHANGED <<counters, stops>>
    BY <1>6 DEF StartEnqueue
  <2>2. CASE backlog' = backlog + 1 /\ chain' = Then("observe")
    <3>1. InProgress = 0 /\ InProgress' = 1
      BY <2>1, <2>2, GoesOn DEF InProgress
    <3>2. Unaccounted' = Unaccounted + 1
      BY <1>1, <2>1, <2>2 DEF Unaccounted
    <3> QED BY <1>1, <1>3, <2>1, <3>1, <3>2
  <2>3. CASE UNCHANGED <<chain, backlog>>
    BY <1>4, <2>1, <2>3 DEF InProgress
  <2> QED BY <1>6, <2>2, <2>3 DEF StartEnqueue
<1>7. CASE StoreShortened
  <2>1. /\ chain # <<>> /\ Head(chain) = "store" /\ chain' = Then("observe")
        /\ UNCHANGED <<counters, backlog, stops>>
    BY <1>7 DEF StoreShortened
  <2>2. InProgress = 1 /\ InProgress' = 1
    BY <2>1, GoesOn DEF InProgress
  <2> QED BY <1>4, <2>1, <2>2
<1>8. CASE StartFlush
  <2>1. chain # <<>> /\ Head(chain) = "flush" /\ UNCHANGED <<counters, backlog, stops>>
    BY <1>8 DEF StartFlush
  <2>2. CASE chain' = chain
    BY <1>4, <2>1, <2>2 DEF InProgress
  <2>3. CASE chain' = Tail(chain)
    <3>1. InProgress = 0 /\ InProgress' = 0
      BY <2>1, <2>3, NextNotHalfway DEF InProgress
    <3> QED BY <1>4, <2>1, <3>1
  <2> QED BY <1>8, <2>2, <2>3 DEF StartFlush
<1>9. CASE RemoveHead
  <2>1. /\ chain # <<>> /\ Head(chain) = "remove" /\ chain' = Then("flush")
        /\ backlog' = backlog - 1 /\ UNCHANGED <<counters, stops>>
    BY <1>9 DEF RemoveHead
  <2>2. InProgress = 1 /\ InProgress' = 0
    BY <2>1, GoesOn DEF InProgress
  <2>3. Unaccounted' = Unaccounted - 1
    <3>1. \A a, r, d, o, b \in Nat : a + r + d + (b - 1) - o = a + r + d + b - o - 1
      OBVIOUS
    <3>2. Unaccounted' = counters["accepted"] + counters["rejected"] + counters["dropped"]
                             + (backlog - 1) - counters["observed"]
      BY <2>1 DEF Unaccounted
    <3> QED BY <1>1, <3>1, <3>2 DEF Unaccounted
  <2> QED BY <1>1, <1>3, <2>1, <2>2, <2>3
<1>10. CASE FinishChainUpdate
  <2> DEFINE name == chainUpdate.name
  <2>1. /\ name \in CounterNames \ {"duplicates"}
        /\ \A c \in CounterNames : counters'[c] = IF c = name THEN counters[c] + 1 ELSE counters[c]
    BY <1>10, CountAlone
  <2>2. chain # <<>> /\ Head(chain) = Waiting(name) /\ UNCHANGED <<backlog, stops>>
    BY <1>10 DEF FinishChainUpdate, PendingOK
  <2>3. CASE name = "dropped"
    <3>1. Head(chain) = "enqueue" /\ chain' = Then("store")
      BY <1>10, <2>2, <2>3 DEF FinishChainUpdate, Waiting
    <3>2. InProgress = 0 /\ InProgress' = 1
      BY <2>2, <3>1, GoesOn DEF InProgress
    <3>3. Unaccounted' = Unaccounted + 1
      BY <1>1, <2>1, <2>2, <2>3 DEF Unaccounted, CounterNames
    <3> QED BY <1>1, <1>3, <2>2, <3>2, <3>3
  <2>4. CASE name \in {"accepted", "rejected"}
    <3>1. Head(chain) = "flush" /\ chain' = Then("remove")
      BY <1>10, <2>2, <2>4 DEF FinishChainUpdate, Waiting
    <3>2. InProgress = 0 /\ InProgress' = 1
      BY <2>2, <3>1, GoesOn DEF InProgress
    <3>3. Unaccounted' = Unaccounted + 1
      <4>1. /\ counters'["accepted"] + counters'["rejected"]
                 = counters["accepted"] + counters["rejected"] + 1
            /\ counters'["dropped"] = counters["dropped"]
            /\ counters'["observed"] = counters["observed"]
            /\ counters'["accepted"] \in Nat /\ counters'["rejected"] \in Nat
        BY <1>1, <2>1, <2>4 DEF CounterNames
      <4> QED BY <1>1, <2>2, <4>1 DEF Unaccounted
    <3> QED BY <1>1, <1>3, <2>2, <3>2, <3>3
  <2>5. CASE name = "observed"
    <3>1. Head(chain) = "observe" /\ chain' = Append(Tail(chain), "flush")
      BY <1>10, <2>2, <2>5 DEF FinishChainUpdate, Waiting
    <3>2. InProgress = 1 /\ InProgress' = 0
      BY <2>2, <3>1, NextNotHalfway DEF InProgress
    <3>3. Unaccounted' = Unaccounted - 1
      <4>1. /\ counters'["accepted"] = counters["accepted"]
            /\ counters'["rejected"] = counters["rejected"]
            /\ counters'["dropped"] = counters["dropped"]
            /\ counters'["observed"] = counters["observed"] + 1
        BY <1>1, <2>1, <2>5 DEF CounterNames
      <4> QED BY <1>1, <2>2, <4>1 DEF Unaccounted
    <3> QED BY <1>1, <1>3, <2>2, <3>2, <3>3
  <2>6. CASE name = "retries"
    <3>1. Head(chain) = "flush" /\ chain' = Tail(chain)
      BY <1>10, <2>2, <2>6 DEF FinishChainUpdate, Waiting
    <3>2. InProgress = 0 /\ InProgress' = 0
      BY <2>2, <3>1, NextNotHalfway DEF InProgress
    <3> QED BY <1>4, <2>1, <2>2, <2>6, <3>2
  <2> QED BY <2>1, <2>3, <2>4, <2>5, <2>6 DEF CounterNames
<1>11. CASE FinishDuplicate
  <2>1. UNCHANGED <<backlog, chain, chainUpdate, stops>>
    BY <1>11 DEF FinishDuplicate
  <2>2. PICK i \in DOMAIN dupUpdates :
            dupUpdates[i] \in Updates /\ counters' = Written(dupUpdates[i])
    BY <1>11, DuplicateFinished
  <2>3. dupUpdates[i].seen = counters
    BY <1>2 DEF AloneOK
  <2>4. dupUpdates[i].name = "duplicates"
    BY DEF TypeOK
  <2>5. \A c \in CounterNames \ {"duplicates", "retries"} : counters'[c] = counters[c]
    BY <2>2, <2>3, <2>4, FinishFacts
  <2> QED BY <1>4, <2>1, <2>5 DEF InProgress
<1>12. CASE Stop
  <2>1. UNCHANGED <<counters, backlog>> /\ stops' = stops + 1 /\ InProgress' = 0
    BY <1>12 DEF Stop, InProgress
  <2> QED BY <1>1, <1>3, <2>1 DEF Unaccounted
<1>13. CASE Retry
  <2>1. UNCHANGED <<counters, backlog, stops>> /\ InProgress = 0 /\ InProgress' = 0
    BY <1>13 DEF Retry, InProgress
  <2> QED BY <1>4, <2>1
<1>14. CASE Tick \/ StartObserve \/ UNCHANGED vars
  BY <1>4, <1>14 DEF Tick, StartObserve, InProgress
<1> QED BY <1>5, <1>6, <1>7, <1>8, <1>9, <1>10, <1>11, <1>12, <1>13, <1>14 DEF Next

-----------------------------------------------------------------------------
(* The duplicates against their counter.                                   *)

LEMMA Finite ==
    ASSUME TypeOK, IsFiniteSet(history)
    PROVE  /\ IsFiniteSet(Suppressed) /\ Cardinality(Suppressed) \in Nat
           /\ IsFiniteSet(DOMAIN dupUpdates) /\ Cardinality(DOMAIN dupUpdates) \in Nat
<1>1. IsFiniteSet(Suppressed)
  BY FS_Subset DEF Suppressed
<1>2. IsFiniteSet(DOMAIN dupUpdates)
  <2>1. 1 \in Int /\ reports \in Int /\ DOMAIN dupUpdates \subseteq 1..reports
    BY DEF TypeOK
  <2>2. IsFiniteSet(1..reports)
    BY <2>1, FS_Interval
  <2> QED BY <2>1, <2>2, FS_Subset
<1> QED BY <1>1, <1>2, FS_CardinalityType

\* What a step does to the duplicates that are settled.
LEMMA SettledStep ==
    ASSUME TypeOK, HistoryOK, IsFiniteSet(history), [Next]_vars
    PROVE  /\ IsFiniteSet(history')
           /\ FinishDuplicate => Settled' = Settled + 1
           /\ Stop => Settled' = Settled + Cardinality(DOMAIN dupUpdates)
           /\ FinishDuplicate \/ Stop \/ Settled' = Settled
<1>1. /\ IsFiniteSet(Suppressed) /\ Cardinality(Suppressed) \in Nat
      /\ IsFiniteSet(DOMAIN dupUpdates) /\ Cardinality(DOMAIN dupUpdates) \in Nat
  BY Finite
<1>2. CASE UNCHANGED <<history, dupUpdates>> /\ ~FinishDuplicate /\ ~Stop
  BY <1>2 DEF Settled, Suppressed
<1>3. CASE CaptureNavigation /\ ~FinishDuplicate /\ ~Stop
  <2>1. PICK n \in Navigations : IgnoreNavigation(n) \/ CaptureEvent(n)
    BY <1>3 DEF CaptureNavigation
  <2>2. CASE IgnoreNavigation(n)
    BY <1>2, <1>3, <2>2 DEF IgnoreNavigation
  <2>3. CASE CaptureEvent(n)
    <3> DEFINE key == Key(n)
               dup == IsDuplicate(key)
               e == Entry(key, dup)
    <3>1. Captures(key)
      BY <1>3, <2>3 DEF CaptureNavigation, CaptureEvent, Captures, Entry
    <3>2. history' = history \cup {e} /\ e.report = reports + 1
      BY <3>1 DEF Captures, Entry
    <3>3. \A h : h \in Suppressed' <=> h \in Suppressed \/ (h = e /\ dup)
      BY <3>1, CapturedAfter
    <3> HIDE DEF e
    <3>4. IsFiniteSet(history')
      BY <3>2, FS_AddElement
    <3>5. CASE dup
      <4>1. Suppressed' = Suppressed \cup {e}
        BY <3>3, <3>5
      <4>2. reports \in Nat /\ e \notin Suppressed
        BY <3>2 DEF HistoryOK, TypeOK, Suppressed
      <4>3. Cardinality(Suppressed') = Cardinality(Suppressed) + 1
        BY <1>1, <4>1, <4>2, FS_AddElement
      <4>4. DOMAIN dupUpdates' = DOMAIN dupUpdates \cup {reports + 1}
        BY <2>3, <3>5 DEF CaptureEvent
      <4>5. reports + 1 \notin DOMAIN dupUpdates
        BY <4>2 DEF TypeOK
      <4>6. Cardinality(DOMAIN dupUpdates') = Cardinality(DOMAIN dupUpdates) + 1
        BY <1>1, <4>4, <4>5, FS_AddElement
      <4> QED BY <1>1, <1>3, <3>4, <4>3, <4>6 DEF Settled
    <3>6. CASE ~dup
      <4>1. Suppressed' = Suppressed
        BY <3>3, <3>6
      <4>2. dupUpdates' = dupUpdates
        BY <2>3, <3>6 DEF CaptureEvent
      <4> QED BY <1>3, <3>4, <4>1, <4>2 DEF Settled
    <3> QED BY <3>5, <3>6
  <2> QED BY <2>1, <2>2, <2>3
<1>4. CASE FinishDuplicate
  <2>1. PICK i \in DOMAIN dupUpdates : DOMAIN dupUpdates' = DOMAIN dupUpdates \ {i}
    BY <1>4, DuplicateFinished
  <2>2. history' = history /\ Suppressed' = Suppressed /\ stops' = stops
    BY <1>4 DEF FinishDuplicate, Suppressed
  <2>3. Cardinality(DOMAIN dupUpdates') = Cardinality(DOMAIN dupUpdates) - 1
    BY <1>1, <2>1, FS_RemoveElement
  <2>4. ~Stop
    BY <2>2 DEF Stop, TypeOK
  <2> QED BY <1>1, <1>4, <2>2, <2>3, <2>4 DEF Settled
<1>5. CASE Stop
  <2>1. history' = history /\ Suppressed' = Suppressed /\ DOMAIN dupUpdates' = {}
    BY <1>5 DEF Stop, Nothing, Suppressed
  <2>2. Cardinality(DOMAIN dupUpdates') = 0
    BY <2>1, FS_EmptySet
  <2>3. ~FinishDuplicate
    <3>1. stops' = stops + 1 /\ stops \in Nat
      BY <1>5 DEF Stop, TypeOK
    <3>2. FinishDuplicate => stops' = stops
      BY DEF FinishDuplicate
    <3> QED BY <3>1, <3>2
  <2> QED BY <1>1, <1>5, <2>1, <2>2, <2>3 DEF Settled
<1>6. ~CaptureNavigation /\ ~FinishDuplicate /\ ~Stop => UNCHANGED <<history, dupUpdates>>
  BY DEF Next, Tick, StartEnqueue, StoreShortened, StartObserve, StartFlush, RemoveHead,
         FinishChainUpdate, Retry
<1> QED BY <1>2, <1>3, <1>4, <1>5, <1>6

LEMMA CopiesStep ==
    ASSUME TypeOK, HistoryOK, PendingOK, CopiesOK, [Next]_vars
    PROVE  CopiesOK'
<1> DEFINE Below(c) == c["duplicates"] <= Settled'
<1>1. /\ IsFiniteSet(history') /\ Settled \in Int /\ Settled' \in Int /\ Settled' >= Settled
      /\ FinishDuplicate => Settled' = Settled + 1
  BY Finite, SettledStep DEF CopiesOK, Settled
<1>2. /\ counters["duplicates"] \in Nat
      /\ chainUpdate # NoUpdate => chainUpdate.seen["duplicates"] \in Nat
      /\ \A i \in DOMAIN dupUpdates : dupUpdates[i].seen["duplicates"] \in Nat
  BY DEF TypeOK, PendingOK, Updates, CounterNames
<1>3. /\ Below(counters) /\ (chainUpdate # NoUpdate => Below(chainUpdate.seen))
      /\ \A i \in DOMAIN dupUpdates : Below(dupUpdates[i].seen)
  BY <1>1, <1>2 DEF CopiesOK
<1> SUFFICES /\ Below(counters') /\ (chainUpdate' # NoUpdate => Below(chainUpdate'.seen))
             /\ \A i \in DOMAIN dupUpdates' : Below(dupUpdates'[i].seen)
  BY <1>1 DEF CopiesOK, NoUpdate
<1> HIDE DEF Below
<1>4. CASE CaptureNavigation
  <2>1. UNCHANGED <<counters, chainUpdate>>
    BY <1>4 DEF CaptureNavigation
  <2>2. \/ dupUpdates' = dupUpdates
        \/ dupUpdates' = [i \in DOMAIN dupUpdates \cup {reports + 1} |->
               IF i = reports + 1 THEN Update("duplicates") ELSE dupUpdates[i]]
    BY <1>4 DEF CaptureNavigation, IgnoreNavigation, CaptureEvent
  <2> QED BY <1>3, <2>1, <2>2 DEF Update
<1>5. CASE StartEnqueue \/ StartObserve \/ StartFlush
  <2>1. /\ UNCHANGED <<counters, dupUpdates>>
        /\ chainUpdate' = chainUpdate \/ \E c \in CounterNames : chainUpdate' = Update(c)
    BY <1>5 DEF StartEnqueue, StartObserve, StartFlush, CounterNames
  <2> QED BY <1>3, <2>1 DEF Update
<1>6. CASE FinishChainUpdate
  <2>1. /\ chainUpdate # NoUpdate /\ chainUpdate \in Updates /\ chainUpdate.name # "duplicates"
        /\ counters' = Written(chainUpdate) /\ chainUpdate' = NoUpdate /\ dupUpdates' = dupUpdates
    BY <1>6 DEF FinishChainUpdate, PendingOK, TypeOK
  <2>2. counters'["duplicates"] = chainUpdate.seen["duplicates"]
    BY <2>1, FinishFacts DEF CounterNames
  <2> QED BY <1>3, <2>1, <2>2 DEF Below
<1>7. CASE FinishDuplicate
  <2>1. PICK i \in DOMAIN dupUpdates :
            /\ dupUpdates[i] \in Updates /\ counters' = Written(dupUpdates[i])
            /\ DOMAIN dupUpdates' = DOMAIN dupUpdates \ {i}
            /\ \A j \in DOMAIN dupUpdates' : dupUpdates'[j] = dupUpdates[j]
    BY <1>7, DuplicateFinished
  <2>2. chainUpdate' = chainUpdate
    BY <1>7 DEF FinishDuplicate
  <2>3. counters'["duplicates"] <= dupUpdates[i].seen["duplicates"] + 1
    <3>1. counters'["duplicates"] = IF "duplicates" = dupUpdates[i].name
                                    THEN dupUpdates[i].seen["duplicates"] + 1
                                    ELSE dupUpdates[i].seen["duplicates"]
      BY <2>1, FinishFacts DEF CounterNames
    <3> QED BY <1>2, <3>1
  <2>4. dupUpdates[i].seen["duplicates"] <= Settled
    BY DEF CopiesOK
  <2>5. counters'["duplicates"] \in Nat
    BY <2>1, FinishFacts DEF CounterNames
  <2>6. Below(counters')
    BY <1>1, <1>2, <1>7, <2>3, <2>4, <2>5 DEF Below
  <2> QED BY <1>3, <2>1, <2>2, <2>6
<1>8. CASE Stop
  <2>1. counters' = counters /\ DOMAIN dupUpdates' = {} /\ chainUpdate' = NoUpdate
    BY <1>8 DEF Stop, Nothing
  <2> QED BY <1>3, <2>1
<1>9. CASE Tick \/ StoreShortened \/ RemoveHead \/ Retry \/ UNCHANGED vars
  <2>1. UNCHANGED <<counters, chainUpdate, dupUpdates>>
    BY <1>9 DEF Tick, StoreShortened, RemoveHead, Retry
  <2> QED BY <1>3, <2>1
<1> QED BY <1>4, <1>5, <1>6, <1>7, <1>8, <1>9 DEF Next

LEMMA DuplicatesStep ==
    ASSUME TypeOK, TypeOK', HistoryOK, PendingOK, AloneOK, CopiesOK, DuplicatesAccounted, [Next]_vars
    PROVE  DuplicatesAccounted'
<1> SUFFICES ASSUME ~overlapped' PROVE Uncounted' <= stops'
  BY DEF DuplicatesAccounted
<1>1. ~overlapped
  BY DEF Next, Tick, CaptureNavigation, IgnoreNavigation, CaptureEvent, FinishDuplicate,
         StartEnqueue, StoreShortened, StartObserve, StartFlush, RemoveHead, FinishChainUpdate,
         Retry, Stop, Begins
<1>2. /\ Settled \in Int /\ Settled' \in Int /\ counters["duplicates"] \in Nat /\ stops \in Nat
      /\ FinishDuplicate => Settled' = Settled + 1
      /\ Stop => Settled' = Settled + Cardinality(DOMAIN dupUpdates)
      /\ FinishDuplicate \/ Stop \/ Settled' = Settled
      /\ IsFiniteSet(DOMAIN dupUpdates)
  BY CountersTyped, Finite, SettledStep DEF CopiesOK, Settled
<1>3. Settled - counters["duplicates"] <= stops
  BY <1>1, <1>2, Finite DEF DuplicatesAccounted, Uncounted, Settled, CopiesOK
<1> SUFFICES Settled' - counters'["duplicates"] <= stops'
  <2>1. IsFiniteSet(history') /\ counters'["duplicates"] \in Nat
    BY SettledStep DEF CopiesOK, TypeOK, CounterNames
  <2>2. Cardinality(Suppressed') \in Nat /\ Cardinality(DOMAIN dupUpdates') \in Nat
    <3>1. IsFiniteSet(Suppressed')
      BY <2>1, FS_Subset DEF Suppressed
    <3>2. DOMAIN dupUpdates' \subseteq 1..reports' /\ reports' \in Nat
      BY DEF TypeOK
    <3>3. IsFiniteSet(DOMAIN dupUpdates')
      <4>1. IsFiniteSet(1..reports')
        BY <3>2, FS_Interval
      <4> QED BY <3>2, <4>1, FS_Subset
    <3> QED BY <3>1, <3>3, FS_CardinalityType
  <2> QED BY <2>1, <2>2 DEF Uncounted, Settled
<1>4. CASE FinishDuplicate
  <2>1. PICK i \in DOMAIN dupUpdates :
            dupUpdates[i] \in Updates /\ counters' = Written(dupUpdates[i])
    BY <1>4, DuplicateFinished
  <2>2. dupUpdates[i].seen = counters
    BY <1>1 DEF AloneOK
  <2>3. dupUpdates[i].name = "duplicates"
    BY DEF TypeOK
  <2>4. counters'["duplicates"] = counters["duplicates"] + 1
    BY <2>1, <2>2, <2>3, FinishFacts DEF CounterNames
  <2>5. stops' = stops
    BY <1>4 DEF FinishDuplicate
  <2> QED BY <1>2, <1>3, <1>4, <2>4, <2>5
<1>5. CASE Stop
  <2>1. Cardinality(DOMAIN dupUpdates) <= 1
    <3>1. CASE DOMAIN dupUpdates = {}
      BY <3>1, FS_EmptySet
    <3>2. ASSUME NEW i \in DOMAIN dupUpdates PROVE Cardinality(DOMAIN dupUpdates) <= 1
      <4>1. DOMAIN dupUpdates = {i}
        BY <1>1 DEF AloneOK
      <4>2. Cardinality({i}) = 1
        BY FS_Singleton
      <4> QED BY <4>1, <4>2
    <3> QED BY <3>1, <3>2
  <2>2. counters' = counters /\ stops' = stops + 1
    BY <1>5 DEF Stop
  <2>3. Cardinality(DOMAIN dupUpdates) \in Nat
    BY <1>2, FS_CardinalityType
  <2> QED BY <1>2, <1>3, <1>5, <2>1, <2>2, <2>3
<1>6. CASE FinishChainUpdate
  <2>1. counters'["duplicates"] = counters["duplicates"]
    BY <1>6, CountAlone DEF CounterNames
  <2>2. stops' = stops /\ dupUpdates' = dupUpdates /\ history' = history
    BY <1>6 DEF FinishChainUpdate
  <2>3. Settled' = Settled
    BY <2>2 DEF Settled, Suppressed
  <2> QED BY <1>2, <1>3, <2>1, <2>2, <2>3
<1>7. CASE ~FinishDuplicate /\ ~Stop /\ ~FinishChainUpdate
  <2>1. counters' = counters /\ stops' = stops
    BY <1>7 DEF Next, Tick, CaptureNavigation, StartEnqueue, StoreShortened, StartObserve,
                StartFlush, RemoveHead, Retry
  <2> QED BY <1>2, <1>3, <1>7, <2>1
<1> QED BY <1>4, <1>5, <1>6, <1>7

-----------------------------------------------------------------------------
(* The theorems.                                                           *)

LEMMA InitInv == ASSUME Init PROVE IInv
<1>1. TypeOK
  BY InitType
<1>2. /\ history = {} /\ DOMAIN recent = {} /\ DOMAIN dupUpdates = {} /\ chainUpdate = NoUpdate
      /\ counters = [c \in CounterNames |-> 0] /\ backlog = 0 /\ chain = <<>> /\ stops = 0
  BY DEF Init, Nothing
<1>3. Captured = {} /\ Suppressed = {}
  BY <1>2 DEF Captured, Suppressed
<1>4. HistoryOK /\ PendingOK /\ RecentOK /\ SuppressedHasTwin /\ CapturedAreApart
  BY <1>2, <1>3 DEF HistoryOK, PendingOK, RecentOK, RecentCaptured, CapturedRemembered,
                    SuppressedHasTwin, CapturedAreApart
<1>5. ChainOK /\ AloneOK
  BY <1>2 DEF ChainOK, AloneOK
<1>6. /\ counters["accepted"] = 0 /\ counters["rejected"] = 0 /\ counters["dropped"] = 0
      /\ counters["observed"] = 0 /\ counters["duplicates"] = 0
  BY <1>2 DEF CounterNames
<1>7. Unaccounted = 0 /\ InProgress = 0
  BY <1>2, <1>6 DEF Unaccounted, InProgress
<1>8. Settled = 0 /\ Uncounted = 0 /\ IsFiniteSet(history)
  BY <1>2, <1>3, <1>6, FS_EmptySet DEF Settled, Uncounted
<1>9. CopiesOK
  BY <1>2, <1>6, <1>8 DEF CopiesOK
<1>10. QueueAccounted /\ DuplicatesAccounted
  BY <1>2, <1>7, <1>8 DEF QueueAccounted, DuplicatesAccounted
<1> QED BY <1>1, <1>4, <1>5, <1>9, <1>10 DEF IInv

LEMMA StepInv == ASSUME IInv, [Next]_vars PROVE IInv'
<1> USE DEF IInv, RecentOK
<1>1. TypeOK'
  BY TypeStep
<1>2. HistoryOK'
  BY <1>1, HistoryStep
<1>3. PendingOK' /\ ChainOK'
  BY PendingStep, ChainStep
<1>4. RecentCaptured' /\ CapturedRemembered'
  BY <1>1, RecentCapturedStep, CapturedRememberedStep
<1>5. AloneOK' /\ CopiesOK'
  BY AloneStep, CopiesStep
<1>6. QueueAccounted' /\ DuplicatesAccounted'
  BY <1>1, QueueStep, DuplicatesStep
<1>7. SuppressedHasTwin' /\ CapturedAreApart'
  BY TwinStep, ApartStep
<1> QED BY <1>1, <1>2, <1>3, <1>4, <1>5, <1>6, <1>7

LEMMA InvAccounts == ASSUME IInv PROVE EventsAreAccounted
<1>1. Uncounted >= 0
  <2>1. counters["duplicates"] <= Settled /\ counters["duplicates"] \in Nat
    BY CountersTyped DEF IInv, CopiesOK
  <2>2. Cardinality(Suppressed) \in Nat /\ Cardinality(DOMAIN dupUpdates) \in Nat
    BY Finite DEF IInv, CopiesOK
  <2> QED BY <2>1, <2>2 DEF Settled, Uncounted
<1> QED BY <1>1 DEF IInv, QueueAccounted, DuplicatesAccounted, EventsAreAccounted

\* Every reachable state satisfies the inductive invariant: the types, the deduplicator's map
\* against the history of captures, the place of the running operation, and every pending copy
\* of the counters (event-utils.mjs:79-111, service-worker.js:62-132, 222-227).
THEOREM InductiveInvariant == Spec => []IInv
<1>1. IInv /\ [Next]_vars => IInv'
  BY StepInv
<1> QED BY InitInv, <1>1, PTL DEF Spec

\* The types, and the queue and the chain within what the operations allow.
THEOREM TypeCorrect == Spec => []TypeOK
BY InductiveInvariant, PTL DEF IInv

\* A navigation is suppressed only for one captured under its key within the window, for every
\* length of the window and however often the worker is stopped (event-utils.mjs:88-104).
THEOREM SuppressionIsJustified == Spec => []SuppressedHasTwin
BY InductiveInvariant, PTL DEF IInv

\* Within one life of the worker no two captures under one key are as close as the window,
\* although the map is pruned at every call (event-utils.mjs:88-104).
THEOREM CapturesStayApart == Spec => []CapturedAreApart
BY InductiveInvariant, PTL DEF IInv

\* Until two updates overlap, the counters account for every event in the queue or out of it but
\* one for each stop of the worker, for queues of every length; and in every case no more
\* duplicates are counted than were suppressed (service-worker.js:76-80, 113-127, 222-227).
THEOREM EventsStayAccounted == Spec => []EventsAreAccounted
BY InductiveInvariant, InvAccounts, PTL
=============================================================================
