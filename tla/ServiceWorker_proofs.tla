------------------------ MODULE ServiceWorker_proofs ------------------------
(***************************************************************************)
(* Proofs about ServiceWorker, for every number of events, queue limit,    *)
(* kind of event and number of failures.                                   *)
(***************************************************************************)
EXTENDS ServiceWorker, TLAPS

-----------------------------------------------------------------------------
(* Sequences and the elements they hold.                                   *)

\* Elements of an appended-to sequence.
LEMMA ElementsAppend ==
    ASSUME NEW S, NEW s \in Seq(S), NEW e \in S
    PROVE  Range(Append(s, e)) = Range(s) \cup {e}
BY DEF Range

\* A nonempty sequence holds its head and what its tail holds.
LEMMA ElementsHeadTail ==
    ASSUME NEW S, NEW s \in Seq(S), s # <<>>
    PROVE  /\ Head(s) \in S
           /\ Tail(s) \in Seq(S)
           /\ Len(Tail(s)) = Len(s) - 1
           /\ Range(s) = {Head(s)} \cup Range(Tail(s))
<1>1. Head(s) = s[1] /\ Tail(s) \in Seq(S) /\ Len(s) \in Nat \ {0}
    OBVIOUS
<1>2. Len(Tail(s)) = Len(s) - 1 /\ \A i \in 1..(Len(s) - 1) : Tail(s)[i] = s[i + 1]
    BY <1>1
<1>3. Range(s) \subseteq {Head(s)} \cup Range(Tail(s))
    <2> SUFFICES ASSUME NEW i \in 1..Len(s), i # 1
                 PROVE  s[i] \in Range(Tail(s))
        BY <1>1 DEF Range
    <2>1. /\ (i - 1) \in 1..Len(Tail(s)) /\ s[i] = Tail(s)[i - 1]
          /\ DOMAIN Tail(s) = 1..Len(Tail(s))
        BY <1>1, <1>2
    <2> QED
        BY <2>1 DEF Range
<1>4. {Head(s)} \cup Range(Tail(s)) \subseteq Range(s)
    BY <1>1, <1>2 DEF Range
<1> QED BY <1>1, <1>2, <1>3, <1>4

\* What enqueueEvent stores: the queue with the event at its end, without its oldest entry
\* if it was full.
LEMMA PushedFacts ==
    ASSUME NEW q \in Seq(Events), Len(q) <= MaxQueue, NEW e \in Events
    PROVE  /\ Pushed(q, e) \in Seq(Events)
           /\ Len(Pushed(q, e)) <= MaxQueue
           /\ Len(q) < MaxQueue => Pushed(q, e) = Append(q, e)
           /\ Len(q) = MaxQueue => /\ q # <<>>
                                   /\ Pushed(q, e) = Append(Tail(q), e)
<1>1. CASE Len(q) < MaxQueue
    BY <1>1, QueueAssumption DEF Pushed
<1>2. CASE Len(q) = MaxQueue
    <2>1. Pushed(q, e) = SubSeq(Append(q, e), 2, Len(q) + 1)
        BY <1>2, QueueAssumption DEF Pushed
    <2>2. q # <<>> /\ Tail(q) \in Seq(Events) /\ Len(Tail(q)) = Len(q) - 1
        BY <1>2, QueueAssumption, ElementsHeadTail
    <2>3. SubSeq(Append(q, e), 2, Len(q) + 1) = Append(Tail(q), e)
        BY <2>2, <1>2, QueueAssumption
    <2> QED BY <2>1, <2>2, <2>3, <1>2, QueueAssumption
<1> QED BY <1>1, <1>2, QueueAssumption

\* One more or one fewer host holding an event.
LEMMA OrphanCount ==
    ASSUME NEW f \in [Events -> Nat], NEW e \in Events
    PROVE  /\ [f EXCEPT ![e] = @ + 1] \in [Events -> Nat]
           /\ f[e] > 0 => [f EXCEPT ![e] = @ - 1] \in [Events -> Nat]
OBVIOUS

\* The elements of what enqueueEvent stores.
LEMMA PushedElements ==
    ASSUME NEW q \in Seq(Events), Len(q) <= MaxQueue, NEW e \in Events
    PROVE  /\ Range(Pushed(q, e)) \subseteq Range(q) \cup {e}
           /\ Len(q) = MaxQueue => Range(q) \cup {e} = Range(Pushed(q, e)) \cup {Head(q)}
           /\ Len(q) < MaxQueue => Range(q) \cup {e} = Range(Pushed(q, e))
<1>1. CASE Len(q) < MaxQueue
    <2>1. Pushed(q, e) = Append(q, e)
        BY <1>1, PushedFacts
    <2>2. Range(Append(q, e)) = Range(q) \cup {e}
        BY ElementsAppend
    <2> QED
        BY <1>1, <2>1, <2>2
<1>2. CASE Len(q) = MaxQueue
    <2>1. q # <<>> /\ Pushed(q, e) = Append(Tail(q), e)
        BY <1>2, PushedFacts
    <2>2. Tail(q) \in Seq(Events) /\ Range(q) = {Head(q)} \cup Range(Tail(q))
        BY <2>1, ElementsHeadTail
    <2>3. \A s \in Seq(Events) : Range(Append(s, e)) = Range(s) \cup {e}
        BY ElementsAppend
    <2>4. Range(Append(Tail(q), e)) = Range(Tail(q)) \cup {e}
        BY <2>2, <2>3
    <2> QED
        BY <1>2, <2>1, <2>2, <2>4, QueueAssumption
<1> QED
    BY <1>1, <1>2, QueueAssumption

\* Appending to a sequence that is not empty leaves its head.
LEMMA HeadAppend ==
    ASSUME NEW S, NEW s \in Seq(S), NEW e \in S
    PROVE  /\ Append(s, e) \in Seq(S) /\ Append(s, e) # <<>>
           /\ s # <<>> => Head(Append(s, e)) = Head(s)
<1>1. Append(s, e) \in Seq(S) /\ Len(Append(s, e)) = Len(s) + 1 /\ Len(s) \in Nat
    OBVIOUS
<1>2. Append(s, e) # <<>>
    BY <1>1
<1>3. ASSUME s # <<>> PROVE Head(Append(s, e)) = Head(s)
    <2>1. Len(s) \in Nat \ {0} /\ Head(s) = s[1]
        BY <1>3
    <2>2. Append(s, e)[1] = s[1]
        BY <2>1
    <2> QED
        BY <1>2, <2>1, <2>2
<1> QED
    BY <1>1, <1>2, <1>3

\* Removing the head of a sequence of distinct elements leaves distinct elements, and not
\* the head.
LEMMA InjectiveTail ==
    ASSUME NEW S, NEW s \in Seq(S), s # <<>>, IsInjective(s)
    PROVE  IsInjective(Tail(s)) /\ Head(s) \notin Range(Tail(s))
<1>1. /\ Len(s) \in Nat \ {0} /\ Head(s) = s[1]
      /\ DOMAIN s = 1..Len(s) /\ DOMAIN Tail(s) = 1..(Len(s) - 1)
      /\ \A i \in 1..(Len(s) - 1) : Tail(s)[i] = s[i + 1]
    OBVIOUS
<1> QED
    BY <1>1 DEF IsInjective, Range

\* Adding an element that is not held keeps elements distinct.
LEMMA InjectiveAppend ==
    ASSUME NEW S, NEW s \in Seq(S), NEW e \in S, IsInjective(s), e \notin Range(s)
    PROVE  IsInjective(Append(s, e))
<1>1. /\ Len(s) \in Nat /\ DOMAIN s = 1..Len(s) /\ DOMAIN Append(s, e) = 1..(Len(s) + 1)
      /\ \A i \in 1..Len(s) : Append(s, e)[i] = s[i] /\ s[i] # e
      /\ Append(s, e)[Len(s) + 1] = e
    BY DEF Range
<1> QED
    BY <1>1 DEF IsInjective

\* enqueueEvent keeps the stored events distinct.
LEMMA PushedInjective ==
    ASSUME NEW q \in Seq(Events), Len(q) <= MaxQueue, IsInjective(q),
           NEW e \in Events, e \notin Range(q)
    PROVE  IsInjective(Pushed(q, e))
<1>1. CASE Len(q) < MaxQueue
    <2>1. Pushed(q, e) = Append(q, e)
        BY <1>1, PushedFacts
    <2> QED
        BY <2>1, InjectiveAppend
<1>2. CASE Len(q) = MaxQueue
    <2>1. q # <<>> /\ Pushed(q, e) = Append(Tail(q), e)
        BY <1>2, PushedFacts
    <2>2. /\ Tail(q) \in Seq(Events) /\ IsInjective(Tail(q)) /\ e \notin Range(Tail(q))
        BY <2>1, ElementsHeadTail, InjectiveTail
    <2> QED
        BY <2>1, <2>2, InjectiveAppend
<1> QED
    BY <1>1, <1>2, QueueAssumption

-----------------------------------------------------------------------------
(* The inductive invariant, one conjunct at a time.                        *)

\* Every step keeps the variables in their types.
LEMMA TypeStep == IInv /\ [Next]_vars => TypeOK'
<1>0. SUFFICES ASSUME IInv, [Next]_vars PROVE TypeOK'
    OBVIOUS
<1> USE DEF IInv
<1>a. /\ Append(chain, Flush) \in Seq(Events \cup {Flush})
      /\ chain # <<>> => Tail(chain) \in Seq(Events \cup {Flush})
    BY <1>0, ElementsHeadTail DEF TypeOK
<1>b. \A e \in Events : Append(log, e) \in Seq(Events)
    BY <1>0 DEF TypeOK
<1>d. <<>> \in Seq(Events) /\ <<>> \in Seq(Events \cup {Flush})
    OBVIOUS
<1>e. orphans \in [Events -> Nat]
    BY <1>0 DEF TypeOK
<1>c. port \in {"received", "logged", "accepted", "refused"} => carried \in Events
    BY <1>0 DEF HeldOK, TypeOK
<1> USE EventsAssumption, QueueAssumption, BoundAssumption
    DEF TypeOK, PcStates, Outcomes, PortStates, storage, worker, host, HostUnchanged,
        EndOperation, Fault, ClosePort, NoEvent, Flush
<1>1. CASE Wake
    BY <1>0, <1>1 DEF Wake
<1>2. CASE CaptureNavigation
    <2>1. captured + 1 \in Events /\ captured' \in 0..MaxEvents
        BY <1>0, <1>2 DEF CaptureNavigation, Events
    <2> QED
        BY <1>0, <1>2, <2>1 DEF CaptureNavigation
<1>3. CASE Alarm
    BY <1>0, <1>3 DEF Alarm
<1>4. CASE ReconnectTimer
    BY <1>0, <1>4, <1>a DEF ReconnectTimer
<1>5. CASE EnqueueRead
    BY <1>0, <1>5 DEF EnqueueRead
<1>6. CASE EnqueueStore
    <2>1. chain # <<>> /\ Head(chain) \in Events /\ Tail(chain) \in Seq(Events \cup {Flush})
        BY <1>0, <1>6, ElementsHeadTail DEF EnqueueStore, OperationOK
    <2>2. /\ queue' = Pushed(queue, Head(chain))
          /\ queue' \in Seq(Events) /\ Len(queue') <= MaxQueue
        BY <1>0, <1>6, <2>1, PushedFacts DEF EnqueueStore, OperationOK
    <2>3. Range(Append(local, Head(chain))) \subseteq Events
        BY <1>0, <2>1 DEF Range
    <2>4. chain' \in Seq(Events \cup {Flush}) /\ faults' \in 0..MaxFaults
        <3>1. Append(Tail(chain), Flush) \in Seq(Events \cup {Flush})
            BY <2>1
        <3>2. chain' \in {Append(Tail(chain), Flush), Tail(chain)}
            BY <1>6 DEF EnqueueStore
        <3>3. faults' \in 0..MaxFaults
            BY <1>0, <1>6 DEF EnqueueStore
        <3> QED
            BY <2>1, <3>1, <3>2, <3>3
    <2>5. dropped' \subseteq Events /\ stored' \subseteq Events
        BY <1>0, <1>6, <2>1, <2>3 DEF EnqueueStore
    <2>6. local' \in Seq(Events)
        BY <1>6, <1>d DEF EnqueueStore
    <2> QED
        BY <1>0, <1>6, <2>2, <2>4, <2>5, <2>6 DEF EnqueueStore
<1>7. CASE FlushRead
    <2>1. queue # <<>> => Head(queue) \in Events
        BY <1>0, ElementsHeadTail
    <2> QED
        BY <1>0, <1>7, <2>1, <1>a DEF FlushRead, Running
<1>8. CASE Send
    BY <1>0, <1>8 DEF Send, Post
<1>9. CASE FlushGivesUp
    <2>1. chain # <<>> /\ Tail(chain) \in Seq(Events \cup {Flush})
        BY <1>0, <1>9, <1>a DEF FlushGivesUp, OperationOK
    <2> QED
        BY <1>0, <1>9, <2>1 DEF FlushGivesUp
<1>10. CASE FlushReread
    BY <1>0, <1>10 DEF FlushReread
<1>11. CASE FlushRemove
    <2>1. /\ queue # <<>> /\ local = queue /\ current \in Events
          /\ Tail(queue) \in Seq(Events) /\ Len(Tail(queue)) = Len(queue) - 1
        BY <1>0, <1>11, ElementsHeadTail DEF FlushRemove, OperationOK
    <2> QED
        BY <1>0, <1>11, <2>1 DEF FlushRemove
<1>12. CASE HandleNativeMessage
    BY <1>0, <1>12 DEF HandleNativeMessage
<1>13. CASE HandleNativeDisconnect
    BY <1>0, <1>13 DEF HandleNativeDisconnect
<1>14. CASE AcknowledgementTimeout
    <2>1. orphans' \in [Events -> Nat]
        BY <1>0, <1>14 DEF AcknowledgementTimeout, HeldOK
    <2> QED
        BY <1>0, <1>14, <2>1 DEF AcknowledgementTimeout
<1>15. CASE HostAppend
    BY <1>0, <1>15, <1>b, <1>c DEF HostAppend
<1>16. CASE HostAcknowledge
    BY <1>0, <1>16 DEF HostAcknowledge
<1>17. CASE HostRefuse
    <2>1. Append(log, carried) \in Seq(Events) /\ log' \in {log, Append(log, carried)}
        BY <1>0, <1>17, <1>b, <1>c DEF HostRefuse
    <2>2. faults' \in 0..MaxFaults
        BY <1>0, <1>17 DEF HostRefuse
    <2> QED
        BY <1>0, <1>17, <2>1, <2>2 DEF HostRefuse
<1>18. CASE HostExitsOnOversize
    BY <1>0, <1>18 DEF HostExitsOnOversize
<1>19. CASE HostCrash
    BY <1>0, <1>19 DEF HostCrash
<1>20. CASE OrphanEnds
    <2>1. PICK e \in Events : /\ orphans[e] > 0
                              /\ orphans' = [orphans EXCEPT ![e] = orphans[e] - 1]
                              /\ log' = Append(log, e) \/ log' = log
        BY <1>20 DEF OrphanEnds
    <2>2. orphans' \in [Events -> Nat]
        BY <1>e, <2>1, OrphanCount
    <2>3. log' \in Seq(Events)
        BY <2>1, <1>b
    <2> QED
        BY <1>0, <1>20, <2>2, <2>3 DEF OrphanEnds
<1>21. CASE StorageFails
    BY <1>0, <1>21, <1>a DEF StorageFails
<1>22. CASE Stop
    <2>2. orphans' \in [Events -> Nat]
        BY <1>22, <1>c, <1>e, OrphanCount DEF Stop
    <2>3. chain' \in Seq(Events \cup {Flush}) /\ local' \in Seq(Events)
        BY <1>22, <1>d DEF Stop
    <2>4. faults' \in 0..MaxFaults
        BY <1>0, <1>22 DEF Stop
    <2>6. awake' \in BOOLEAN /\ timer' \in BOOLEAN
        BY <1>22 DEF Stop
    <2>5. log' = log /\ queue' = queue
        BY <1>22 DEF Stop
    <2> QED
        BY <1>0, <1>22, <2>2, <2>3, <2>4, <2>5, <2>6 DEF Stop
<1>23. CASE UNCHANGED vars
    BY <1>0, <1>23 DEF vars
<1> QED
    BY <1>0, <1>1, <1>2, <1>3, <1>4, <1>5, <1>6, <1>7, <1>8, <1>9, <1>10, <1>11, <1>12,
       <1>13, <1>14, <1>15, <1>16, <1>17, <1>18, <1>19, <1>20, <1>21, <1>22, <1>23
        DEF Next, FlushStep, EnqueueStep, ConnectionStep, HostStep

\* Every step keeps what the running operation knows: only that operation changes the
\* stored queue, so its copy and its event stay the stored ones (serializeOperation).
LEMMA OperationStep == IInv /\ [Next]_vars => OperationOK'
<1>0. SUFFICES ASSUME IInv, [Next]_vars PROVE OperationOK'
    OBVIOUS
<1>L. queue \in Seq(Events) /\ Len(queue) <= MaxQueue /\ log \in Seq(Events)
      /\ chain \in Seq(Events \cup {Flush})
    BY <1>0 DEF IInv, TypeOK
<1>a. \A x \in Events \cup {Flush} :
          Append(chain, x) # <<>> /\ (chain # <<>> => Head(Append(chain, x)) = Head(chain))
    BY <1>L, HeadAppend
<1> USE EventsAssumption, QueueAssumption, BoundAssumption
    DEF IInv, OperationOK, PcStates, Outcomes, PortStates, storage, worker, host,
        HostUnchanged, EndOperation, Fault, ClosePort, NoEvent, Flush
<1>1. CASE Wake
    BY <1>0, <1>1 DEF Wake
<1>2. CASE CaptureNavigation
    <2>1. captured + 1 \in Events
        BY <1>0, <1>2 DEF CaptureNavigation, Events, TypeOK
    <2> QED
        BY <1>0, <1>2, <2>1, <1>a DEF CaptureNavigation
<1>3. CASE Alarm
    BY <1>0, <1>3, <1>a DEF Alarm
<1>4. CASE ReconnectTimer
    BY <1>0, <1>4, <1>a DEF ReconnectTimer
<1>5. CASE EnqueueRead
    BY <1>0, <1>5 DEF EnqueueRead
<1>6. CASE EnqueueStore
    BY <1>0, <1>6 DEF EnqueueStore
<1>7. CASE FlushRead
    BY <1>0, <1>7 DEF FlushRead, Running
<1>8. CASE Send
    BY <1>0, <1>8 DEF Send, Post
<1>9. CASE FlushGivesUp
    BY <1>0, <1>9 DEF FlushGivesUp
<1>10. CASE FlushReread
    BY <1>0, <1>10 DEF FlushReread
<1>11. CASE FlushRemove
    BY <1>0, <1>11 DEF FlushRemove
<1>12. CASE HandleNativeMessage
    BY <1>0, <1>12 DEF HandleNativeMessage
<1>13. CASE HandleNativeDisconnect
    BY <1>0, <1>13 DEF HandleNativeDisconnect
<1>14. CASE AcknowledgementTimeout
    BY <1>0, <1>14 DEF AcknowledgementTimeout
<1>15. CASE HostAppend
    BY <1>0, <1>15 DEF HostAppend
<1>16. CASE HostAcknowledge
    BY <1>0, <1>16 DEF HostAcknowledge
<1>17. CASE HostRefuse
    BY <1>0, <1>17 DEF HostRefuse
<1>18. CASE HostExitsOnOversize
    BY <1>0, <1>18 DEF HostExitsOnOversize
<1>19. CASE HostCrash
    BY <1>0, <1>19 DEF HostCrash
<1>20. CASE OrphanEnds
    BY <1>0, <1>20 DEF OrphanEnds
<1>21. CASE StorageFails
    BY <1>0, <1>21 DEF StorageFails
<1>22. CASE Stop
    BY <1>0, <1>22 DEF Stop
<1>23. CASE UNCHANGED vars
    BY <1>0, <1>23 DEF vars
<1> QED
    BY <1>0, <1>1, <1>2, <1>3, <1>4, <1>5, <1>6, <1>7, <1>8, <1>9, <1>10, <1>11, <1>12,
       <1>13, <1>14, <1>15, <1>16, <1>17, <1>18, <1>19, <1>20, <1>21, <1>22, <1>23
        DEF Next, FlushStep, EnqueueStep, ConnectionStep, HostStep

\* Every step keeps that an acceptance, wherever it is on its way, has a record behind it
\* (processMessages acknowledges after appendNavigationEvent).
LEMMA AcceptanceStep == IInv /\ [Next]_vars => AcceptanceOK'
<1>0. SUFFICES ASSUME IInv, [Next]_vars PROVE AcceptanceOK'
    OBVIOUS
<1>L. queue \in Seq(Events) /\ Len(queue) <= MaxQueue /\ log \in Seq(Events)
      /\ chain \in Seq(Events \cup {Flush})
    BY <1>0 DEF IInv, TypeOK
<1>a. port \in {"received", "logged", "accepted", "refused"} => carried \in Events
    BY <1>0 DEF IInv, HeldOK, TypeOK
<1>b. \A e \in Events : Range(Append(log, e)) = Range(log) \cup {e}
    BY <1>L, ElementsAppend
<1> USE EventsAssumption, QueueAssumption, BoundAssumption
    DEF IInv, AcceptanceOK, Logged, storage, worker, host, HostUnchanged, EndOperation,
        Fault, ClosePort, NoEvent, Flush
<1>1. CASE Wake
    BY <1>0, <1>1 DEF Wake
<1>2. CASE CaptureNavigation
    BY <1>0, <1>2 DEF CaptureNavigation
<1>3. CASE Alarm
    BY <1>0, <1>3 DEF Alarm
<1>4. CASE ReconnectTimer
    BY <1>0, <1>4 DEF ReconnectTimer
<1>5. CASE EnqueueRead
    BY <1>0, <1>5 DEF EnqueueRead
<1>6. CASE EnqueueStore
    BY <1>0, <1>6 DEF EnqueueStore
<1>7. CASE FlushRead
    BY <1>0, <1>7 DEF FlushRead, Running, OperationOK
<1>8. CASE Send
    BY <1>0, <1>8 DEF Send, Post
<1>9. CASE FlushGivesUp
    BY <1>0, <1>9 DEF FlushGivesUp
<1>10. CASE FlushReread
    BY <1>0, <1>10 DEF FlushReread
<1>11. CASE FlushRemove
    BY <1>0, <1>11 DEF FlushRemove
<1>12. CASE HandleNativeMessage
    <2>1. pending # NoEvent => pending = current
        BY <1>0 DEF OperationOK
    <2>2. pc \in {"settled", "removing"} => pending = NoEvent
        BY <1>0 DEF OperationOK
    <2> QED
        BY <1>0, <1>12, <2>1, <2>2 DEF HandleNativeMessage
<1>13. CASE HandleNativeDisconnect
    BY <1>0, <1>13, <1>a DEF HandleNativeDisconnect
<1>14. CASE AcknowledgementTimeout
    BY <1>0, <1>14 DEF AcknowledgementTimeout
<1>15. CASE HostAppend
    BY <1>0, <1>15, <1>a, <1>b DEF HostAppend
<1>16. CASE HostAcknowledge
    BY <1>0, <1>16 DEF HostAcknowledge
<1>17. CASE HostRefuse
    BY <1>0, <1>17, <1>a, <1>b DEF HostRefuse
<1>18. CASE HostExitsOnOversize
    BY <1>0, <1>18 DEF HostExitsOnOversize
<1>19. CASE HostCrash
    BY <1>0, <1>19 DEF HostCrash
<1>20. CASE OrphanEnds
    <2>1. PICK e \in Events : /\ orphans[e] > 0
                              /\ orphans' = [orphans EXCEPT ![e] = orphans[e] - 1]
                              /\ log' = Append(log, e) \/ log' = log
        BY <1>20 DEF OrphanEnds
    <2>2. Range(log) \subseteq Range(log')
        BY <2>1, <1>b
    <2> QED
        BY <1>0, <1>20, <2>2 DEF OrphanEnds
<1>21. CASE StorageFails
    BY <1>0, <1>21 DEF StorageFails
<1>22. CASE Stop
    BY <1>0, <1>22 DEF Stop
<1>23. CASE UNCHANGED vars
    BY <1>0, <1>23 DEF vars
<1> QED
    BY <1>0, <1>1, <1>2, <1>3, <1>4, <1>5, <1>6, <1>7, <1>8, <1>9, <1>10, <1>11, <1>12,
       <1>13, <1>14, <1>15, <1>16, <1>17, <1>18, <1>19, <1>20, <1>21, <1>22, <1>23
        DEF Next, FlushStep, EnqueueStep, ConnectionStep, HostStep

\* Every step keeps that only events the durable queue has held are queued, at a host,
\* logged, refused or pushed out.
LEMMA HeldStep == IInv /\ [Next]_vars => HeldOK'
<1>0. SUFFICES ASSUME IInv, [Next]_vars PROVE HeldOK'
    OBVIOUS
<1>L. queue \in Seq(Events) /\ Len(queue) <= MaxQueue /\ log \in Seq(Events)
      /\ chain \in Seq(Events \cup {Flush})
    BY <1>0 DEF IInv, TypeOK
<1>a. \A e \in Events : Range(Append(log, e)) = Range(log) \cup {e}
    BY <1>L, ElementsAppend
<1>b. queue # <<>> => Range(queue) = {Head(queue)} \cup Range(Tail(queue))
    BY <1>L, ElementsHeadTail
<1>c. stored \subseteq Events /\ orphans \in [Events -> Nat]
    BY <1>0 DEF IInv, TypeOK
<1> USE EventsAssumption, QueueAssumption, BoundAssumption
    DEF IInv, HeldOK, Logged, storage, worker, host, HostUnchanged, EndOperation,
        Fault, ClosePort, NoEvent, Flush
<1>1. CASE Wake
    BY <1>0, <1>1 DEF Wake
<1>2. CASE CaptureNavigation
    BY <1>0, <1>2 DEF CaptureNavigation
<1>3. CASE Alarm
    BY <1>0, <1>3 DEF Alarm
<1>4. CASE ReconnectTimer
    BY <1>0, <1>4 DEF ReconnectTimer
<1>5. CASE EnqueueRead
    BY <1>0, <1>5 DEF EnqueueRead
<1>6. CASE EnqueueStore
    <2>1. local = queue /\ Head(chain) \in Events
        BY <1>0, <1>L, <1>6, ElementsHeadTail DEF EnqueueStore, OperationOK
    <2>2. /\ Range(queue') \subseteq Range(queue) \cup {Head(chain)}
          /\ Range(Append(local, Head(chain))) = Range(queue) \cup {Head(chain)}
        BY <1>L, <1>6, <2>1, PushedElements, ElementsAppend DEF EnqueueStore
    <2> QED
        BY <1>0, <1>6, <2>2 DEF EnqueueStore
<1>7. CASE FlushRead
    BY <1>0, <1>7 DEF FlushRead, Running
<1>8. CASE Send
    <2>1. current \in stored
        BY <1>0, <1>8, <1>b DEF Send, OperationOK
    <2> QED
        BY <1>0, <1>8, <2>1 DEF Send, Post
<1>9. CASE FlushGivesUp
    BY <1>0, <1>9 DEF FlushGivesUp
<1>10. CASE FlushReread
    BY <1>0, <1>10 DEF FlushReread
<1>11. CASE FlushRemove
    <2>1. queue # <<>> /\ local = queue /\ current = Head(queue)
        BY <1>0, <1>11 DEF FlushRemove, OperationOK
    <2> QED
        BY <1>0, <1>11, <2>1, <1>b DEF FlushRemove
<1>12. CASE HandleNativeMessage
    BY <1>0, <1>12 DEF HandleNativeMessage
<1>13. CASE HandleNativeDisconnect
    BY <1>0, <1>13 DEF HandleNativeDisconnect
<1>14. CASE AcknowledgementTimeout
    BY <1>0, <1>14, <1>c DEF AcknowledgementTimeout
<1>15. CASE HostAppend
    BY <1>0, <1>15, <1>a, <1>c DEF HostAppend
<1>16. CASE HostAcknowledge
    BY <1>0, <1>16 DEF HostAcknowledge
<1>17. CASE HostRefuse
    <2>1. carried \in stored /\ log' \in {log, Append(log, carried)}
        BY <1>0, <1>17 DEF HostRefuse
    <2>2. Range(log') \subseteq Range(log) \cup {carried}
        BY <1>a, <1>c, <2>1
    <2> QED
        BY <1>0, <1>17, <2>1, <2>2 DEF HostRefuse
<1>18. CASE HostExitsOnOversize
    BY <1>0, <1>18 DEF HostExitsOnOversize
<1>19. CASE HostCrash
    BY <1>0, <1>19 DEF HostCrash
<1>20. CASE OrphanEnds
    <2>1. PICK e \in Events : /\ orphans[e] > 0
                              /\ orphans' = [orphans EXCEPT ![e] = orphans[e] - 1]
                              /\ log' = Append(log, e) \/ log' = log
        BY <1>20 DEF OrphanEnds
    <2>2. e \in stored
        BY <1>0, <2>1
    <2>3. Range(log') \subseteq Range(log) \cup {e}
        BY <1>a, <2>1
    <2>4. \A f \in Events : orphans'[f] > 0 => f \in stored
        BY <1>0, <1>c, <2>1, <2>2
    <2> QED
        BY <1>0, <1>20, <2>2, <2>3, <2>4 DEF OrphanEnds
<1>21. CASE StorageFails
    BY <1>0, <1>21 DEF StorageFails
<1>22. CASE Stop
    BY <1>0, <1>22, <1>c DEF Stop
<1>23. CASE UNCHANGED vars
    BY <1>0, <1>23 DEF vars
<1> QED
    BY <1>0, <1>1, <1>2, <1>3, <1>4, <1>5, <1>6, <1>7, <1>8, <1>9, <1>10, <1>11, <1>12,
       <1>13, <1>14, <1>15, <1>16, <1>17, <1>18, <1>19, <1>20, <1>21, <1>22, <1>23
        DEF Next, FlushStep, EnqueueStep, ConnectionStep, HostStep

\* Every step keeps that an event is captured, chained and stored at most once.
LEMMA ChainStep == IInv /\ [Next]_vars => ChainOK'
<1>0. SUFFICES ASSUME IInv, [Next]_vars PROVE ChainOK'
    OBVIOUS
<1>L. queue \in Seq(Events) /\ Len(queue) <= MaxQueue /\ log \in Seq(Events)
      /\ chain \in Seq(Events \cup {Flush})
    BY <1>0 DEF IInv, TypeOK
<1>a. captured \in Nat /\ stored \subseteq Events
    BY <1>0 DEF IInv, TypeOK
<1> USE EventsAssumption, QueueAssumption, BoundAssumption
    DEF IInv, ChainOK, storage, worker, host, HostUnchanged, EndOperation, Fault,
        ClosePort, NoEvent, Flush
<1>1. CASE Wake
    BY <1>0, <1>1 DEF Wake
<1>2. CASE CaptureNavigation
    <2>1. chain' = Append(chain, captured + 1) /\ captured' = captured + 1 /\ stored' = stored
        BY <1>2 DEF CaptureNavigation
    <2>2. /\ Len(chain') = Len(chain) + 1 /\ chain'[Len(chain) + 1] = captured + 1
          /\ \A i \in 1..Len(chain) : chain'[i] = chain[i]
        BY <1>L, <2>1
    <2>3. captured + 1 \notin stored /\ \A i \in 1..Len(chain) : chain[i] # captured + 1
        BY <1>0, <1>a, <1>L
    <2>4. IsInjective(queue')
        <3>1. queue' = queue /\ IsInjective(queue)
            BY <1>0, <1>2 DEF CaptureNavigation
        <3> QED
            BY <3>1
    <2>5. /\ stored' \subseteq 1..captured'
          /\ \A i \in 1..Len(chain') : chain'[i] # Flush => chain'[i] \in (1..captured') \ stored'
          /\ \A i, j \in 1..Len(chain') : chain'[i] = chain'[j] /\ chain'[i] # Flush => i = j
        BY <1>0, <1>a, <1>L, <2>1, <2>2, <2>3
    <2> QED
        BY <2>4, <2>5
<1>3. CASE Alarm
    BY <1>0, <1>3 DEF Alarm
<1>4. CASE ReconnectTimer
    BY <1>0, <1>4 DEF ReconnectTimer
<1>5. CASE EnqueueRead
    BY <1>0, <1>5 DEF EnqueueRead
<1>6. CASE EnqueueStore
    <2>1. /\ chain # <<>> /\ Head(chain) # 0
          /\ chain' = Append(Tail(chain), 0) \/ chain' = Tail(chain)
          /\ stored' = stored \cup {Head(chain)} /\ captured' = captured
        BY <1>0, <1>6 DEF EnqueueStore, OperationOK
    <2>2. /\ Len(chain) \in Nat \ {0} /\ Head(chain) = chain[1]
          /\ Len(chain') \in {Len(chain), Len(chain) - 1}
          /\ \A i \in 1..(Len(chain) - 1) : chain'[i] = chain[i + 1]
          /\ \A i \in 1..Len(chain') : i \notin 1..(Len(chain) - 1) => chain'[i] = 0
        <3>1. CASE chain' = Append(Tail(chain), 0)
            BY <1>L, <2>1, <3>1
        <3>2. CASE chain' = Tail(chain)
            BY <1>L, <2>1, <3>2
        <3> QED
            BY <2>1, <3>1, <3>2
    <2>3. chain[1] \in 1..captured
        BY <1>0, <2>1, <2>2
    <2>4. \A i \in 1..Len(chain') : chain'[i] # 0 =>
              i + 1 \in 1..Len(chain) /\ chain'[i] = chain[i + 1] /\ chain[i + 1] # chain[1]
        <3> SUFFICES ASSUME NEW i \in 1..Len(chain'), chain'[i] # 0
                     PROVE  /\ i + 1 \in 1..Len(chain) /\ chain'[i] = chain[i + 1]
                            /\ chain[i + 1] # chain[1]
            OBVIOUS
        <3>1. i \in 1..(Len(chain) - 1)
            BY <2>2
        <3>2. i + 1 \in 1..Len(chain) /\ 1 \in 1..Len(chain) /\ chain'[i] = chain[i + 1]
            BY <2>2, <3>1
        <3> QED
            BY <1>0, <2>2, <3>1, <3>2
    <2>5. stored' \subseteq 1..captured'
        BY <1>0, <2>1, <2>2, <2>3
    <2>6. \A i \in 1..Len(chain') : chain'[i] # 0 => chain'[i] \in (1..captured') \ stored'
        BY <1>0, <2>1, <2>2, <2>4
    <2>7. \A i, j \in 1..Len(chain') : chain'[i] = chain'[j] /\ chain'[i] # 0 => i = j
        BY <1>0, <2>2, <2>4
    <2>8. IsInjective(queue')
        <3>1. Head(chain) \in Events \ stored
            BY <1>0, <1>L, <2>1, <2>2
        <3>2. Range(queue) \subseteq stored /\ queue' = Pushed(queue, Head(chain))
            BY <1>0, <1>6 DEF EnqueueStore, OperationOK, HeldOK
        <3> QED
            BY <1>0, <1>L, <3>1, <3>2, PushedInjective
    <2> QED
        BY <2>5, <2>6, <2>7, <2>8
<1>7. CASE FlushRead
    <2>1. CASE chain' = chain
        BY <1>0, <1>7, <2>1 DEF FlushRead
    <2>2. CASE chain # <<>> /\ chain' = Tail(chain)
        <3>1. /\ Len(chain) \in Nat \ {0} /\ Len(chain') = Len(chain) - 1
              /\ \A i \in 1..(Len(chain) - 1) : chain'[i] = chain[i + 1]
            BY <1>L, <2>2
        <3>2. stored' = stored /\ captured' = captured
            BY <1>7 DEF FlushRead
        <3>3. \A i \in 1..Len(chain') : i + 1 \in 1..Len(chain) /\ chain'[i] = chain[i + 1]
            BY <3>1
        <3>4. queue' = queue /\ IsInjective(queue)
            BY <1>0, <1>7 DEF FlushRead
        <3>5. IsInjective(queue')
            BY <3>4
        <3>6. /\ stored' \subseteq 1..captured'
              /\ \A i \in 1..Len(chain') :
                     chain'[i] # Flush => chain'[i] \in (1..captured') \ stored'
              /\ \A i, j \in 1..Len(chain') :
                     chain'[i] = chain'[j] /\ chain'[i] # Flush => i = j
            BY <1>0, <3>1, <3>2, <3>3
        <3> QED
            BY <3>5, <3>6
    <2> QED
        BY <1>7, <2>1, <2>2 DEF FlushRead, Running
<1>8. CASE Send
    BY <1>0, <1>8 DEF Send, Post
<1>9. CASE FlushGivesUp
    BY <1>0, <1>9 DEF FlushGivesUp
<1>10. CASE FlushReread
    BY <1>0, <1>10 DEF FlushReread
<1>11. CASE FlushRemove
    <2>1. queue # <<>> /\ queue' = Tail(queue)
        BY <1>0, <1>11 DEF FlushRemove, OperationOK
    <2>2. IsInjective(queue')
        BY <1>0, <1>L, <2>1, InjectiveTail
    <2> QED
        BY <1>0, <1>11, <2>2 DEF FlushRemove
<1>12. CASE HandleNativeMessage
    BY <1>0, <1>12 DEF HandleNativeMessage
<1>13. CASE HandleNativeDisconnect
    BY <1>0, <1>13 DEF HandleNativeDisconnect
<1>14. CASE AcknowledgementTimeout
    BY <1>0, <1>14 DEF AcknowledgementTimeout
<1>15. CASE HostAppend
    BY <1>0, <1>15 DEF HostAppend
<1>16. CASE HostAcknowledge
    BY <1>0, <1>16 DEF HostAcknowledge
<1>17. CASE HostRefuse
    BY <1>0, <1>17 DEF HostRefuse
<1>18. CASE HostExitsOnOversize
    BY <1>0, <1>18 DEF HostExitsOnOversize
<1>19. CASE HostCrash
    BY <1>0, <1>19 DEF HostCrash
<1>20. CASE OrphanEnds
    BY <1>0, <1>20 DEF OrphanEnds
<1>21. CASE StorageFails
    BY <1>0, <1>21 DEF StorageFails
<1>22. CASE Stop
    BY <1>0, <1>22 DEF Stop
<1>23. CASE UNCHANGED vars
    BY <1>0, <1>23 DEF vars
<1> QED
    BY <1>0, <1>1, <1>2, <1>3, <1>4, <1>5, <1>6, <1>7, <1>8, <1>9, <1>10, <1>11, <1>12,
       <1>13, <1>14, <1>15, <1>16, <1>17, <1>18, <1>19, <1>20, <1>21, <1>22, <1>23
        DEF Next, FlushStep, EnqueueStep, ConnectionStep, HostStep

\* Every step keeps that no event the durable queue has held is silently lost.
LEMMA LossStep == IInv /\ [Next]_vars => NoSilentLoss'
<1>0. SUFFICES ASSUME IInv, [Next]_vars PROVE NoSilentLoss'
    OBVIOUS
<1>L. queue \in Seq(Events) /\ Len(queue) <= MaxQueue /\ log \in Seq(Events)
      /\ chain \in Seq(Events \cup {Flush})
    BY <1>0 DEF IInv, TypeOK
<1>a. \A e \in Events : Range(Append(log, e)) = Range(log) \cup {e}
    BY <1>L, ElementsAppend
<1>b. queue # <<>> => Range(queue) = {Head(queue)} \cup Range(Tail(queue))
    BY <1>L, ElementsHeadTail
<1>c. port = "received" => carried \in Events
    BY <1>0 DEF IInv, HeldOK, TypeOK
<1> USE EventsAssumption, QueueAssumption, BoundAssumption
    DEF IInv, NoSilentLoss, Logged, storage, worker, host, HostUnchanged, EndOperation,
        Fault, ClosePort, NoEvent, Flush
<1>1. CASE Wake
    BY <1>0, <1>1 DEF Wake
<1>2. CASE CaptureNavigation
    BY <1>0, <1>2 DEF CaptureNavigation
<1>3. CASE Alarm
    BY <1>0, <1>3 DEF Alarm
<1>4. CASE ReconnectTimer
    BY <1>0, <1>4 DEF ReconnectTimer
<1>5. CASE EnqueueRead
    BY <1>0, <1>5 DEF EnqueueRead
<1>6. CASE EnqueueStore
    <2>1. local = queue /\ Head(chain) \in Events
        BY <1>0, <1>L, <1>6, ElementsHeadTail DEF EnqueueStore, OperationOK
    <2>2. Range(Append(local, Head(chain))) = Range(queue) \cup {Head(chain)}
        BY <1>L, <2>1, ElementsAppend
    <2> QED
        BY <1>0, <1>6, <2>1, <2>2 DEF EnqueueStore
<1>7. CASE FlushRead
    BY <1>0, <1>7 DEF FlushRead, Running
<1>8. CASE Send
    BY <1>0, <1>8 DEF Send, Post
<1>9. CASE FlushGivesUp
    BY <1>0, <1>9 DEF FlushGivesUp
<1>10. CASE FlushReread
    BY <1>0, <1>10 DEF FlushReread
<1>11. CASE FlushRemove
    <2>1. queue # <<>> /\ local = queue /\ current = Head(queue)
        BY <1>0, <1>11 DEF FlushRemove, OperationOK
    <2>2. outcome = "accepted" => current \in Logged
        BY <1>0, <1>11 DEF FlushRemove, AcceptanceOK
    <2>3. outcome \in {"accepted", "refused"}
        BY <1>0, <1>11 DEF FlushRemove, OperationOK
    <2> QED
        BY <1>0, <1>11, <2>1, <2>2, <2>3, <1>b DEF FlushRemove
<1>12. CASE HandleNativeMessage
    BY <1>0, <1>12 DEF HandleNativeMessage
<1>13. CASE HandleNativeDisconnect
    BY <1>0, <1>13 DEF HandleNativeDisconnect
<1>14. CASE AcknowledgementTimeout
    BY <1>0, <1>14 DEF AcknowledgementTimeout
<1>15. CASE HostAppend
    BY <1>0, <1>15, <1>a, <1>c DEF HostAppend
<1>16. CASE HostAcknowledge
    BY <1>0, <1>16 DEF HostAcknowledge
<1>17. CASE HostRefuse
    BY <1>0, <1>17, <1>a, <1>c DEF HostRefuse
<1>18. CASE HostExitsOnOversize
    BY <1>0, <1>18 DEF HostExitsOnOversize
<1>19. CASE HostCrash
    BY <1>0, <1>19 DEF HostCrash
<1>20. CASE OrphanEnds
    BY <1>0, <1>20, <1>a DEF OrphanEnds
<1>21. CASE StorageFails
    BY <1>0, <1>21 DEF StorageFails
<1>22. CASE Stop
    BY <1>0, <1>22 DEF Stop
<1>23. CASE UNCHANGED vars
    BY <1>0, <1>23 DEF vars
<1> QED
    BY <1>0, <1>1, <1>2, <1>3, <1>4, <1>5, <1>6, <1>7, <1>8, <1>9, <1>10, <1>11, <1>12,
       <1>13, <1>14, <1>15, <1>16, <1>17, <1>18, <1>19, <1>20, <1>21, <1>22, <1>23
        DEF Next, FlushStep, EnqueueStep, ConnectionStep, HostStep

-----------------------------------------------------------------------------
(* The order of the records.                                               *)

\* A host holds e: the one of the open connection, or one of a closed connection.
Holds(e) == (port = "received" /\ carried = e) \/ orphans[e] > 0

\* The events are stored in the order they were captured: those of the queue are in order,
\* and those that the operation chain still has are in order and later than all stored.
InOrder(q) == \A i, j \in 1..Len(q) : i < j => q[i] < q[j]
Later(c, st) ==
    /\ \A i, j \in 1..Len(c) : i < j /\ c[i] # Flush /\ c[j] # Flush => c[i] < c[j]
    /\ \A i \in 1..Len(c) : c[i] # Flush => \A e \in st : e < c[i]

\* When a host has an event, the stored ones before it are logged, refused or pushed out:
\* it was the head of the queue, and no later event is sent before it is answered.
EarlierSettled ==
    \A e \in Events : Holds(e) =>
        \A f \in stored : f < e => f \in Logged \cup rejected \cup dropped

OrderInv == InOrder(queue) /\ Later(chain, stored) /\ EarlierSettled /\ OrderPreserved

\* Queues stay in order.
LEMMA InOrderTail ==
    ASSUME NEW q \in Seq(Events), q # <<>>, InOrder(q)
    PROVE  /\ InOrder(Tail(q))
           /\ \A e \in Range(q) : Head(q) <= e
<1>1. /\ Len(q) \in Nat \ {0} /\ Head(q) = q[1] /\ DOMAIN q = 1..Len(q)
      /\ Len(Tail(q)) = Len(q) - 1
      /\ \A i \in 1..(Len(q) - 1) : Tail(q)[i] = q[i + 1]
      /\ \A i \in 1..Len(q) : q[i] \in Nat
    BY EventsAssumption DEF Events
<1>2. InOrder(Tail(q))
    <2> SUFFICES ASSUME NEW i \in 1..(Len(q) - 1), NEW j \in 1..(Len(q) - 1), i < j
                 PROVE  Tail(q)[i] < Tail(q)[j]
        BY <1>1 DEF InOrder
    <2>1. i + 1 \in 1..Len(q) /\ j + 1 \in 1..Len(q) /\ i + 1 < j + 1
        BY <1>1
    <2>2. q[i + 1] < q[j + 1]
        BY <2>1 DEF InOrder
    <2> QED
        BY <1>1, <2>2
<1>3. \A i \in 1..Len(q) : q[1] <= q[i]
    BY <1>1 DEF InOrder
<1> QED
    BY <1>1, <1>2, <1>3 DEF Range

LEMMA InOrderAppend ==
    ASSUME NEW q \in Seq(Events), InOrder(q), NEW e \in Events, \A f \in Range(q) : f < e
    PROVE  InOrder(Append(q, e))
<1>1. /\ Len(q) \in Nat /\ DOMAIN q = 1..Len(q) /\ Len(Append(q, e)) = Len(q) + 1
      /\ \A i \in 1..Len(q) : Append(q, e)[i] = q[i] /\ q[i] < e
      /\ Append(q, e)[Len(q) + 1] = e
    BY DEF Range
<1> DEFINE p == Append(q, e)
<1> SUFFICES ASSUME NEW i \in 1..(Len(q) + 1), NEW j \in 1..(Len(q) + 1), i < j
             PROVE  p[i] < p[j]
    BY <1>1 DEF InOrder
<1>2. i \in 1..Len(q) /\ (j \in 1..Len(q) \/ j = Len(q) + 1)
    BY <1>1
<1> HIDE DEF p
<1>3. p[i] = q[i] /\ q[i] < e
    BY <1>1, <1>2 DEF p
<1>4. CASE j \in 1..Len(q)
    BY <1>1, <1>3, <1>4 DEF InOrder, p
<1>5. CASE j = Len(q) + 1
    BY <1>1, <1>3, <1>5 DEF p
<1> QED
    BY <1>2, <1>4, <1>5

LEMMA InOrderPushed ==
    ASSUME NEW q \in Seq(Events), Len(q) <= MaxQueue, InOrder(q),
           NEW e \in Events, \A f \in Range(q) : f < e
    PROVE  InOrder(Pushed(q, e))
<1>1. CASE Len(q) < MaxQueue
    BY <1>1, PushedFacts, InOrderAppend
<1>2. CASE Len(q) = MaxQueue
    <2>1. q # <<>> /\ Pushed(q, e) = Append(Tail(q), e)
        BY <1>2, PushedFacts
    <2>2. /\ Tail(q) \in Seq(Events) /\ InOrder(Tail(q))
          /\ \A f \in Range(Tail(q)) : f < e
        BY <2>1, ElementsHeadTail, InOrderTail
    <2> QED
        BY <2>1, <2>2, InOrderAppend
<1> QED
    BY <1>1, <1>2, QueueAssumption

\* Chains stay in order: an operation ends, a flush or a later event joins.
LEMMA LaterFacts ==
    ASSUME NEW c \in Seq(Events \cup {Flush}), NEW st \in SUBSET Events, Later(c, st)
    PROVE  /\ Later(Append(c, Flush), st)
           /\ c # <<>> => Later(Tail(c), st)
           /\ c # <<>> /\ Head(c) # Flush => Later(Tail(c), st \cup {Head(c)})
           /\ Later(<<>>, st) /\ Later(<<Flush>>, st)
<1> USE DEF Flush
<1>1. /\ Len(c) \in Nat /\ Len(Append(c, Flush)) = Len(c) + 1
      /\ \A i \in 1..Len(c) : Append(c, Flush)[i] = c[i]
      /\ Append(c, Flush)[Len(c) + 1] = Flush
    OBVIOUS
<1>2. Later(Append(c, Flush), st)
    <2> DEFINE d == Append(c, Flush)
    <2>1. \A i \in 1..Len(d) : d[i] # Flush => i \in 1..Len(c) /\ d[i] = c[i]
        BY <1>1
    <2> HIDE DEF d
    <2>2. Later(d, st)
        BY <2>1 DEF Later
    <2> QED
        BY <2>2 DEF d
<1>3. ASSUME c # <<>>
      PROVE  /\ Later(Tail(c), st)
             /\ Head(c) # Flush => Later(Tail(c), st \cup {Head(c)})
    <2> DEFINE d == Tail(c)
    <2>1. /\ Len(c) \in Nat \ {0} /\ Head(c) = c[1] /\ Len(d) = Len(c) - 1
          /\ \A i \in 1..(Len(c) - 1) : d[i] = c[i + 1]
        BY <1>3
    <2> HIDE DEF d
    <2>2. /\ \A i \in 1..Len(d) : i + 1 \in 1..Len(c) /\ 1 < i + 1 /\ d[i] = c[i + 1]
          /\ 1 \in 1..Len(c)
        BY <2>1
    <2>3. \A i, j \in 1..Len(d) : i < j => i + 1 < j + 1
        BY <2>1
    <2>4. Later(d, st)
        BY <2>2, <2>3 DEF Later
    <2>5. Head(c) # Flush => \A i \in 1..Len(d) : d[i] # Flush => Head(c) < d[i]
        BY <2>1, <2>2 DEF Later
    <2>6. Head(c) # Flush => Later(d, st \cup {Head(c)})
        BY <2>4, <2>5 DEF Later
    <2> QED
        BY <2>4, <2>6 DEF d
<1>4. Later(<<>>, st) /\ Later(<<Flush>>, st)
    BY DEF Later
<1> QED
    BY <1>2, <1>3, <1>4

LEMMA LaterCapture ==
    ASSUME NEW c \in Seq(Events \cup {Flush}), NEW st, Later(c, st), NEW n \in Nat,
           \A i \in 1..Len(c) : c[i] < n, \A e \in st : e < n
    PROVE  Later(Append(c, n), st)
<1> DEFINE d == Append(c, n)
<1>1. /\ Len(c) \in Nat /\ Len(d) = Len(c) + 1
      /\ \A i \in 1..Len(c) : d[i] = c[i]
      /\ d[Len(c) + 1] = n
    OBVIOUS
<1> HIDE DEF d
<1>2. \A i \in 1..Len(d) : i \in 1..Len(c) \/ i = Len(c) + 1
    BY <1>1
<1>3. ASSUME NEW i \in 1..Len(d), NEW j \in 1..Len(d), i < j, d[i] # Flush, d[j] # Flush
      PROVE  d[i] < d[j]
    <2>1. i \in 1..Len(c)
        BY <1>1, <1>3
    <2>2. CASE j \in 1..Len(c)
        BY <1>1, <1>3, <2>1, <2>2 DEF Later
    <2>3. CASE j = Len(c) + 1
        BY <1>1, <2>1, <2>3
    <2> QED
        BY <1>2, <2>2, <2>3
<1>4. ASSUME NEW i \in 1..Len(d), d[i] # Flush, NEW e \in st
      PROVE  e < d[i]
    <2>1. CASE i \in 1..Len(c)
        BY <1>1, <1>4, <2>1 DEF Later
    <2>2. CASE i = Len(c) + 1
        BY <1>1, <1>4, <2>2
    <2> QED
        BY <1>2, <2>1, <2>2
<1>5. Later(d, st)
    BY <1>3, <1>4 DEF Later
<1> QED
    BY <1>5 DEF d

\* What a step does to the queue, the chain, the hosts and the log, as far as the order of
\* the records is concerned.
Stores ==
    /\ chain # <<>> /\ Head(chain) # Flush
    /\ queue' = Pushed(queue, Head(chain)) /\ stored' = stored \cup {Head(chain)}
    /\ chain' \in {Append(Tail(chain), Flush), Tail(chain)}
Moves ==
    /\ stored' = stored
    /\ queue' = queue \/ (queue # <<>> /\ queue' = Tail(queue))
    /\ \/ chain' \in {chain, Append(chain, Flush), <<>>, <<Flush>>}
       \/ chain # <<>> /\ chain' = Tail(chain)
       \/ captured' = captured + 1 /\ captured' \in Events /\ chain' = Append(chain, captured')
Gives ==
    \A e \in Events : Holds(e)' => Holds(e) \/ (queue # <<>> /\ e = Head(queue))
Writes == log' = log \/ \E e \in Events : Holds(e) /\ log' = Append(log, e)

LEMMA StepShape ==
    IInv /\ [Next]_vars =>
        /\ Stores \/ Moves
        /\ Gives /\ Writes
        /\ rejected \subseteq rejected' /\ dropped \subseteq dropped'
<1>0. SUFFICES ASSUME IInv, [Next]_vars
               PROVE  /\ Stores \/ Moves
                      /\ Gives /\ Writes
                      /\ rejected \subseteq rejected' /\ dropped \subseteq dropped'
    OBVIOUS
<1>a. port \in {"received", "logged", "accepted", "refused"} => carried \in Events
    BY <1>0 DEF IInv, HeldOK, TypeOK
<1>b. orphans \in [Events -> Nat] /\ captured \in Nat
    BY <1>0 DEF IInv, TypeOK
<1>c. UNCHANGED <<port, carried, orphans>> => Gives
    BY DEF Gives, Holds
<1>d. UNCHANGED orphans /\ (port' = "received" => port = "received" /\ carried' = carried) => Gives
    BY DEF Gives, Holds
<1>e. UNCHANGED log => Writes
    BY DEF Writes
<1> USE DEF Moves, storage, worker, host, HostUnchanged, EndOperation, Fault, ClosePort
<1>1. CASE Wake
    BY <1>0, <1>1, <1>c, <1>e DEF Wake
<1>2. CASE CaptureNavigation
    <2>1. captured + 1 \in Events /\ captured' = captured + 1
        BY <1>2, <1>b, EventsAssumption DEF CaptureNavigation, Events
    <2> QED
        BY <1>0, <1>2, <1>c, <1>e, <2>1 DEF CaptureNavigation
<1>3. CASE Alarm
    BY <1>0, <1>3, <1>c, <1>e DEF Alarm
<1>4. CASE ReconnectTimer
    BY <1>0, <1>4, <1>c, <1>e DEF ReconnectTimer
<1>5. CASE EnqueueRead
    BY <1>0, <1>5, <1>c, <1>e DEF EnqueueRead
<1>6. CASE EnqueueStore
    <2>1. chain # <<>> /\ Head(chain) # Flush /\ local = queue
        BY <1>0, <1>6 DEF EnqueueStore, IInv, OperationOK
    <2>2. Stores
        BY <1>6, <2>1 DEF EnqueueStore, Stores
    <2>3. /\ UNCHANGED <<port, carried, orphans, log, rejected>>
          /\ dropped \subseteq dropped'
        BY <1>6 DEF EnqueueStore
    <2> QED
        BY <2>2, <2>3, <1>c, <1>e
<1>7. CASE FlushRead
    BY <1>0, <1>7, <1>c, <1>e DEF FlushRead, Running
<1>8. CASE Send
    <2>1. queue # <<>> /\ current = Head(queue)
        BY <1>0, <1>8 DEF Send, IInv, OperationOK
    <2>2. UNCHANGED orphans /\ (port' = "received" => carried' = current \/ (port = "received" /\ carried' = carried))
        BY <1>8 DEF Send, Post
    <2>3. Gives
        BY <2>1, <2>2 DEF Gives, Holds
    <2>4. UNCHANGED <<storage, chain, log, rejected>>
        BY <1>8 DEF Send
    <2> QED
        BY <2>3, <2>4, <1>e
<1>9. CASE FlushGivesUp
    BY <1>0, <1>9, <1>c, <1>e DEF FlushGivesUp, IInv, OperationOK
<1>10. CASE FlushReread
    BY <1>0, <1>10, <1>c, <1>e DEF FlushReread
<1>11. CASE FlushRemove
    <2>1. queue # <<>> /\ queue' = Tail(queue)
        BY <1>0, <1>11 DEF FlushRemove, IInv, OperationOK
    <2>2. /\ UNCHANGED <<chain, port, carried, orphans, log, stored, dropped>>
          /\ rejected \subseteq rejected'
        BY <1>11 DEF FlushRemove
    <2> QED
        BY <2>1, <2>2, <1>c, <1>e
<1>12. CASE HandleNativeMessage
    BY <1>0, <1>12, <1>d, <1>e DEF HandleNativeMessage
<1>13. CASE HandleNativeDisconnect
    BY <1>0, <1>13, <1>d, <1>e DEF HandleNativeDisconnect
<1>14. CASE AcknowledgementTimeout
    <2>1. /\ port' = "closed"
          /\ orphans' = IF port = "received" THEN [orphans EXCEPT ![carried] = @ + 1] ELSE orphans
        BY <1>14 DEF AcknowledgementTimeout
    <2>2. Gives
        BY <2>1, <1>a, <1>b DEF Gives, Holds
    <2>3. UNCHANGED <<storage, log, rejected>> /\ chain' \in {chain, <<>>}
        BY <1>14 DEF AcknowledgementTimeout
    <2> QED
        BY <2>2, <2>3, <1>e
<1>15. CASE HostAppend
    <2>1. Holds(carried) /\ carried \in Events /\ log' = Append(log, carried)
        BY <1>15, <1>a DEF HostAppend, Holds
    <2>2. Writes
        BY <2>1 DEF Writes
    <2> QED
        BY <1>15, <1>d, <2>2 DEF HostAppend
<1>16. CASE HostAcknowledge
    BY <1>0, <1>16, <1>d, <1>e DEF HostAcknowledge
<1>17. CASE HostRefuse
    <2>1. Holds(carried) /\ carried \in Events /\ log' \in {log, Append(log, carried)}
        BY <1>17, <1>a DEF HostRefuse, Holds
    <2>2. Writes
        BY <2>1 DEF Writes
    <2>3. UNCHANGED <<storage, chain, orphans, rejected>> /\ port' = "refused"
        BY <1>17 DEF HostRefuse
    <2> QED
        BY <2>2, <2>3, <1>d
<1>18. CASE HostExitsOnOversize
    BY <1>0, <1>18, <1>d, <1>e DEF HostExitsOnOversize
<1>19. CASE HostCrash
    BY <1>0, <1>19, <1>d, <1>e DEF HostCrash
<1>20. CASE OrphanEnds
    <2>1. PICK e \in Events : /\ orphans[e] > 0
                              /\ orphans' = [orphans EXCEPT ![e] = orphans[e] - 1]
                              /\ log' = Append(log, e) \/ log' = log
        BY <1>20 DEF OrphanEnds
    <2>2. Writes
        BY <2>1 DEF Writes, Holds
    <2>3. UNCHANGED <<storage, chain, port, carried, rejected>>
        BY <1>20 DEF OrphanEnds
    <2>4. Gives
        BY <2>1, <2>3, <1>b DEF Gives, Holds
    <2> QED
        BY <2>2, <2>3, <2>4
<1>21. CASE StorageFails
    BY <1>0, <1>21, <1>c, <1>e DEF StorageFails
<1>22. CASE Stop
    <2>1. /\ port' = "closed"
          /\ orphans' = IF port = "received" THEN [orphans EXCEPT ![carried] = @ + 1] ELSE orphans
        BY <1>22 DEF Stop
    <2>2. Gives
        BY <2>1, <1>a, <1>b DEF Gives, Holds
    <2>3. UNCHANGED <<storage, log, rejected>> /\ chain' \in {chain, <<>>}
        BY <1>22 DEF Stop
    <2> QED
        BY <2>2, <2>3, <1>e
<1>23. CASE UNCHANGED vars
    BY <1>23, <1>c, <1>e DEF vars
<1> QED
    BY <1>0, <1>1, <1>2, <1>3, <1>4, <1>5, <1>6, <1>7, <1>8, <1>9, <1>10, <1>11, <1>12,
       <1>13, <1>14, <1>15, <1>16, <1>17, <1>18, <1>19, <1>20, <1>21, <1>22, <1>23
        DEF Next, FlushStep, EnqueueStep, ConnectionStep, HostStep

\* Every step keeps queue and chain in order.
LEMMA InOrderStep ==
    ASSUME IInv, OrderInv, [Next]_vars
    PROVE  /\ InOrder(queue') /\ Later(chain', stored')
           /\ stored' # stored => \A e \in stored : \A f \in stored' \ stored : e < f
<1>1. /\ queue \in Seq(Events) /\ Len(queue) <= MaxQueue
      /\ chain \in Seq(Events \cup {Flush}) /\ stored \in SUBSET Events
      /\ captured \in Nat
    BY DEF IInv, TypeOK
<1>2. InOrder(queue) /\ Later(chain, stored)
    BY DEF OrderInv
<1>3. CASE Moves
    <2>1. InOrder(queue')
        BY <1>1, <1>2, <1>3, InOrderTail DEF Moves
    <2>2. CASE chain' \in {chain, Append(chain, Flush), <<>>, <<Flush>>}
        <3>1. Later(chain', stored)
            BY <1>1, <1>2, <2>2, LaterFacts
        <3> QED
            BY <2>1, <3>1, <1>3 DEF Moves
    <2>3. CASE chain # <<>> /\ chain' = Tail(chain)
        <3>1. Later(chain', stored)
            BY <1>1, <1>2, <2>3, LaterFacts
        <3> QED
            BY <2>1, <3>1, <1>3 DEF Moves
    <2>4. CASE captured' = captured + 1 /\ chain' = Append(chain, captured')
        <3> DEFINE n == captured + 1
        <3>1. n \in Nat /\ \A e \in stored : e < n
            BY <1>1 DEF IInv, ChainOK
        <3>2. \A i \in 1..Len(chain) : chain[i] < n
            BY <1>1 DEF IInv, ChainOK, Flush
        <3> HIDE DEF n
        <3>3. Later(Append(chain, n), stored)
            BY <1>1, <1>2, <3>1, <3>2, LaterCapture
        <3>4. chain' = Append(chain, n)
            BY <2>4 DEF n
        <3> QED
            BY <2>1, <3>3, <3>4, <1>3 DEF Moves
    <2> QED
        BY <1>3, <2>2, <2>3, <2>4 DEF Moves
<1>4. CASE Stores
    <2> DEFINE e == Head(chain)
    <2>1. e \in Events /\ e = chain[1] /\ 1 \in 1..Len(chain) /\ e # Flush
        BY <1>1, <1>4 DEF Stores, Flush
    <2>2. \A f \in stored : f < e
        BY <1>2, <2>1 DEF Later
    <2>3. \A f \in Range(queue) : f < e
        BY <2>2 DEF IInv, HeldOK
    <2>4. InOrder(queue')
        BY <1>1, <1>2, <1>4, <2>1, <2>3, InOrderPushed DEF Stores
    <2>5. Tail(chain) \in Seq(Events \cup {Flush}) /\ Later(Tail(chain), stored \cup {e})
        BY <1>1, <1>2, <1>4, <2>1, ElementsHeadTail, LaterFacts DEF Stores
    <2>6. stored \cup {e} \in SUBSET Events
        BY <1>1, <2>1
    <2> HIDE DEF e
    <2>7. Later(Append(Tail(chain), Flush), stored \cup {e})
        BY <2>5, <2>6, LaterFacts
    <2>8. Later(chain', stored')
        BY <1>4, <2>5, <2>7 DEF Stores, e
    <2> QED
        BY <1>4, <2>2, <2>4, <2>8 DEF Stores, e
<1> QED
    BY <1>3, <1>4, StepShape

\* Every step keeps that the stored events before one that a host holds are settled.
LEMMA EarlierStep ==
    ASSUME IInv, OrderInv, [Next]_vars
    PROVE  EarlierSettled'
<1>1. /\ queue \in Seq(Events) /\ log \in Seq(Events) /\ stored \subseteq Events
    BY DEF IInv, TypeOK
<1>2. /\ Gives /\ Writes /\ rejected \subseteq rejected' /\ dropped \subseteq dropped'
    BY StepShape
<1>3. Logged \subseteq Logged'
    <2>1. \A e \in Events : Range(Append(log, e)) = Range(log) \cup {e}
        BY <1>1, ElementsAppend
    <2> QED
        BY <1>2, <2>1 DEF Writes, Logged
<1> SUFFICES ASSUME NEW e \in Events, Holds(e)', NEW f \in stored', f < e
             PROVE  f \in Logged \cup rejected \cup dropped
    BY <1>2, <1>3 DEF EarlierSettled
<1>4. CASE Holds(e)
    <2>1. e \in stored
        BY <1>4 DEF Holds, IInv, HeldOK
    <2>2. f \in stored
        <3>1. f \notin stored => e < f
            BY <2>1, InOrderStep
        <3>2. e \in Nat /\ f \in Nat
            <4>1. TypeOK'
                BY TypeStep
            <4> QED
                BY <4>1 DEF TypeOK, Events
        <3> QED
            BY <3>1, <3>2
    <2> QED
        BY <1>4, <2>2 DEF OrderInv, EarlierSettled
<1>5. CASE queue # <<>> /\ e = Head(queue)
    <2>1. e \in Range(queue) /\ \A g \in Range(queue) : e <= g
        BY <1>1, <1>5, InOrderTail, ElementsHeadTail DEF OrderInv
    <2>2. e \in stored
        BY <2>1 DEF IInv, HeldOK
    <2>3. f \in stored
        <3>1. f \notin stored => e < f
            BY <2>2, InOrderStep
        <3>2. e \in Nat /\ f \in Nat
            <4>1. TypeOK'
                BY TypeStep
            <4> QED
                BY <4>1 DEF TypeOK, Events
        <3> QED
            BY <3>1, <3>2
    <2>4. f \notin Range(queue)
        <3>1. e \in Nat /\ f \in Nat /\ ~(e <= f)
            BY <1>1, <2>3, EventsAssumption DEF Events
        <3> QED
            BY <2>1, <3>1
    <2> QED
        BY <2>3, <2>4 DEF IInv, NoSilentLoss
<1> QED
    BY <1>2, <1>4, <1>5 DEF Gives

\* Every step keeps the records in order.
LEMMA OrderStep ==
    ASSUME IInv, OrderInv, [Next]_vars
    PROVE  OrderPreserved'
<1>1. /\ log \in Seq(Events) /\ stored \subseteq Events /\ Logged \subseteq stored
      /\ stored' \subseteq Events
    <2>1. TypeOK'
        BY TypeStep
    <2> QED
        BY <2>1 DEF IInv, TypeOK, HeldOK
<1>2. /\ Writes /\ rejected \subseteq rejected' /\ dropped \subseteq dropped'
    BY StepShape
<1>3. \A i \in 1..Len(log) : \A e \in stored' :
          e < log[i] => e \in Range(SubSeq(log, 1, i - 1)) \cup rejected \cup dropped
    <2> SUFFICES ASSUME NEW i \in 1..Len(log), NEW e \in stored', e < log[i]
                 PROVE  e \in Range(SubSeq(log, 1, i - 1)) \cup rejected \cup dropped
        OBVIOUS
    <2>1. log[i] \in stored
        BY <1>1 DEF Logged, Range
    <2>2. e \in stored
        <3>1. e \notin stored => log[i] < e
            BY <2>1, InOrderStep
        <3> DEFINE n == log[i]
        <3>2. e \in Events /\ n \in Events /\ e < n
            BY <1>1, <2>1
        <3> HIDE DEF n
        <3>3. ~(n < e)
            BY <3>2, EventsAssumption DEF Events
        <3> QED
            BY <3>1, <3>3 DEF n
    <2> QED
        BY <2>2 DEF OrderInv, OrderPreserved
<1>4. CASE log' = log
    BY <1>2, <1>3, <1>4 DEF OrderPreserved
<1>5. ASSUME NEW o \in Events, Holds(o), log' = Append(log, o)
      PROVE  OrderPreserved'
    <2>1. /\ Len(log) \in Nat /\ Len(log') = Len(log) + 1 /\ log'[Len(log) + 1] = o
          /\ \A i \in 1..Len(log) : log'[i] = log[i]
        BY <1>1, <1>5
    <2>2. \A i \in 1..(Len(log) + 1) : SubSeq(log', 1, i - 1) = SubSeq(log, 1, i - 1)
        BY <1>1, <1>5
    <2>3. SubSeq(log, 1, Len(log)) = log
        BY <1>1
    <2>4. \A e \in stored' : e < o => e \in Range(log) \cup rejected \cup dropped
        <3> SUFFICES ASSUME NEW e \in stored', e < o
                     PROVE  e \in Range(log) \cup rejected \cup dropped
            OBVIOUS
        <3>1. o \in stored
            BY <1>5 DEF Holds, IInv, HeldOK
        <3>2. e \in stored
            <4>1. e \notin stored => o < e
                BY <3>1, InOrderStep
            <4>2. e \in Nat /\ o \in Nat
                BY <1>1 DEF Events
            <4> QED
                BY <4>1, <4>2
        <3> QED
            BY <1>5, <3>2 DEF OrderInv, EarlierSettled, Logged
    <2> SUFFICES ASSUME NEW i \in 1..(Len(log) + 1), NEW e \in stored', e < log'[i]
                 PROVE  e \in Range(SubSeq(log', 1, i - 1)) \cup rejected' \cup dropped'
        BY <2>1 DEF OrderPreserved
    <2>5. CASE i \in 1..Len(log)
        BY <1>2, <1>3, <2>1, <2>2, <2>5
    <2>6. CASE i = Len(log) + 1
        <3>1. SubSeq(log', 1, i - 1) = log
            BY <2>1, <2>2, <2>3, <2>6
        <3> QED
            BY <1>2, <2>1, <2>4, <2>6, <3>1
    <2> QED
        BY <2>1, <2>5, <2>6
<1> QED
    BY <1>2, <1>4, <1>5 DEF Writes

\* No event is stored, held or logged at first.
LEMMA InitOrder == Init => OrderInv
<1> SUFFICES ASSUME Init PROVE OrderInv
    OBVIOUS
<1>1. InOrder(queue) /\ Later(chain, stored)
    BY DEF Init, InOrder, Later
<1>2. EarlierSettled /\ OrderPreserved
    BY DEF Init, EarlierSettled, OrderPreserved
<1> QED
    BY <1>1, <1>2 DEF OrderInv

-----------------------------------------------------------------------------
(* The worker implements NavigationDelivery.                               *)

\* Every step that leaves the stored queue, the records and what was given up alone is a
\* stutter of the abstract delivery.
LEMMA Stutters ==
    ASSUME UNCHANGED <<queue, log, rejected, dropped>>
    PROVE  [Delivery!Next]_Delivery!vars
<1>1. Logged' = Logged
    BY DEF Logged
<1> QED
    BY <1>1 DEF Delivery!vars

\* A record is written only of an event the queue has held.
LEMMA AppendWrites ==
    ASSUME IInv, NEW e \in Events, e \in stored, log' = Append(log, e),
           UNCHANGED <<queue, rejected, dropped>>
    PROVE  Delivery!Next
<1>1. Logged' = Logged \cup {e}
    <2>1. log \in Seq(Events)
        BY DEF IInv, TypeOK
    <2> QED
        BY <2>1, ElementsAppend DEF Logged
<1>2. e \in Delivery!Seen
    BY DEF IInv, NoSilentLoss, Delivery!Seen, Range, Delivery!Range
<1>3. Delivery!Write(e)
    BY <1>1, <1>2 DEF Delivery!Write
<1>4. e \in Delivery!Events
    BY DEF Events, Delivery!Events
<1> QED
    BY <1>3, <1>4 DEF Delivery!Next

\* Storing an event is offering it: it is new, and a full queue gives up exactly its head.
LEMMA StoreOffers == IInv /\ EnqueueStore => Delivery!Next
<1>0. SUFFICES ASSUME IInv, EnqueueStore PROVE Delivery!Next
    OBVIOUS
<1> DEFINE e == Head(chain)
<1>1. /\ queue \in Seq(Events) /\ Len(queue) <= MaxQueue /\ Len(queue) \in Nat
      /\ chain \in Seq(Events \cup {Flush}) /\ IsInjective(queue)
    BY <1>0 DEF IInv, TypeOK, ChainOK
<1>2. local = queue /\ chain # <<>> /\ e # Flush
    BY <1>0 DEF IInv, OperationOK, EnqueueStore
<1>3. e \in Events /\ e \notin stored
    <2>1. e \in Events \cup {Flush} /\ e = chain[1] /\ 1 \in 1..Len(chain)
        BY <1>1, <1>2
    <2> QED
        BY <1>0, <1>2, <2>1 DEF IInv, ChainOK
<1>4. /\ queue' = Pushed(queue, e)
      /\ dropped' = dropped \cup (Range(Append(queue, e)) \ Range(Pushed(queue, e)))
      /\ UNCHANGED <<log, rejected>>
    BY <1>0, <1>2 DEF EnqueueStore, host
<1>5. Range(Append(queue, e)) = Range(queue) \cup {e}
    BY <1>1, <1>3, ElementsAppend
<1>6. e \notin Delivery!Seen
    BY <1>0, <1>3 DEF IInv, HeldOK, Delivery!Seen, Range, Delivery!Range
<1>7. CASE Len(queue) < MaxQueue
    <2>1. queue' = Append(queue, e) /\ Range(Pushed(queue, e)) = Range(queue) \cup {e}
        BY <1>1, <1>3, <1>4, <1>7, PushedFacts, PushedElements
    <2>2. dropped' = dropped
        BY <1>4, <1>5, <2>1
    <2>3. Delivery!Offer(e)
        BY <1>4, <1>6, <1>7, <2>1, <2>2 DEF Delivery!Offer, Logged
    <2> QED
        BY <1>3, <2>3 DEF Delivery!Next, Delivery!Events, Events
<1>8. CASE Len(queue) = MaxQueue
    <2>1. queue # <<>> /\ Pushed(queue, e) = Append(Tail(queue), e)
        BY <1>1, <1>3, <1>8, PushedFacts
    <2>2. /\ Tail(queue) \in Seq(Events) /\ Range(queue) = {Head(queue)} \cup Range(Tail(queue))
          /\ Head(queue) \notin Range(Tail(queue))
        BY <1>1, <2>1, ElementsHeadTail, InjectiveTail
    <2>3. \A s \in Seq(Events) : Range(Append(s, e)) = Range(s) \cup {e}
        BY <1>3, ElementsAppend
    <2>4. Head(queue) # e
        BY <1>0, <1>3, <2>2 DEF IInv, HeldOK
    <2>5. Range(Append(Tail(queue), e)) = Range(Tail(queue)) \cup {e}
        BY <2>2, <2>3
    <2>6. Range(Append(queue, e)) \ Range(Pushed(queue, e)) = {Head(queue)}
        BY <1>5, <2>1, <2>2, <2>3, <2>4, <2>5
    <2>7. Delivery!Offer(e)
        BY <1>1, <1>4, <1>6, <1>8, <2>1, <2>6, QueueAssumption DEF Delivery!Offer, Logged
    <2> QED
        BY <1>3, <2>7 DEF Delivery!Next, Delivery!Events, Events
<1> QED
    BY <1>1, <1>7, <1>8, QueueAssumption

\* Removing an answered event is settling the head of the queue: the host has written its
\* record, or has refused it.
LEMMA RemoveSettles == IInv /\ FlushRemove => Delivery!Next
<1>0. SUFFICES ASSUME IInv, FlushRemove PROVE Delivery!Next
    OBVIOUS
<1>1. /\ queue # <<>> /\ local = queue /\ current = Head(queue)
      /\ outcome \in {"accepted", "refused"}
    BY <1>0 DEF IInv, OperationOK, FlushRemove
<1>2. outcome = "accepted" => current \in Logged
    BY <1>0 DEF IInv, AcceptanceOK, FlushRemove
<1>3. /\ queue' = Tail(queue) /\ UNCHANGED <<log, dropped>>
      /\ rejected' = IF outcome = "refused" THEN rejected \cup {current} ELSE rejected
    BY <1>0, <1>1 DEF FlushRemove, host
<1>4. \/ Head(queue) \in Logged /\ rejected' = rejected
      \/ rejected' = rejected \cup {Head(queue)}
    BY <1>1, <1>2, <1>3
<1>5. Delivery!Settle
    BY <1>1, <1>3, <1>4 DEF Delivery!Settle, Logged
<1> QED
    BY <1>5 DEF Delivery!Next

\* Every step of the worker, its browser and its host is a step of the abstract delivery or
\* a stutter of it.
LEMMA StepImplements == IInv /\ [Next]_vars => [Delivery!Next]_Delivery!vars
<1>0. SUFFICES ASSUME IInv, [Next]_vars PROVE [Delivery!Next]_Delivery!vars
    OBVIOUS
<1>a. stored \subseteq Events /\ orphans \in [Events -> Nat]
    BY <1>0 DEF IInv, TypeOK
<1>b. port \in {"received", "logged", "accepted", "refused"} => carried \in stored
    BY <1>0 DEF IInv, HeldOK
<1>c. \A e \in Events : orphans[e] > 0 => e \in stored
    BY <1>0 DEF IInv, HeldOK
<1> USE DEF storage, worker, host, HostUnchanged, ClosePort
<1>1. CASE Wake
    BY <1>1, Stutters DEF Wake
<1>2. CASE CaptureNavigation
    BY <1>2, Stutters DEF CaptureNavigation
<1>3. CASE Alarm
    BY <1>3, Stutters DEF Alarm
<1>4. CASE ReconnectTimer
    BY <1>4, Stutters DEF ReconnectTimer
<1>5. CASE EnqueueRead
    BY <1>5, Stutters DEF EnqueueRead
<1>6. CASE EnqueueStore
    BY <1>0, <1>6, StoreOffers
<1>7. CASE FlushRead
    BY <1>7, Stutters DEF FlushRead
<1>8. CASE Send
    BY <1>8, Stutters DEF Send, Post
<1>9. CASE FlushGivesUp
    BY <1>9, Stutters DEF FlushGivesUp
<1>10. CASE FlushReread
    BY <1>10, Stutters DEF FlushReread
<1>11. CASE FlushRemove
    BY <1>0, <1>11, RemoveSettles
<1>12. CASE HandleNativeMessage
    BY <1>12, Stutters DEF HandleNativeMessage
<1>13. CASE HandleNativeDisconnect
    BY <1>13, Stutters DEF HandleNativeDisconnect
<1>14. CASE AcknowledgementTimeout
    BY <1>14, Stutters DEF AcknowledgementTimeout
<1>15. CASE HostAppend
    BY <1>0, <1>15, <1>a, <1>b, AppendWrites DEF HostAppend
<1>16. CASE HostAcknowledge
    BY <1>16, Stutters DEF HostAcknowledge
<1>17. CASE HostRefuse
    <2>1. carried \in Events \cap stored /\ log' \in {log, Append(log, carried)}
        BY <1>17, <1>a, <1>b DEF HostRefuse
    <2>2. UNCHANGED <<queue, rejected, dropped>>
        BY <1>17 DEF HostRefuse
    <2> QED
        BY <1>0, <2>1, <2>2, AppendWrites, Stutters
<1>18. CASE HostExitsOnOversize
    BY <1>18, Stutters DEF HostExitsOnOversize
<1>19. CASE HostCrash
    BY <1>19, Stutters DEF HostCrash
<1>20. CASE OrphanEnds
    <2>1. PICK e \in Events : orphans[e] > 0 /\ (log' = Append(log, e) \/ log' = log)
        BY <1>20 DEF OrphanEnds
    <2>2. UNCHANGED <<queue, rejected, dropped>>
        BY <1>20 DEF OrphanEnds
    <2> QED
        BY <1>0, <1>c, <2>1, <2>2, AppendWrites, Stutters
<1>21. CASE StorageFails
    BY <1>21, Stutters DEF StorageFails
<1>22. CASE Stop
    BY <1>22, Stutters DEF Stop
<1>23. CASE UNCHANGED vars
    BY <1>23, Stutters DEF vars
<1> QED
    BY <1>0, <1>1, <1>2, <1>3, <1>4, <1>5, <1>6, <1>7, <1>8, <1>9, <1>10, <1>11, <1>12,
       <1>13, <1>14, <1>15, <1>16, <1>17, <1>18, <1>19, <1>20, <1>21, <1>22, <1>23
        DEF Next, FlushStep, EnqueueStep, ConnectionStep, HostStep

-----------------------------------------------------------------------------
(* The theorems.                                                           *)

\* The initial state satisfies every conjunct of the invariant.
LEMMA InitInvariant == Init => IInv
<1>0. SUFFICES ASSUME Init PROVE IInv
    OBVIOUS
<1> USE EventsAssumption, QueueAssumption, BoundAssumption DEF Init, NoEvent, Flush
<1>1. Range(queue) = {} /\ Logged = {} /\ IsInjective(queue)
    BY <1>0 DEF Logged, Range, IsInjective
<1>2. TypeOK
    <2>1. queue \in Seq(Events) /\ Len(queue) = 0 /\ local \in Seq(Events) /\ log \in Seq(Events)
        BY <1>0
    <2>2. chain \in Seq(Events \cup {Flush}) /\ orphans \in [Events -> Nat]
        BY <1>0
    <2>3. awake \in BOOLEAN /\ timer \in BOOLEAN
        BY <1>0
    <2> QED
        BY <1>0, <2>1, <2>2, <2>3 DEF TypeOK, PcStates, Outcomes, PortStates
<1>3. OperationOK
    BY <1>0 DEF OperationOK
<1>4. AcceptanceOK
    BY <1>0 DEF AcceptanceOK
<1>5. HeldOK
    BY <1>0, <1>1 DEF HeldOK
<1>6. ChainOK
    BY <1>0, <1>1 DEF ChainOK
<1>7. NoSilentLoss
    BY <1>0 DEF NoSilentLoss
<1> QED
    BY <1>2, <1>3, <1>4, <1>5, <1>6, <1>7 DEF IInv

\* The invariant is inductive, so it holds of every reachable state: the operation chain
\* makes each operation's copy of the queue and its event the stored ones.
THEOREM InductiveInvariant == Spec => []IInv
<1>1. IInv /\ [Next]_vars => IInv'
    BY TypeStep, OperationStep, AcceptanceStep, HeldStep, ChainStep, LossStep DEF IInv
<1> QED
    BY <1>1, InitInvariant, PTL DEF Spec

\* Every reachable state of the worker, its storage and its host has the types declared,
\* and the stored queue never exceeds MAX_QUEUE_SIZE (enqueueEvent's splice).
THEOREM TypeCorrect == Spec => []TypeOK
<1>1. IInv => TypeOK
    BY DEF IInv
<1> QED
    BY <1>1, InductiveInvariant, PTL

\* The event whose acknowledgement is awaited is always the stored queue's head, for any
\* number of captures, alarms and failures (flushQueue behind serializeOperation).
THEOREM InFlightIsHead == Spec => []HeadInFlight
<1>1. IInv => HeadInFlight
    BY DEF IInv, OperationOK, HeadInFlight
<1> QED
    BY <1>1, InductiveInvariant, PTL

\* No event the durable queue has held is ever silently lost: neither by a stopped worker,
\* nor by a crashed host, a timeout, an overflow or a failed write (flushQueue removes an
\* event only after the host's answer).
THEOREM StoredEventsAreNotLost == Spec => []NoSilentLoss
<1>1. IInv => NoSilentLoss
    BY DEF IInv
<1> QED
    BY <1>1, InductiveInvariant, PTL

\* The log follows the order of capture, whatever is sent again and however late the host of
\* a closed connection writes: when a record is written, the events stored earlier have
\* theirs or were given up.
THEOREM RecordsInOrder == Spec => []OrderPreserved
<1>1. IInv /\ OrderInv /\ [Next]_vars => OrderInv'
    <2> SUFFICES ASSUME IInv, OrderInv, [Next]_vars PROVE OrderInv'
        OBVIOUS
    <2> QED
        BY InOrderStep, EarlierStep, OrderStep DEF OrderInv
<1>2. OrderInv => OrderPreserved
    BY DEF OrderInv
<1> QED
    BY <1>1, <1>2, InitOrder, InductiveInvariant, PTL DEF Spec

\* The worker, with its storage, its browser's failures and its host, keeps the promise of
\* NavigationDelivery: in order, at least once, given up only by a refusal or the limit.
THEOREM ImplementsDelivery == Spec => DeliverySpec
<1>1. Init => Delivery!Init
    BY DEF Init, Delivery!Init, Logged, Range
<1>2. IInv /\ [Next]_vars => [Delivery!Next]_Delivery!vars
    BY StepImplements
<1> QED
    BY <1>1, <1>2, InductiveInvariant, PTL DEF Spec, DeliverySpec, Delivery!Spec

=============================================================================
