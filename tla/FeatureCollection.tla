------------------------- MODULE FeatureCollection -------------------------
(***************************************************************************)
(* The collection of the training data                                     *)
(* (legacy/original-implementation/main.py): a main loop that starts one   *)
(* thread per URL, at most max_thread at a time, and counts them without   *)
(* the lock under which they report; first over the legitimate URLs, then  *)
(* over the phishing ones.                                                 *)
(*                                                                         *)
(* An action is what a thread does between two points at which another may *)
(* run.  What featureExtraction makes of a URL is UrlFeatures.             *)
(***************************************************************************)
EXTENDS UrlFeatures, FiniteSets

CONSTANTS
    SampleSize,   \* n, the URLs of each group
    MaxThreads    \* max_thread

ASSUME CollectionBounds == SampleSize \in Nat \ {0} /\ MaxThreads \in Nat \ {0}

Groups == {0, 1}   \* legitimate, phishing
Ids == 0..SampleSize - 1
Threads == Groups \X Ids

VARIABLES
    main,       \* where the main thread is: "test", "append" or "count"
    group,      \* the group it collects, 2 when both are written
    index, len, finished,   \* its variables; `len` is _len
    children,   \* the identifiers in the list
    lock,       \* who holds the lock, Free if nobody
    thread,     \* where each thread is
    rows        \* legi_features and phish_features: the identifiers of their rows

vars == <<main, group, index, len, finished, children, lock, thread, rows>>
loop == <<main, group, index, len, finished>>

Free == <<>>
Alive == {t \in Threads : thread[t] \notin {"new", "ended", "failed"}}
Failed == {t \in Threads : thread[t] = "failed"}

TypeOK ==
    /\ main \in {"test", "append", "count"} /\ group \in 0..2 /\ finished \in BOOLEAN
    /\ index \in Ids /\ len \in 0..MaxThreads
    /\ children \subseteq Ids /\ Cardinality(children) <= MaxThreads
    /\ lock \in Threads \cup {Free}
    /\ thread \in [Threads -> {"new", "extract", "acquire", "report", "remove", "ended", "failed"}]
    /\ Cardinality(Alive) <= MaxThreads
    /\ rows \in [Groups -> Seq(Ids)]

Init ==
    /\ main = "test" /\ group = 0 /\ index = 0 /\ len = 1 /\ finished = FALSE
    /\ children = {} /\ lock = Free
    /\ thread = [t \in Threads |-> "new"]
    /\ rows = [g \in Groups |-> <<>>]

Goes(t, where) == thread' = [thread EXCEPT ![t] = where]

-----------------------------------------------------------------------------
(* The main thread.                                                        *)

\* A mistake the code could have had: one thread too many.
StartThreadOverLimit ==
    /\ main = "test" /\ group \in Groups /\ (len # 0 \/ ~finished)
    /\ len <= MaxThreads /\ index + 1 < SampleSize
    /\ Goes(<<group, index>>, "extract")
    /\ main' = "append"
    /\ UNCHANGED <<group, index, len, finished, children, lock, rows>>

\* The loop starts the next thread and only then lists it; it leaves out the last URL.
StartThread ==
    /\ main = "test" /\ group \in Groups /\ (len # 0 \/ ~finished)
    /\ len < MaxThreads /\ index + 1 < SampleSize
    /\ Goes(<<group, index>>, "extract")
    /\ main' = "append"
    /\ UNCHANGED <<group, index, len, finished, children, lock, rows>>

AppendChild ==
    /\ main = "append"
    /\ children' = children \cup {index} /\ index' = index + 1
    /\ main' = "count"
    /\ UNCHANGED <<group, len, finished, lock, thread, rows>>

\* No thread to start: because all have been, or because enough are alive.
PassOver ==
    /\ main = "test" /\ group \in Groups /\ (len # 0 \/ ~finished)
    /\ \/ len < MaxThreads /\ index + 1 >= SampleSize /\ finished' = TRUE
       \/ len >= MaxThreads /\ UNCHANGED finished
    /\ main' = "count"
    /\ UNCHANGED <<group, index, len, children, lock, thread, rows>>

\* A mistake the code could have had: the count within the branch above it.
CountChildrenWithin ==
    /\ main = "count"
    /\ len' = IF len < MaxThreads THEN Cardinality(children) ELSE len
    /\ main' = "test"
    /\ UNCHANGED <<group, index, finished, children, lock, thread, rows>>

\* _len = len(children), without the lock.
CountChildren ==
    /\ main = "count"
    /\ len' = Cardinality(children)
    /\ main' = "test"
    /\ UNCHANGED <<group, index, finished, children, lock, thread, rows>>

\* A mistake the code could have had: it does not wait for the last threads.
WriteGroupEarly ==
    /\ main = "test" /\ group \in Groups /\ finished
    /\ group' = group + 1
    /\ index' = 0 /\ len' = 1 /\ finished' = FALSE
    /\ UNCHANGED <<main, children, lock, thread, rows>>

\* The loop has ended: its file is written and the next one begins.
WriteGroup ==
    /\ main = "test" /\ group \in Groups /\ len = 0 /\ finished
    /\ group' = group + 1
    /\ index' = 0 /\ len' = 1 /\ finished' = FALSE
    /\ UNCHANGED <<main, children, lock, thread, rows>>

-----------------------------------------------------------------------------
(* The wrapper that each thread runs.                                      *)

\* An exception of the extraction ends the thread; its identifier stays in the list.
Extract(t, s) ==
    /\ thread[t] = "extract"
    /\ Goes(t, IF featureExtraction(s) = Raised THEN "failed" ELSE "acquire")
    /\ UNCHANGED <<loop, children, lock, rows>>

Acquire(t) ==
    /\ thread[t] = "acquire" /\ lock = Free
    /\ lock' = t
    /\ Goes(t, "report")
    /\ UNCHANGED <<loop, children, rows>>

\* Within the lock: the row first, so that a thread that is no longer counted has reported...
Report(t) ==
    /\ thread[t] = "report"
    /\ rows' = [rows EXCEPT ![t[1]] = Append(@, t[2])]
    /\ Goes(t, "remove")
    /\ UNCHANGED <<loop, children, lock>>

\* ...then list.remove, which raises when the identifier is not in the list yet: the lock is
\* then never released.
Remove(t) ==
    /\ thread[t] = "remove"
    /\ IF t[2] \in children
       THEN children' = children \ {t[2]} /\ lock' = Free /\ Goes(t, "ended")
       ELSE Goes(t, "failed") /\ UNCHANGED <<children, lock>>
    /\ UNCHANGED <<loop, rows>>

\* One sample of each outcome of an extraction stands for all.
Outcomes == {CHOOSE s \in Samples : featureExtraction(s) = Raised,
             CHOOSE s \in Samples : featureExtraction(s) # Raised}

ThreadStep(t) == Acquire(t) \/ Report(t) \/ Remove(t)
MainStep == StartThread \/ AppendChild \/ PassOver \/ CountChildren \/ WriteGroup

Next == MainStep \/ \E t \in Threads : ThreadStep(t) \/ \E s \in Outcomes : Extract(t, s)

\* Every thread is scheduled; an extraction, whose requests have no timeout, need not end.
Fairness == WF_vars(MainStep) /\ \A t \in Threads : WF_vars(ThreadStep(t))
Spec == Init /\ [][Next]_vars /\ Fairness

-----------------------------------------------------------------------------
(* Properties.                                                             *)

\* A group is written only when each thread that was started for it has reported, exactly
\* once, and nothing else has: although the loop counts without the lock, no thread is still to
\* report.  What is started is every URL but the last, which `index + 1 < n` leaves out: of it
\* there is no row (main.py:33-40, 48-70, 82).
RowsComplete ==
    \A g \in Groups, i \in Ids : group > g =>
        /\ Cardinality({k \in DOMAIN rows[g] : rows[g][k] = i})
             = IF thread[<<g, i>>] = "new" THEN 0 ELSE 1
        /\ thread[<<g, i>>] = "new" <=> i = SampleSize - 1

\* The collection ends, unless from some time on an extraction hangs or a thread has died:
\* the loop misses no thread that ends, also when all max_thread are alive (main.py:48-59).
CollectionEnds == <>(group = 2) \/ <>[](Failed # {} \/ \E t \in Threads : thread[t] = "extract")

\* Of no sample that is met in training does the adapter make another vector than training
\* did for a reason that is not known, nor the same where one of these should make them
\* differ: a guard it was asked for, or something it reads otherwise; and its failure defaults
\* are training's (url_feature_extraction.py:444, legacy_url_ml.py:183).
SkewIsKnown == [][\A t \in Threads, s \in Unexplained : ~Extract(t, s)]_vars
=============================================================================
