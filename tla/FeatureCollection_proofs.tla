----------------------- MODULE FeatureCollection_proofs -----------------------
(***************************************************************************)
(* That a group is written when all of its rows are there, for any number  *)
(* of URLs and of threads.                                                 *)
(*                                                                         *)
(* The loop looks at nothing but the length of a list that its threads     *)
(* change.  That is enough because, of the threads it has started, the     *)
(* list has exactly those that have not ended (ThreadsOK), and between the *)
(* count and its use the list only shrinks (LoopOK).                       *)
(***************************************************************************)
EXTENDS FeatureCollection, FiniteSetTheorems, SequenceTheorems, TLAPS

MainStates == {"test", "append", "count"}
ThreadStates == {"new", "extract", "acquire", "report", "remove", "ended", "failed"}

-----------------------------------------------------------------------------
(* The inductive invariant.                                                *)

LoopOK ==
    /\ main \in MainStates /\ group \in 0..2 /\ finished \in BOOLEAN
    /\ index \in Ids /\ len \in 0..MaxThreads /\ lock \in Threads \cup {Free}
    /\ main = "append" => group \in Groups /\ len < MaxThreads /\ index + 1 < SampleSize
    /\ finished => index = SampleSize - 1
    /\ children \subseteq 0..index - 1
    /\ Cardinality(children) <= IF main = "count" THEN MaxThreads ELSE len

Listed(state) == state \notin {"new", "ended"}

\* Where a thread of the group that is collected is.
Current(i, state) ==
    /\ i < index => state # "new" /\ (i \in children <=> Listed(state))
    /\ i = index => IF main = "append" THEN Listed(state) ELSE state = "new"
    /\ i > index => state = "new"

ThreadsOK ==
    /\ thread \in [Threads -> ThreadStates]
    /\ \A g \in Groups, i \in Ids :
        /\ g < group => thread[<<g, i>>] = IF i < SampleSize - 1 THEN "ended" ELSE "new"
        /\ g = group => Current(i, thread[<<g, i>>])
        /\ g > group => thread[<<g, i>>] = "new"

\* The rows are those of the threads that have reported, each once.
RowsOK ==
    /\ rows \in [Groups -> Seq(Ids)]
    /\ \A g \in Groups :
        /\ \A k \in 1..Len(rows[g]) : thread[<<g, rows[g][k]>>] \in {"remove", "ended", "failed"}
        /\ \A i \in Ids : thread[<<g, i>>] \in {"remove", "ended"} =>
               \E k \in 1..Len(rows[g]) : rows[g][k] = i
        /\ \A j, k \in 1..Len(rows[g]) : rows[g][j] = rows[g][k] => j = k

IInv == LoopOK /\ ThreadsOK /\ RowsOK

-----------------------------------------------------------------------------
(* The loop.                                                               *)

LEMMA Sizes ==
    /\ SampleSize \in Nat \ {0} /\ MaxThreads \in Nat \ {0}
    /\ \A i : i \in Ids <=> i \in Nat /\ i < SampleSize
    /\ Ids \subseteq Nat
BY CollectionBounds DEF Ids

LEMMA ChildrenFinite ==
    ASSUME LoopOK PROVE IsFiniteSet(children) /\ Cardinality(children) \in Nat
<1>1. index - 1 \in Int
    BY Sizes DEF LoopOK
<1>2. IsFiniteSet(0..index - 1)
    BY <1>1, FS_Interval
<1>3. IsFiniteSet(children)
    BY <1>2, FS_Subset DEF LoopOK
<1> QED
    BY <1>3, FS_CardinalityType

\* The steps of a thread.
OfThread(t) == ThreadStep(t) \/ \E s \in Outcomes : Extract(t, s)

\* What a thread's step does to the thread and to the list.
LEMMA ThreadMoves ==
    ASSUME NEW t \in Threads, OfThread(t)
    PROVE  /\ UNCHANGED loop
           /\ \/ /\ thread[t] = "extract" /\ (Goes(t, "failed") \/ Goes(t, "acquire"))
                 /\ UNCHANGED <<children, lock, rows>>
              \/ /\ thread[t] = "acquire" /\ Goes(t, "report") /\ lock' = t
                 /\ UNCHANGED <<children, rows>>
              \/ /\ thread[t] = "report" /\ Goes(t, "remove") /\ UNCHANGED <<children, lock>>
                 /\ rows' = [rows EXCEPT ![t[1]] = Append(@, t[2])]
              \/ /\ thread[t] = "remove" /\ t[2] \in children /\ children' = children \ {t[2]}
                 /\ Goes(t, "ended") /\ lock' = Free /\ UNCHANGED rows
              \/ /\ thread[t] = "remove" /\ t[2] \notin children
                 /\ Goes(t, "failed") /\ UNCHANGED <<children, lock, rows>>
<1>1. CASE \E s \in Outcomes : Extract(t, s)
    <2>1. PICK s \in Outcomes : Extract(t, s)
        BY <1>1
    <2>2. Goes(t, "failed") \/ Goes(t, "acquire")
        BY <2>1 DEF Extract
    <2> QED
        BY <2>1, <2>2 DEF Extract
<1>2. CASE Acquire(t)
    BY <1>2 DEF Acquire
<1>3. CASE Report(t)
    BY <1>3 DEF Report
<1>4. CASE Remove(t)
    BY <1>4 DEF Remove
<1> QED
    BY <1>1, <1>2, <1>3, <1>4 DEF OfThread, ThreadStep

LEMMA LoopStep ==
    ASSUME LoopOK, [Next]_vars PROVE LoopOK'
<1> DEFINE c == Cardinality(children)
<1>c. c \in Nat /\ IsFiniteSet(children)
    BY ChildrenFinite
<1>i. index \in Nat /\ index < SampleSize
    BY Sizes DEF LoopOK
<1>u. CASE UNCHANGED vars
    BY <1>u DEF vars, LoopOK
<1>1. CASE StartThread
    <2>1. /\ main = "test" /\ main' = "append" /\ group \in Groups
          /\ len < MaxThreads /\ index + 1 < SampleSize
          /\ UNCHANGED <<group, index, len, finished, children, lock>>
        BY <1>1 DEF StartThread
    <2> QED
        BY <2>1 DEF LoopOK, MainStates
<1>2. CASE AppendChild
    <2>1. /\ main = "append" /\ main' = "count" /\ children' = children \cup {index}
          /\ index' = index + 1 /\ UNCHANGED <<group, len, finished, lock>>
        BY <1>2 DEF AppendChild
    <2>2. Cardinality(children') <= c + 1
        BY <2>1, <1>c, FS_AddElement
    <2>3. Cardinality(children') \in Nat
        BY <2>1, <1>c, FS_AddElement, FS_CardinalityType
    <2>4. c <= len /\ len < MaxThreads /\ index + 1 < SampleSize /\ ~finished /\ len \in Nat
        BY <2>1, <1>i, Sizes DEF LoopOK
    <2> HIDE DEF c
    <2>5. Cardinality(children') <= MaxThreads
        BY <2>2, <2>3, <2>4, <1>c, Sizes
    <2>6. index' \in Ids /\ children' \subseteq 0..index' - 1
        BY <2>1, <2>4, <1>i, Sizes DEF LoopOK
    <2> QED
        BY <2>1, <2>4, <2>5, <2>6 DEF LoopOK, MainStates
<1>3. CASE PassOver
    <2>1. /\ main = "test" /\ main' = "count"
          /\ UNCHANGED <<group, index, len, children, lock>>
          /\ \/ index + 1 >= SampleSize /\ finished' = TRUE
             \/ finished' = finished
        BY <1>3 DEF PassOver
    <2>2. c <= len /\ len \in Nat /\ len <= MaxThreads
        BY <2>1, Sizes DEF LoopOK
    <2> HIDE DEF c
    <2>3. c <= MaxThreads
        BY <2>2, <1>c, Sizes
    <2>4. finished' \in BOOLEAN /\ (finished' => index = SampleSize - 1)
        <3>1. index + 1 >= SampleSize => index = SampleSize - 1
            BY <1>i, Sizes
        <3>2. finished \in BOOLEAN /\ (finished => index = SampleSize - 1)
            BY DEF LoopOK
        <3>3. CASE finished' = finished
            BY <3>2, <3>3
        <3>4. CASE index + 1 >= SampleSize /\ finished' = TRUE
            BY <3>1, <3>4
        <3> QED
            BY <2>1, <3>3, <3>4
    <2> QED
        BY <2>1, <2>3, <2>4 DEF LoopOK, MainStates, c
<1>4. CASE CountChildren
    <2>1. /\ main = "count" /\ main' = "test" /\ len' = c
          /\ UNCHANGED <<group, index, finished, children, lock>>
        BY <1>4 DEF CountChildren
    <2>2. c <= MaxThreads
        BY <2>1 DEF LoopOK
    <2>3. len' \in 0..MaxThreads
        BY <2>1, <2>2, <1>c, Sizes
    <2>4. Cardinality(children') <= len'
        BY <2>1, <1>c
    <2> QED
        BY <2>1, <2>3, <2>4 DEF LoopOK, MainStates
<1>5. CASE WriteGroup
    <2>1. /\ main = "test" /\ main' = "test" /\ group \in Groups /\ len = 0 /\ group' = group + 1
          /\ index' = 0 /\ len' = 1 /\ finished' = FALSE /\ UNCHANGED <<children, lock>>
        BY <1>5 DEF WriteGroup
    <2>2. c = 0
        BY <2>1, <1>c DEF LoopOK
    <2>3. children = {}
        BY <2>2, <1>c, FS_EmptySet
    <2>4. index' \in Ids /\ len' \in 0..MaxThreads /\ group' \in 0..2
        BY <2>1, Sizes DEF Groups
    <2>5. Cardinality(children') <= 1
        BY <2>1, <2>2
    <2> QED
        BY <2>1, <2>3, <2>4, <2>5 DEF LoopOK, MainStates
<1>6. ASSUME NEW t \in Threads, OfThread(t) PROVE LoopOK'
    <2>1. UNCHANGED loop /\ children' \subseteq children /\ lock' \in Threads \cup {Free}
        BY <1>6, ThreadMoves DEF LoopOK
    <2>2. Cardinality(children') <= c
        BY <2>1, <1>c, FS_Subset
    <2>3. Cardinality(children') \in Nat
        BY <2>1, <1>c, FS_Subset, FS_CardinalityType
    <2> DEFINE most == IF main = "count" THEN MaxThreads ELSE len
    <2>4. most \in Nat /\ c <= most
        BY Sizes DEF LoopOK
    <2> HIDE DEF c, most
    <2>5. Cardinality(children') <= most
        BY <2>2, <2>3, <2>4, <1>c
    <2>6. Cardinality(children') <= IF main' = "count" THEN MaxThreads ELSE len'
        BY <2>1, <2>5 DEF most, loop
    <2> QED
        BY <2>1, <2>6 DEF LoopOK, loop
<1> QED
    BY <1>u, <1>1, <1>2, <1>3, <1>4, <1>5, <1>6 DEF Next, MainStep, OfThread

-----------------------------------------------------------------------------
(* The threads.                                                            *)

LEMMA Moved ==
    ASSUME ThreadsOK, NEW a \in Groups, NEW b \in Ids, NEW where \in ThreadStates,
           Goes(<<a, b>>, where)
    PROVE  /\ thread' \in [Threads -> ThreadStates]
           /\ \A g \in Groups, i \in Ids :
               thread'[<<g, i>>] = IF g = a /\ i = b THEN where ELSE thread[<<g, i>>]
<1>1. <<a, b>> \in Threads /\ thread \in [Threads -> ThreadStates]
    BY DEF Threads, ThreadsOK
<1>2. ASSUME NEW g \in Groups, NEW i \in Ids
      PROVE  thread'[<<g, i>>] = IF g = a /\ i = b THEN where ELSE thread[<<g, i>>]
    <2>1. <<g, i>> \in Threads /\ (<<g, i>> = <<a, b>> <=> g = a /\ i = b)
        BY DEF Threads
    <2> QED
        BY <1>1, <2>1 DEF Goes
<1> QED
    BY <1>1, <1>2 DEF Goes

\* A thread that runs is one of the group that is collected.
LEMMA Running ==
    ASSUME LoopOK, ThreadsOK, NEW a \in Groups, NEW b \in Ids, Listed(thread[<<a, b>>])
    PROVE  a = group /\ b <= index
<1>1. a \in Int /\ group \in Int /\ b \in Int /\ index \in Int
    BY Sizes DEF LoopOK, Groups
<1>2. a = group
    <2>1. ~(a < group) /\ ~(a > group)
        BY DEF ThreadsOK, Listed
    <2> QED
        BY <1>1, <2>1
<1>3. ~(b > index)
    BY <1>2 DEF ThreadsOK, Current, Listed
<1> QED
    BY <1>1, <1>2, <1>3

\* When a group is written, the list is empty and all its threads have ended.
LEMMA GroupDone ==
    ASSUME LoopOK, ThreadsOK, WriteGroup
    PROVE  /\ children = {} /\ index = SampleSize - 1
           /\ \A i \in Ids : thread[<<group, i>>] = IF i < SampleSize - 1 THEN "ended" ELSE "new"
<1>1. main = "test" /\ len = 0 /\ finished /\ group \in Groups
    BY DEF WriteGroup
<1>2. Cardinality(children) = 0
    BY <1>1, ChildrenFinite DEF LoopOK
<1>3. children = {}
    BY <1>2, ChildrenFinite, FS_EmptySet
<1>4. index = SampleSize - 1
    BY <1>1 DEF LoopOK
<1>5. ASSUME NEW i \in Ids
      PROVE  thread[<<group, i>>] = IF i < SampleSize - 1 THEN "ended" ELSE "new"
    <2>1. Current(i, thread[<<group, i>>])
        BY <1>1 DEF ThreadsOK
    <2>2. CASE i < index
        BY <1>3, <1>4, <2>1, <2>2 DEF Current, Listed
    <2>3. CASE i = index
        BY <1>1, <1>4, <2>1, <2>3, Sizes DEF Current
    <2>4. i < index \/ i = index
        BY <1>4, Sizes
    <2> QED
        BY <2>2, <2>3, <2>4
<1> QED
    BY <1>3, <1>4, <1>5

LEMMA ThreadsStep ==
    ASSUME LoopOK, ThreadsOK, [Next]_vars PROVE ThreadsOK'
<1>i. group \in Int /\ index \in Nat /\ (\A g \in Groups : g \in Int) /\ (\A i \in Ids : i \in Int)
    BY Sizes DEF LoopOK, Groups
<1>u. CASE /\ UNCHANGED <<group, index, children, thread>>
           /\ main # "append" /\ main' # "append"
    BY <1>u DEF ThreadsOK, Current
<1>s. CASE UNCHANGED vars
    BY <1>s DEF vars, ThreadsOK, Current
<1>1. CASE StartThread
    <2>1. /\ main = "test" /\ main' = "append" /\ group \in Groups
          /\ UNCHANGED <<group, index, children>> /\ Goes(<<group, index>>, "extract")
        BY <1>1 DEF StartThread
    <2>2. index \in Ids /\ "extract" \in ThreadStates
        BY DEF LoopOK, ThreadStates
    <2>3. /\ thread' \in [Threads -> ThreadStates]
          /\ \A g \in Groups, i \in Ids :
              thread'[<<g, i>>] = IF g = group /\ i = index THEN "extract" ELSE thread[<<g, i>>]
        BY <2>1, <2>2, Moved
    <2>4. ASSUME NEW i \in Ids PROVE Current(i, thread[<<group, i>>])'
        <3>1. Current(i, thread[<<group, i>>])
            BY <2>1 DEF ThreadsOK
        <3>2. CASE i = index
            BY <2>1, <2>3, <3>2, <1>i DEF Current, Listed
        <3>3. CASE i # index
            BY <2>1, <2>3, <3>1, <3>3 DEF Current
        <3> QED
            BY <3>2, <3>3
    <2>5. \A g \in Groups, i \in Ids : g # group => thread'[<<g, i>>] = thread[<<g, i>>]
        BY <2>3
    <2> QED
        BY <2>1, <2>3, <2>4, <2>5, <1>i DEF ThreadsOK
<1>2. CASE AppendChild
    <2>1. /\ main = "append" /\ main' = "count" /\ children' = children \cup {index}
          /\ index' = index + 1 /\ UNCHANGED <<group, thread>> /\ group \in Groups
        BY <1>2 DEF AppendChild, LoopOK
    <2>2. ASSUME NEW i \in Ids PROVE Current(i, thread[<<group, i>>])'
        <3>1. Current(i, thread[<<group, i>>])
            BY <2>1 DEF ThreadsOK
        <3>2. CASE i < index
            BY <2>1, <3>1, <3>2, <1>i DEF Current
        <3>3. CASE i = index
            BY <2>1, <3>1, <3>3, <1>i DEF Current, Listed
        <3>4. CASE i > index
            BY <2>1, <3>1, <3>4, <1>i DEF Current
        <3> QED
            BY <3>2, <3>3, <3>4, <1>i
    <2> QED
        BY <2>1, <2>2 DEF ThreadsOK
<1>3. CASE PassOver
    BY <1>3, <1>u DEF PassOver
<1>4. CASE CountChildren
    BY <1>4, <1>u DEF CountChildren
<1>5. CASE WriteGroup
    <2>1. /\ main' = "test" /\ group \in Groups /\ group' = group + 1
          /\ index' = 0 /\ UNCHANGED <<children, thread>>
        BY <1>5 DEF WriteGroup
    <2>2. /\ children = {}
          /\ \A i \in Ids : thread[<<group, i>>] = IF i < SampleSize - 1 THEN "ended" ELSE "new"
        BY <1>5, GroupDone
    <2>3. ASSUME NEW g \in Groups, NEW i \in Ids, g > group
          PROVE  thread[<<g, i>>] = "new"
        BY <2>3 DEF ThreadsOK
    <2>4. ASSUME NEW g \in Groups, NEW i \in Ids, g = group'
          PROVE  Current(i, thread[<<g, i>>])'
        <3>1. thread[<<g, i>>] = "new"
            BY <2>1, <2>3, <2>4, <1>i
        <3>2. ~(i < 0)
            BY Sizes
        <3> QED
            BY <2>1, <3>1, <3>2 DEF Current
    <2>5. \A g \in Groups : (g < group' => g < group \/ g = group) /\ (g > group' => g > group)
        BY <2>1, <1>i
    <2>6. ASSUME NEW g \in Groups, NEW i \in Ids, g < group'
          PROVE  thread[<<g, i>>] = IF i < SampleSize - 1 THEN "ended" ELSE "new"
        BY <2>2, <2>5, <2>6 DEF ThreadsOK
    <2> QED
        BY <2>1, <2>3, <2>4, <2>5, <2>6 DEF ThreadsOK
<1>6. ASSUME NEW t \in Threads, OfThread(t) PROVE ThreadsOK'
    <2>1. PICK a \in Groups, b \in Ids : t = <<a, b>>
        BY DEF Threads
    <2>2. Listed(thread[<<a, b>>])
        BY <1>6, <2>1, ThreadMoves DEF Listed
    <2>3. a = group /\ b <= index
        BY <2>2, Running
    <2>4. UNCHANGED <<main, group, index>>
        BY <1>6, ThreadMoves DEF loop
    \* It is still listed, or it has been removed from the list.
    <2>5. PICK where \in ThreadStates :
            /\ Goes(<<a, b>>, where)
            /\ \/ where # "new" /\ where # "ended" /\ children' = children
               \/ where = "ended" /\ b \in children /\ children' = children \ {b}
        BY <1>6, <2>1, ThreadMoves DEF ThreadStates
    <2>6. /\ thread' \in [Threads -> ThreadStates]
          /\ \A g \in Groups, i \in Ids :
              thread'[<<g, i>>] = IF g = a /\ i = b THEN where ELSE thread[<<g, i>>]
        BY <2>5, Moved
    <2>7. ASSUME NEW i \in Ids PROVE Current(i, thread[<<group, i>>])'
        <3>1. Current(i, thread[<<group, i>>]) /\ Current(b, thread[<<a, b>>])
            BY <2>3 DEF ThreadsOK
        <3>2. CASE i = b
            <4>1. thread'[<<group, i>>] = where
                BY <2>3, <2>6, <3>2
            <4>2. CASE where = "ended" /\ b \in children /\ children' = children \ {b}
                <5>1. b < index
                    BY <4>2, <1>i DEF LoopOK
                <5> QED
                    BY <2>4, <3>2, <4>1, <4>2, <5>1, <1>i DEF Current, Listed
            <4>3. CASE where # "new" /\ where # "ended" /\ children' = children
                BY <2>2, <2>3, <2>4, <3>1, <3>2, <4>1, <4>3, <1>i DEF Current, Listed
            <4> QED
                BY <2>5, <4>2, <4>3
        <3>3. CASE i # b
            <4>1. thread'[<<group, i>>] = thread[<<group, i>>]
                BY <2>3, <2>6, <3>3
            <4>2. i \in children' <=> i \in children
                BY <2>5, <3>3
            <4> QED
                BY <2>4, <3>1, <4>1, <4>2 DEF Current
        <3> QED
            BY <3>2, <3>3
    <2>8. \A g \in Groups, i \in Ids : g # group => thread'[<<g, i>>] = thread[<<g, i>>]
        BY <2>3, <2>6
    <2> QED
        BY <2>4, <2>6, <2>7, <2>8, <1>i DEF ThreadsOK
<1> QED
    BY <1>s, <1>1, <1>2, <1>3, <1>4, <1>5, <1>6 DEF Next, MainStep, OfThread

-----------------------------------------------------------------------------
(* The rows.                                                               *)

Reported == {"remove", "ended", "failed"}

\* While no row is added, a thread that has reported stays one, and no other becomes one.
LEMMA RowsKept ==
    ASSUME RowsOK, ThreadsOK, UNCHANGED rows, NEW a \in Groups, NEW b \in Ids,
           NEW where \in ThreadStates, Goes(<<a, b>>, where),
           thread[<<a, b>>] \in Reported => where \in Reported,
           where \in {"remove", "ended"} => thread[<<a, b>>] \in {"remove", "ended"}
    PROVE  RowsOK'
<1>1. /\ thread' \in [Threads -> ThreadStates]
      /\ \A g \in Groups, i \in Ids :
          thread'[<<g, i>>] = IF g = a /\ i = b THEN where ELSE thread[<<g, i>>]
    BY Moved
<1>2. \A g \in Groups, i \in Ids :
        /\ thread[<<g, i>>] \in Reported => thread'[<<g, i>>] \in Reported
        /\ thread'[<<g, i>>] \in {"remove", "ended"} => thread[<<g, i>>] \in {"remove", "ended"}
    BY <1>1
<1>3. \A g \in Groups : \A k \in 1..Len(rows[g]) : rows[g][k] \in Ids
    BY DEF RowsOK
<1> QED
    BY <1>2, <1>3 DEF RowsOK, Reported

LEMMA RowAdded ==
    ASSUME RowsOK, ThreadsOK, NEW a \in Groups, NEW b \in Ids, thread[<<a, b>>] = "report",
           Goes(<<a, b>>, "remove"), rows' = [rows EXCEPT ![a] = Append(@, b)]
    PROVE  RowsOK'
<1>1. \A g \in Groups, i \in Ids :
        thread'[<<g, i>>] = IF g = a /\ i = b THEN "remove" ELSE thread[<<g, i>>]
    BY Moved DEF ThreadStates
<1> DEFINE old == rows[a]
           n == Len(old)
           new == Append(old, b)
<1>2. /\ rows \in [Groups -> Seq(Ids)] /\ old \in Seq(Ids) /\ n \in Nat
      /\ \A k \in 1..n : old[k] \in Ids
    BY DEF RowsOK
<1>3. /\ new \in Seq(Ids) /\ Len(new) = n + 1 /\ new[n + 1] = b
      /\ \A k \in 1..n : new[k] = old[k]
    BY <1>2, AppendProperties
<1>4. rows' \in [Groups -> Seq(Ids)] /\ rows'[a] = new
      /\ \A g \in Groups : g # a => rows'[g] = rows[g]
    BY <1>2, <1>3
<1>5. \A k : k \in 1..Len(new) <=> k \in 1..n \/ k = n + 1
    BY <1>2, <1>3
<1>6. /\ \A k \in 1..n : thread[<<a, old[k]>>] \in Reported
      /\ \A i \in Ids : thread[<<a, i>>] \in {"remove", "ended"} => \E k \in 1..n : old[k] = i
      /\ \A j, k \in 1..n : old[j] = old[k] => j = k
    BY DEF RowsOK, Reported
<1>7. \A k \in 1..n : old[k] # b
    BY <1>6 DEF Reported
<1> HIDE DEF new, old, n
<1>8. \A k \in 1..Len(new) : thread'[<<a, new[k]>>] \in Reported
    <2> SUFFICES ASSUME NEW k \in 1..Len(new) PROVE thread'[<<a, new[k]>>] \in Reported
        OBVIOUS
    <2>1. CASE k \in 1..n
        <3>1. thread'[<<a, old[k]>>] = thread[<<a, old[k]>>]
            BY <1>1, <1>2, <1>7, <2>1
        <3> QED
            BY <3>1, <1>3, <1>6, <2>1
    <2>2. CASE k = n + 1
        BY <1>1, <1>3, <2>2 DEF Reported
    <2> QED
        BY <1>5, <2>1, <2>2
<1>9. ASSUME NEW i \in Ids, thread'[<<a, i>>] \in {"remove", "ended"}
      PROVE  \E k \in 1..Len(new) : new[k] = i
    <2>1. CASE i = b
        BY <1>3, <1>5, <2>1
    <2>2. CASE i # b
        <3>1. PICK k \in 1..n : old[k] = i
            BY <1>1, <1>6, <1>9, <2>2
        <3> QED
            BY <1>3, <1>5, <3>1
    <2> QED
        BY <2>1, <2>2
<1>10. ASSUME NEW j \in 1..Len(new), NEW k \in 1..Len(new), new[j] = new[k] PROVE j = k
    BY <1>3, <1>5, <1>6, <1>7, <1>10
<1>11. ASSUME NEW g \in Groups, g # a
       PROVE  /\ \A k \in 1..Len(rows'[g]) : thread'[<<g, rows'[g][k]>>] \in Reported
              /\ \A i \in Ids : thread'[<<g, i>>] \in {"remove", "ended"} =>
                     \E k \in 1..Len(rows'[g]) : rows'[g][k] = i
              /\ \A j, k \in 1..Len(rows'[g]) : rows'[g][j] = rows'[g][k] => j = k
    <2>1. rows'[g] = rows[g] /\ \A k \in 1..Len(rows[g]) : rows[g][k] \in Ids
        BY <1>2, <1>4, <1>11
    <2>2. \A i \in Ids : thread'[<<g, i>>] = thread[<<g, i>>]
        BY <1>1, <1>11
    <2>3. /\ \A k \in 1..Len(rows[g]) : thread[<<g, rows[g][k]>>] \in Reported
          /\ \A i \in Ids : thread[<<g, i>>] \in {"remove", "ended"} =>
                 \E k \in 1..Len(rows[g]) : rows[g][k] = i
          /\ \A j, k \in 1..Len(rows[g]) : rows[g][j] = rows[g][k] => j = k
        BY DEF RowsOK, Reported
    <2>4. \A k \in 1..Len(rows[g]) : thread'[<<g, rows[g][k]>>] \in Reported
        BY <2>1, <2>2, <2>3
    <2>5. \A i \in Ids : thread'[<<g, i>>] \in {"remove", "ended"} =>
              \E k \in 1..Len(rows[g]) : rows[g][k] = i
        BY <2>2, <2>3
    <2> QED
        BY <2>1, <2>3, <2>4, <2>5
<1>12. ASSUME NEW g \in Groups
       PROVE  /\ \A k \in 1..Len(rows'[g]) : thread'[<<g, rows'[g][k]>>] \in Reported
              /\ \A i \in Ids : thread'[<<g, i>>] \in {"remove", "ended"} =>
                     \E k \in 1..Len(rows'[g]) : rows'[g][k] = i
              /\ \A j, k \in 1..Len(rows'[g]) : rows'[g][j] = rows'[g][k] => j = k
    <2>1. CASE g = a
        <3>1. rows'[a] = new
            BY <1>4
        <3>3. \A i \in Ids : thread'[<<a, i>>] \in {"remove", "ended"} =>
                  \E k \in 1..Len(new) : new[k] = i
            BY <1>9
        <3>4. \A j, k \in 1..Len(new) : new[j] = new[k] => j = k
            BY <1>10
        <3>5. /\ \A k \in 1..Len(rows'[a]) : thread'[<<a, rows'[a][k]>>] \in Reported
              /\ \A i \in Ids : thread'[<<a, i>>] \in {"remove", "ended"} =>
                     \E k \in 1..Len(rows'[a]) : rows'[a][k] = i
              /\ \A j, k \in 1..Len(rows'[a]) : rows'[a][j] = rows'[a][k] => j = k
            <4>1. \A k \in 1..Len(rows'[a]) : thread'[<<a, rows'[a][k]>>] \in Reported
                BY <1>8, <3>1
            <4>2. \A i \in Ids : thread'[<<a, i>>] \in {"remove", "ended"} =>
                      \E k \in 1..Len(rows'[a]) : rows'[a][k] = i
                BY <3>1, <3>3, Zenon
            <4>3. \A j, k \in 1..Len(rows'[a]) : rows'[a][j] = rows'[a][k] => j = k
                <5> SUFFICES ASSUME NEW j \in 1..Len(rows'[a]), NEW k \in 1..Len(rows'[a]),
                                    rows'[a][j] = rows'[a][k]
                             PROVE  j = k
                    OBVIOUS
                <5>1. j \in 1..Len(new) /\ k \in 1..Len(new) /\ new[j] = new[k]
                    BY <3>1
                <5> QED
                    BY <5>1, <3>4
            <4> QED
                BY <4>1, <4>2, <4>3
        <3> QED
            BY <2>1, <3>5
    <2>2. CASE g # a
        BY <1>11, <2>2
    <2> QED
        BY <2>1, <2>2
<1> QED
    BY <1>4, <1>12 DEF RowsOK, Reported

LEMMA RowsStep ==
    ASSUME LoopOK, ThreadsOK, RowsOK, [Next]_vars PROVE RowsOK'
<1>u. CASE UNCHANGED <<thread, rows>>
    BY <1>u DEF RowsOK
<1>1. CASE StartThread
    <2>1. Goes(<<group, index>>, "extract") /\ group \in Groups /\ main = "test" /\ UNCHANGED rows
        BY <1>1 DEF StartThread
    <2>2. index \in Ids /\ index \in Int /\ ~(index < index)
        BY Sizes DEF LoopOK
    <2>3. thread[<<group, index>>] = "new"
        BY <2>1, <2>2 DEF ThreadsOK, Current
    <2> QED
        BY <2>1, <2>2, <2>3, RowsKept DEF ThreadStates, Reported
<1>2. ASSUME NEW t \in Threads, OfThread(t) PROVE RowsOK'
    <2>1. PICK a \in Groups, b \in Ids : t = <<a, b>>
        BY DEF Threads
    <2>2. \/ /\ thread[t] = "report" /\ Goes(t, "remove")
             /\ rows' = [rows EXCEPT ![t[1]] = Append(@, t[2])]
          \/ thread[t] = "extract" /\ Goes(t, "failed") /\ UNCHANGED rows
          \/ thread[t] = "extract" /\ Goes(t, "acquire") /\ UNCHANGED rows
          \/ thread[t] = "acquire" /\ Goes(t, "report") /\ UNCHANGED rows
          \/ thread[t] = "remove" /\ Goes(t, "ended") /\ UNCHANGED rows
          \/ thread[t] = "remove" /\ Goes(t, "failed") /\ UNCHANGED rows
        BY <1>2, ThreadMoves
    <2>3. CASE /\ thread[t] = "report" /\ Goes(t, "remove")
               /\ rows' = [rows EXCEPT ![t[1]] = Append(@, t[2])]
        BY <2>1, <2>3, RowAdded
    <2>4. CASE thread[t] = "extract" /\ (Goes(t, "failed") \/ Goes(t, "acquire")) /\ UNCHANGED rows
        BY <2>1, <2>4, RowsKept DEF ThreadStates, Reported
    <2>5. CASE thread[t] = "acquire" /\ Goes(t, "report") /\ UNCHANGED rows
        BY <2>1, <2>5, RowsKept DEF ThreadStates, Reported
    <2>6. CASE thread[t] = "remove" /\ (Goes(t, "ended") \/ Goes(t, "failed")) /\ UNCHANGED rows
        BY <2>1, <2>6, RowsKept DEF ThreadStates, Reported
    <2> QED
        BY <2>2, <2>3, <2>4, <2>5, <2>6
<1>3. CASE AppendChild \/ PassOver \/ CountChildren \/ WriteGroup
    BY <1>3, <1>u DEF AppendChild, PassOver, CountChildren, WriteGroup
<1>4. CASE UNCHANGED vars
    BY <1>4, <1>u DEF vars
<1> QED
    BY <1>1, <1>2, <1>3, <1>4 DEF Next, MainStep, OfThread

-----------------------------------------------------------------------------
(* The theorems about the loop.                                            *)

LEMMA Initially == Init => IInv
<1> SUFFICES ASSUME Init PROVE IInv
    OBVIOUS
<1>1. LoopOK
    <2>1. Cardinality(children) = 0 /\ children = {}
        BY FS_EmptySet DEF Init
    <2>2. index \in Ids /\ len \in 0..MaxThreads /\ group \in 0..2 /\ len = 1
        BY Sizes DEF Init
    <2>3. Cardinality(children) <= IF main = "count" THEN MaxThreads ELSE len
        BY <2>1, <2>2 DEF Init
    <2>4. main = "test" /\ finished = FALSE /\ lock = Free
        BY DEF Init
    <2> QED
        BY <2>1, <2>2, <2>3, <2>4 DEF LoopOK, MainStates
<1>2. ThreadsOK
    <2>1. \A g \in Groups : ~(g < 0)
        BY DEF Groups
    <2>2. \A g \in Groups, i \in Ids : thread[<<g, i>>] = "new"
        BY DEF Init, Threads
    <2>3. \A i \in Ids : ~(i < 0)
        BY Sizes
    <2> QED
        BY <2>1, <2>2, <2>3 DEF Init, ThreadsOK, ThreadStates, Current
<1>3. RowsOK
    <2>1. rows = [g \in Groups |-> <<>>] /\ \A g \in Groups : 1..Len(rows[g]) = {}
        BY DEF Init
    <2>2. \A g \in Groups, i \in Ids : thread[<<g, i>>] = "new"
        BY DEF Init, Threads
    <2> QED
        BY <2>1, <2>2 DEF RowsOK
<1> QED
    BY <1>1, <1>2, <1>3 DEF IInv

\* The invariant the others follow from, for any number of URLs and of threads.
THEOREM InductiveInvariant == Spec => []IInv
<1>1. IInv /\ [Next]_vars => IInv'
    BY LoopStep, ThreadsStep, RowsStep DEF IInv
<1> QED
    BY Initially, <1>1, PTL DEF Spec

\* The variables have the types the code gives them, and however the threads interleave, at
\* most max_thread of them are alive: the list is as long as there are threads, but for the
\* one just started (main.py:48-59).
THEOREM TypeCorrect == Spec => []TypeOK
<1>1. IInv => TypeOK
    <2> SUFFICES ASSUME LoopOK, ThreadsOK, RowsOK PROVE TypeOK
        BY DEF IInv
    <2> DEFINE listed == IF main = "append" THEN children \cup {index} ELSE children
               f == [t \in Alive |-> t[2]]
    <2>1. IsFiniteSet(children) /\ Cardinality(children) \in Nat
        BY ChildrenFinite
    <2>2. Cardinality(children) <= MaxThreads
        <3> DEFINE c == Cardinality(children)
        <3>1. len \in Nat /\ len <= MaxThreads /\ MaxThreads \in Nat
            BY Sizes DEF LoopOK
        <3>2. c <= MaxThreads \/ c <= len
            BY DEF LoopOK
        <3> HIDE DEF c
        <3>3. c \in Nat
            BY <2>1 DEF c
        <3>4. c <= MaxThreads
            BY <3>1, <3>2, <3>3
        <3> QED
            BY <3>4 DEF c
    <2>3. IsFiniteSet(listed) /\ Cardinality(listed) <= MaxThreads
        <3>1. CASE main # "append"
            BY <3>1, <2>1, <2>2
        <3>2. CASE main = "append"
            <4> DEFINE c == Cardinality(children)
            <4>1. c <= len /\ len < MaxThreads /\ len \in Nat /\ MaxThreads \in Nat
                BY <3>2, Sizes DEF LoopOK
            <4>2. /\ IsFiniteSet(listed) /\ Cardinality(listed) \in Nat
                  /\ (Cardinality(listed) = c \/ Cardinality(listed) = c + 1)
                BY <2>1, <3>2, FS_AddElement, FS_CardinalityType
            <4>3. c \in Nat
                BY <2>1
            <4> HIDE DEF c, listed
            <4> QED
                BY <4>1, <4>2, <4>3
        <3> QED
            BY <3>1, <3>2
    <2>4. \A t \in Alive : t \in Threads /\ t[1] = group /\ t[2] \in listed
        <3> SUFFICES ASSUME NEW t \in Alive PROVE t \in Threads /\ t[1] = group /\ t[2] \in listed
            OBVIOUS
        <3>1. PICK a \in Groups, b \in Ids : t = <<a, b>>
            BY DEF Alive, Threads
        <3>2. Listed(thread[<<a, b>>])
            BY <3>1 DEF Alive, Listed
        <3>3. a = group /\ b <= index
            BY <3>2, Running
        <3>4. Current(b, thread[<<a, b>>])
            BY <3>3 DEF ThreadsOK
        <3>5. b < index \/ b = index
            BY <3>3, Sizes DEF LoopOK
        <3>6. ~(b > index)
            BY <3>3, Sizes DEF LoopOK
        <3>7. b \in listed
            BY <3>2, <3>4, <3>5 DEF Current, Listed
        <3> QED
            BY <3>1, <3>3, <3>7 DEF Alive
    <2>5. f \in Injection(Alive, listed)
        <3>1. f \in [Alive -> listed]
            BY <2>4
        <3>2. \A s, t \in Alive : f[s] = f[t] => s = t
            <4> SUFFICES ASSUME NEW s \in Alive, NEW t \in Alive, s[2] = t[2] PROVE s = t
                OBVIOUS
            <4>1. s \in Threads /\ t \in Threads /\ s[1] = t[1]
                BY <2>4
            <4> QED
                BY <4>1 DEF Threads
        <3> QED
            BY <3>1, <3>2 DEF Injection, IsInjective
    <2> HIDE DEF f
    <2>6. Cardinality(Alive) <= Cardinality(listed) /\ IsFiniteSet(Alive)
        BY <2>3, <2>5, FS_Injection
    <2>7. Cardinality(Alive) \in Nat /\ Cardinality(listed) \in Nat
        BY <2>3, <2>6, FS_CardinalityType
    <2> HIDE DEF listed
    <2>8. Cardinality(Alive) <= MaxThreads
        BY <2>3, <2>6, <2>7, Sizes
    <2>9. children \subseteq Ids
        BY Sizes DEF LoopOK
    <2> QED
        BY <2>2, <2>8, <2>9 DEF TypeOK, LoopOK, ThreadsOK, RowsOK, MainStates, ThreadStates
<1> QED
    BY <1>1, InductiveInvariant, PTL

\* However the threads' reports fall between the steps of the loop, a group that is written has
\* exactly one row for each URL of which a thread was started, which is every URL but the last,
\* and none of that one (main.py:33-40, 48-70, 82).
THEOREM WrittenComplete == Spec => []RowsComplete
<1>1. IInv => RowsComplete
    <2> SUFFICES ASSUME LoopOK, ThreadsOK, RowsOK, NEW g \in Groups, NEW i \in Ids, group > g
                 PROVE  /\ Cardinality({k \in DOMAIN rows[g] : rows[g][k] = i})
                             = IF thread[<<g, i>>] = "new" THEN 0 ELSE 1
                        /\ thread[<<g, i>>] = "new" <=> i = SampleSize - 1
        BY DEF IInv, RowsComplete
    <2> DEFINE r == rows[g]
               n == Len(r)
               of == {k \in DOMAIN rows[g] : rows[g][k] = i}
    <2>1. r \in Seq(Ids) /\ n \in Nat /\ DOMAIN r = 1..n /\ r \in [1..n -> Ids]
        BY LenProperties DEF RowsOK
    <2>2. thread[<<g, i>>] = IF i < SampleSize - 1 THEN "ended" ELSE "new"
        BY DEF ThreadsOK, LoopOK, Groups
    <2>3. i < SampleSize - 1 <=> i # SampleSize - 1
        BY Sizes
    <2>4. of = {k \in 1..n : r[k] = i}
        BY <2>1
    <2>5. CASE thread[<<g, i>>] = "new"
        <3>1. \A k \in 1..n : r[k] # i
            BY <2>1, <2>5 DEF RowsOK
        <3>2. of = {}
            BY <2>4, <3>1
        <3> HIDE DEF of
        <3>3. Cardinality(of) = 0
            BY <3>2, FS_EmptySet
        <3> QED
            BY <2>2, <2>3, <2>5, <3>3 DEF of
    <2>6. CASE thread[<<g, i>>] # "new"
        <3>1. PICK k \in 1..n : r[k] = i
            BY <2>2, <2>6 DEF RowsOK
        <3>2. \A j \in 1..n : r[j] = i => j = k
            BY <3>1 DEF RowsOK
        <3>3. of = {k}
            BY <2>4, <3>1, <3>2
        <3> HIDE DEF of
        <3>4. Cardinality(of) = 1
            BY <3>3, FS_Singleton
        <3> QED
            BY <2>2, <2>3, <2>6, <3>4 DEF of
    <2> QED
        BY <2>5, <2>6
<1> QED
    BY <1>1, InductiveInvariant, PTL

-----------------------------------------------------------------------------
(* The two extractions.                                                    *)

Vectors == Seq(Nat)

LEMMA Joined ==
    ASSUME NEW v \in Vectors, NEW w \in Vectors
    PROVE  /\ v \o w \in Vectors /\ Len(v \o w) = Len(v) + Len(w)
           /\ \A i \in 1..Len(v) + Len(w) : (v \o w)[i] = IF i <= Len(v) THEN v[i] ELSE w[i - Len(v)]
<1>1. v \in Seq(Nat) /\ w \in Seq(Nat)
    BY DEF Vectors
<1>2. v \o w \in Seq(Nat)
    BY <1>1, ConcatProperties, Zenon
<1>3. Len(v \o w) = Len(v) + Len(w)
    BY <1>1, ConcatProperties, Zenon
<1>4. \A i \in 1..Len(v) + Len(w) : (v \o w)[i] = IF i <= Len(v) THEN v[i] ELSE w[i - Len(v)]
    BY <1>1, ConcatProperties, Zenon
<1> QED
    BY <1>2, <1>3, <1>4 DEF Vectors

\* The same of two vectors whose lengths are known.
LEMMA JoinedLength ==
    ASSUME NEW v \in Vectors, NEW w \in Vectors, NEW m \in Nat, NEW n \in Nat,
           Len(v) = m, Len(w) = n
    PROVE  /\ v \o w \in Vectors /\ Len(v \o w) = m + n
           /\ \A i \in 1..m + n : (v \o w)[i] = IF i <= m THEN v[i] ELSE w[i - m]
BY Joined

LEMMA SameVector ==
    ASSUME NEW v \in Vectors, NEW w \in Vectors, Len(v) = Len(w),
           \A i \in 1..Len(v) : v[i] = w[i]
    PROVE  v = w
BY SeqEqual, Zenon DEF Vectors

LEMMA OnesTyped ==
    ASSUME NEW n \in Nat
    PROVE  Ones(n) \in Vectors /\ Len(Ones(n)) = n /\ \A i \in 1..n : Ones(n)[i] = 1
BY DEF Ones, Vectors

Alike(v, x) == v \in Vectors /\ x \in Vectors /\ Len(v) = Len(x)

\* Two vectors joined of parts of the same lengths are the same when their parts are.
LEMMA JoinedSame ==
    ASSUME NEW v, NEW w, NEW x, NEW y, Alike(v, x), Alike(w, y)
    PROVE  v \o w = x \o y => v = x /\ w = y
<1> SUFFICES ASSUME v \o w = x \o y PROVE v = x /\ w = y
    OBVIOUS
<1> DEFINE m == Len(v)
           n == Len(w)
           vw == v \o w
<1>1. /\ v \in Vectors /\ w \in Vectors /\ x \in Vectors /\ y \in Vectors
      /\ m = Len(x) /\ n = Len(y) /\ m \in Nat /\ n \in Nat
    BY DEF Alike, Vectors
<1>2. \A i \in 1..m + n : vw[i] = IF i <= m THEN v[i] ELSE w[i - m]
    BY <1>1, Joined, Zenon
<1>3. \A i \in 1..m + n : vw[i] = IF i <= m THEN x[i] ELSE y[i - m]
    <2>1. \A i \in 1..Len(x) + Len(y) : (x \o y)[i] = IF i <= Len(x) THEN x[i] ELSE y[i - Len(x)]
        BY <1>1, Joined, Zenon
    <2> QED
        BY <1>1, <2>1, Zenon
<1> HIDE DEF m, n, vw
<1>4. \A i \in 1..m : v[i] = x[i]
    <2> SUFFICES ASSUME NEW i \in 1..m PROVE v[i] = x[i]
        OBVIOUS
    <2>1. i \in 1..m + n /\ i <= m
        BY <1>1
    <2> QED
        BY <1>2, <1>3, <2>1
<1>5. \A i \in 1..n : w[i] = y[i]
    <2> SUFFICES ASSUME NEW i \in 1..n PROVE w[i] = y[i]
        OBVIOUS
    <2>1. i + m \in 1..m + n /\ ~(i + m <= m) /\ (i + m) - m = i
        BY <1>1
    <2> QED
        BY <1>2, <1>3, <2>1
<1> QED
    BY <1>1, <1>4, <1>5, SameVector DEF m, n

LEMMA Sevens == Ones(3) \o Ones(4) = Ones(7)
<1>1. /\ Ones(3) \in Vectors /\ Len(Ones(3)) = 3 /\ Ones(4) \in Vectors /\ Len(Ones(4)) = 4
      /\ Ones(7) \in Vectors /\ Len(Ones(7)) = 7
    BY OnesTyped
<1>2. 3 \in Nat /\ 4 \in Nat /\ 7 \in Nat /\ 3 + 4 = 7
    OBVIOUS
<1>3. /\ Ones(3) \o Ones(4) \in Vectors /\ Len(Ones(3) \o Ones(4)) = 3 + 4
      /\ \A i \in 1..3 + 4 :
          (Ones(3) \o Ones(4))[i] = IF i <= 3 THEN Ones(3)[i] ELSE Ones(4)[i - 3]
    <2> DEFINE v == Ones(3)
               w == Ones(4)
    <2>1. v \in Vectors /\ Len(v) = 3 /\ w \in Vectors /\ Len(w) = 4
        BY <1>1
    <2> HIDE DEF v, w
    <2>2. /\ v \o w \in Vectors /\ Len(v \o w) = 3 + 4
          /\ \A i \in 1..3 + 4 : (v \o w)[i] = IF i <= 3 THEN v[i] ELSE w[i - 3]
        BY <2>1, <1>2, JoinedLength, Zenon
    <2> QED
        BY <2>2 DEF v, w
<1>4. /\ \A i \in 1..3 : Ones(3)[i] = 1
      /\ \A i \in 1..4 : Ones(4)[i] = 1
      /\ \A i \in 1..7 : Ones(7)[i] = 1
    BY OnesTyped
<1>5. \A i \in 1..7 : (Ones(3) \o Ones(4))[i] = Ones(7)[i]
    <2> SUFFICES ASSUME NEW i \in 1..7 PROVE (Ones(3) \o Ones(4))[i] = 1
        BY <1>4
    <2>1. (Ones(3) \o Ones(4))[i] = IF i <= 3 THEN Ones(3)[i] ELSE Ones(4)[i - 3]
        BY <1>2, <1>3
    <2>2. i <= 3 => i \in 1..3
        OBVIOUS
    <2>3. ~(i <= 3) => i - 3 \in 1..4
        OBVIOUS
    <2>4. CASE i <= 3
        BY <1>4, <2>1, <2>2, <2>4
    <2>5. CASE ~(i <= 3)
        BY <1>4, <2>1, <2>3, <2>5
    <2> QED
        BY <2>4, <2>5
<1> QED
    BY <1>1, <1>2, <1>3, <1>5, SameVector

\* So it is with three parts.
LEMMA ThreeParts ==
    ASSUME NEW l, NEW w, NEW g, NEW a, NEW d, NEW q, Alike(l, a), Alike(w, d), Alike(g, q)
    PROVE  l \o (w \o g) = a \o (d \o q) => l = a /\ w = d /\ g = q
<1>1. Alike(w \o g, d \o q)
    <2>1. /\ w \o g \in Vectors /\ Len(w \o g) = Len(w) + Len(g)
          /\ d \o q \in Vectors /\ Len(d \o q) = Len(d) + Len(q)
        BY Joined, Zenon DEF Alike
    <2> QED
        BY <2>1 DEF Alike
<1>2. l \o (w \o g) = a \o (d \o q) => l = a /\ w \o g = d \o q
    BY <1>1, JoinedSame, Zenon
<1>3. w \o g = d \o q => w = d /\ g = q
    BY JoinedSame, Zenon
<1> QED
    BY <1>2, <1>3

LEMMA NotRaised ==
    ASSUME NEW v, Len(v) # 0 PROVE v # Raised
<1>1. Len(<<>>) = 0
    OBVIOUS
<1> QED
    BY <1>1 DEF Raised

\* The two vectors of an address are the same unless it is one that they read otherwise.
LEMMA AddressPart ==
    ASSUME NEW u \in UrlsOf(Nat, Nat, Int)
    PROVE  /\ AddressFeatures(u) \in Vectors /\ Len(AddressFeatures(u)) = 8
           /\ lexical_features(u) # Raised <=> u.form = "web" /\ u.at # "user"
           /\ lexical_features(u) # Raised =>
                /\ lexical_features(u) \in Vectors /\ Len(lexical_features(u)) = 8
                /\ lexical_features(u) = AddressFeatures(u) <=> ~AddressDrifted(u)
<1> DEFINE a == AddressFeatures(u)
           l == lexical_features(u)
           named == Flag(u.last = "name")
           filled == Flag(u.last # "empty")
           listed == Flag(u.shortener = "listed")
           any == Flag(u.shortener # "none")
<1>1. /\ u.segments \in Nat /\ u.last \in {"empty", "name", "parameters"}
      /\ u.shortener \in {"none", "listed", "otherCase"}
    BY DEF UrlsOf
<1>2. \A b : Flag(b) \in Nat
    BY DEF Flag
<1>3. a = <<Flag(u.form = "address"), Flag(u.at # "none"), Flag(u.length >= TextLength),
            u.segments + named, Flag(u.slashes > 7), Flag(u.token), listed, Flag(u.dash)>>
    BY DEF AddressFeatures, havingIP, haveAtSign, getLength, getDepth, redirection, httpDomain,
           tinyURL, prefixSuffix
<1>4. named \in Nat /\ filled \in Nat /\ listed \in Nat /\ any \in Nat
    BY <1>2
<1>5. /\ u.segments + named = u.segments + filled <=> u.last # "parameters"
      /\ listed = any <=> u.shortener # "otherCase"
    BY <1>1 DEF Flag
<1>6. a \in Vectors /\ Len(a) = 8
    <2> HIDE DEF a, named, filled, listed, any
    <2>1. u.segments + named \in Nat
        BY <1>1, <1>4
    <2> QED
        BY <1>2, <1>3, <1>4, <2>1 DEF Vectors
<1>7. ASSUME u.form = "web", u.at # "user"
      PROVE  l \in Vectors /\ Len(l) = 8 /\ (l = a <=> ~AddressDrifted(u)) /\ l # Raised
    <2>1. l = <<0, Flag(u.at # "none"), Flag(u.length >= TextLength), u.segments + filled,
                Flag(u.slashes > 7), Flag(u.token), any, Flag(u.dash)>>
        BY <1>7 DEF lexical_features
    <2>2. Flag(u.form = "address") = 0
        BY <1>7 DEF Flag
    <2>3. AddressDrifted(u) <=> u.last = "parameters" \/ u.shortener = "otherCase"
        BY <1>7 DEF AddressDrifted
    <2> HIDE DEF a, l, named, filled, listed, any
    <2>4. u.segments + filled \in Nat
        BY <1>1, <1>4
    <2>5. l \in Vectors /\ Len(l) = 8
        BY <1>2, <1>4, <2>1, <2>4 DEF Vectors
    <2>6. l = a <=> u.segments + named = u.segments + filled /\ listed = any
        BY <1>3, <2>1, <2>2
    <2>7. l # Raised
        BY <2>5, NotRaised
    <2> QED
        BY <1>5, <2>3, <2>5, <2>6, <2>7
<1>8. ASSUME ~(u.form = "web" /\ u.at # "user") PROVE l = Raised
    BY <1>8 DEF lexical_features
<1> QED
    BY <1>6, <1>7, <1>8

\* The two vectors of a domain are the same unless its record comes late or has dates that they
\* read otherwise.
LEMMA DomainPart ==
    ASSUME NEW r \in RecordsOf(Int, Int)
    PROVE  /\ whois_features(r) \in Vectors /\ Len(whois_features(r)) = 3
           /\ DomainFeatures(r) # Raised =>
                /\ DomainFeatures(r) \in Vectors /\ Len(DomainFeatures(r)) = 3
                /\ DomainFeatures(r) = <<1, 1, 1>> <=> r.answer # "record"
                /\ DomainFeatures(r) = whois_features(r)
                     <=> ~DatesDrifted(r) /\ ~(r.answer = "record" /\ r.slow)
<1> DEFINE c == r.creation
           e == r.expiration
           d == DomainFeatures(r)
           w == whois_features(r)
           far == Distance(e.day, c.day) < HalfYear
           near == Distance(e.day, 0) >= HalfYear
<1>1. /\ c.form \in DateForms /\ e.form \in DateForms /\ c.day \in Int /\ e.day \in Int
      /\ r.answer \in {"record", "unregistered", "fault"} /\ HalfYear \in Nat
    BY FeatureBounds DEF RecordsOf
<1>2. \A b : Flag(b) \in {0, 1}
    BY DEF Flag
<1>3. \A b1, b2 : <<0, Flag(b1), Flag(b2)>> \in Vectors /\ Len(<<0, Flag(b1), Flag(b2)>>) = 3
    BY <1>2 DEF Vectors
<1>4. <<1, 1, 1>> \in Vectors /\ Len(<<1, 1, 1>>) = 3
    BY DEF Vectors
<1>5. w \in Vectors /\ Len(w) = 3
    BY <1>3, <1>4 DEF whois_features, whois_worker
<1>6. ASSUME d # Raised, r.answer # "record"
      PROVE  d = <<1, 1, 1>> /\ w = <<1, 1, 1>> /\ ~DatesDrifted(r)
    BY <1>1, <1>6 DEF DomainFeatures, whois_features, whois_worker, DatesDrifted
<1>7. ASSUME d # Raised, r.answer = "record"
      PROVE  /\ d \in Vectors /\ Len(d) = 3 /\ d # <<1, 1, 1>>
             /\ d = w <=> ~DatesDrifted(r) /\ ~r.slow
    <2>1. d = <<0, domainAge(r), domainEnd(r)>> /\ ~AgeFails(r) /\ ~EndFails(r)
        BY <1>7 DEF DomainFeatures
    <2>2. d \in Vectors /\ Len(d) = 3 /\ d # <<1, 1, 1>>
        <3>1. PICK b1, b2 : d = <<0, Flag(b1), Flag(b2)>>
            BY <2>1 DEF domainAge, domainEnd
        <3> HIDE DEF d
        <3>2. d \in Vectors /\ Len(d) = 3
            BY <1>3, <3>1
        <3>3. <<0, Flag(b1), Flag(b2)>> # <<1, 1, 1>>
            OBVIOUS
        <3> QED
            BY <3>1, <3>2, <3>3
    <2>3. CASE r.slow \/ ~Readable(c) \/ ~Readable(e)
        <3>1. w = <<1, 1, 1>>
            BY <2>3 DEF whois_features, whois_worker
        <3>2. ~Readable(c) \/ ~Readable(e) => DatesDrifted(r)
            BY <1>7 DEF DatesDrifted
        <3> QED
            BY <2>2, <2>3, <3>1, <3>2
    <2>4. CASE ~r.slow /\ Readable(c) /\ Readable(e)
        <3>1. w = <<0, Flag(far), Flag(near)>>
            BY <1>7, <2>4 DEF whois_features, whois_worker
        <3>2. domainAge(r) = Flag({c.form, e.form} \cap {"stamp", "dates"} # {} \/ far)
            BY <2>4 DEF domainAge, Readable
        <3>3. domainEnd(r) = Flag(e.form \in {"stamp", "dates"} \/ near)
            BY <2>1, <2>4 DEF domainEnd, Readable, EndFails
        <3>4. d = w <=> domainAge(r) = Flag(far) /\ domainEnd(r) = Flag(near)
            BY <2>1, <3>1
        <3>5. domainAge(r) = Flag(far) <=> ~({c.form, e.form} \cap {"stamp", "dates"} # {} /\ ~far)
            BY <3>2 DEF Flag
        <3>6. domainEnd(r) = Flag(near) <=> ~(e.form \in {"stamp", "dates"} /\ ~near)
            BY <3>3 DEF Flag
        <3>7. Distance(e.day, c.day) \in Int /\ Distance(e.day, 0) \in Int
            BY <1>1 DEF Distance
        <3>8. DatesDrifted(r) <=>
                \/ {c.form, e.form} \cap {"stamp", "dates"} # {} /\ ~far
                \/ e.form \in {"stamp", "dates"} /\ ~near
            BY <1>1, <1>7, <2>4, <3>7 DEF DatesDrifted
        <3> QED
            BY <2>2, <2>4, <3>4, <3>5, <3>6, <3>8
    <2> QED
        BY <2>3, <2>4
<1> QED
    BY <1>4, <1>5, <1>6, <1>7

\* The two vectors of a page are the same unless the adapter does not open one that tells.
LEMMA PagePart ==
    ASSUME NEW p \in PagesOf(Nat)
    PROVE  /\ page_features(p) \in Vectors /\ Len(page_features(p)) = 4
           /\ p.reached = "refused" => PageFeatures(p) = <<1, 1, 1, 1>>
           /\ PageFeatures(p) # Raised =>
                /\ PageFeatures(p) \in Vectors /\ Len(PageFeatures(p)) = 4
                /\ PageFeatures(p) = <<1, 1, 1, 1>> <=> ~Telling(p)
                /\ PageFeatures(p) = page_features(p) <=> ~Telling(p) \/ Opened(p)
<1> DEFINE q == PageFeatures(p)
           w == page_features(p)
<1>1. p.reached \in {"page", "refused", "fault"}
    BY DEF PagesOf
<1>2. \A b1, b2, b3, b4 : /\ <<Flag(b1), Flag(b2), Flag(b3), Flag(b4)>> \in Vectors
                          /\ Len(<<Flag(b1), Flag(b2), Flag(b3), Flag(b4)>>) = 4
    BY DEF Flag, Vectors
<1>3. <<1, 1, 1, 1>> \in Vectors /\ Len(<<1, 1, 1, 1>>) = 4
    BY DEF Vectors
<1>4. w \in Vectors /\ Len(w) = 4
    BY <1>2, <1>3 DEF page_features
<1>5. ASSUME p.reached = "refused" PROVE q = <<1, 1, 1, 1>> /\ w = <<1, 1, 1, 1>> /\ ~Telling(p)
    BY <1>5 DEF PageFeatures, iframe, mouseOver, rightClick, forwarding, Flag, page_features,
               Opened, Telling
<1>6. ASSUME p.reached = "page"
      PROVE  /\ q \in Vectors /\ Len(q) = 4 /\ (q = <<1, 1, 1, 1>> <=> ~Telling(p))
             /\ q = w <=> ~Telling(p) \/ Opened(p)
    <2>1. q = <<Flag(~p.marks), Flag(p.mouse), Flag(~p.right), Flag(p.hops > 2)>>
        <3>1. /\ iframe(p) = Flag(~p.marks) /\ mouseOver(p) = Flag(p.mouse)
              /\ rightClick(p) = Flag(~p.right) /\ forwarding(p) = Flag(p.hops > 2)
            BY <1>6 DEF iframe, mouseOver, rightClick, forwarding, Flag
        <3>2. q = <<iframe(p), mouseOver(p), rightClick(p), forwarding(p)>>
            BY <1>6 DEF PageFeatures
        <3> QED
            BY <3>1, <3>2
    <2>2. q \in Vectors /\ Len(q) = 4
        BY <1>2, <2>1
    <2>3. w = IF Opened(p) THEN q ELSE <<1, 1, 1, 1>>
        BY <2>1 DEF page_features
    <2>4. Telling(p) <=> q # <<1, 1, 1, 1>>
        BY <1>6 DEF Telling
    <2> QED
        BY <2>2, <2>3, <2>4
<1>7. p.reached = "fault" => q = Raised
    BY DEF PageFeatures
<1> QED
    BY <1>1, <1>3, <1>4, <1>5, <1>6, <1>7

\* Whatever the URL, the record, the page and the host are, and whatever the limits: where
\* training has a vector, the adapter makes another one exactly for one of the reasons given,
\* and its failure defaults are training's (url_feature_extraction.py:444, legacy_url_ml.py:183).
THEOREM EverySkewIsKnown == \A s \in Inputs : Explained(s)
<1> SUFFICES ASSUME NEW s \in Inputs PROVE Explained(s)
    OBVIOUS
<1> DEFINE u == s.url
           r == s.record
           p == s.page
           a == AddressFeatures(u)
           l == lexical_features(u)
           d == DomainFeatures(r)
           w == whois_features(r)
           q == PageFeatures(p)
           g == page_features(p)
           ones3 == <<1, 1, 1>>
           ones4 == <<1, 1, 1, 1>>
<1>1. /\ u \in UrlsOf(Nat, Nat, Int) /\ r \in RecordsOf(Int, Int) /\ p \in PagesOf(Nat)
      /\ s.host \in Hosts
    BY DEF Inputs
<1>2. /\ a \in Vectors /\ Len(a) = 8
      /\ l # Raised <=> u.form = "web" /\ u.at # "user"
      /\ l # Raised => l \in Vectors /\ Len(l) = 8 /\ (l = a <=> ~AddressDrifted(u))
    BY <1>1, AddressPart
<1>3. /\ w \in Vectors /\ Len(w) = 3
      /\ d # Raised => /\ d \in Vectors /\ Len(d) = 3 /\ (d = ones3 <=> r.answer # "record")
                       /\ d = w <=> ~DatesDrifted(r) /\ ~(r.answer = "record" /\ r.slow)
    BY <1>1, DomainPart
<1>4. /\ g \in Vectors /\ Len(g) = 4
      /\ q # Raised => /\ q \in Vectors /\ Len(q) = 4 /\ (q = ones4 <=> ~Telling(p))
                       /\ q = g <=> ~Telling(p) \/ Opened(p)
    BY <1>1, PagePart
<1>5. /\ ones3 \in Vectors /\ Len(ones3) = 3 /\ ones4 \in Vectors /\ Len(ones4) = 4
      /\ Ones(7) = ones3 \o ones4
    <2>1. ones3 = Ones(3) /\ ones4 = Ones(4)
        BY DEF Ones
    <2> QED
        BY <2>1, OnesTyped, Sevens
<1>7. Telling(p) => p.reached = "page" /\ p.obstacle \in {"none", "inward", "large", "late", "error"}
                    /\ p.hops \in Nat /\ MaxRedirects \in Nat
    BY <1>1, FeatureBounds DEF Telling, PagesOf
<1>8. ASSUME featureExtraction(s) # Raised
      PROVE  extract_legacy_features(s, TRUE) # featureExtraction(s) <=> Guarded(s) \/ Drifted(s)
    <2>1. d # Raised /\ q # Raised /\ featureExtraction(s) = a \o (d \o q)
        BY <1>8 DEF featureExtraction
    <2>2. CASE l = Raised
        <3>1. extract_legacy_features(s, TRUE) = Raised
            BY <2>2 DEF extract_legacy_features
        <3>2. Guarded(s) \/ Drifted(s)
            BY <1>2, <2>2 DEF Guarded, Drifted, AddressDrifted
        <3> QED
            BY <1>8, <3>1, <3>2
    <2>3. CASE l # Raised /\ s.host = "public"
        <3>1. extract_legacy_features(s, TRUE) = l \o (w \o g)
            BY <2>3 DEF extract_legacy_features
        <3>2. l \o (w \o g) = a \o (d \o q) <=> l = a /\ w = d /\ g = q
            <4> HIDE DEF a, l, d, w, q, g, ones3, ones4
            <4>1. Alike(l, a) /\ Alike(w, d) /\ Alike(g, q)
                BY <1>2, <1>3, <1>4, <2>1, <2>3 DEF Alike
            <4> QED
                BY <4>1, ThreeParts, Zenon
        <3>3. ~Opened(p) /\ Telling(p) <=>
                /\ Telling(p)
                /\ \/ p.obstacle \in {"inward", "large", "late"} \/ p.hops > MaxRedirects
                   \/ p.obstacle = "error"
            BY <1>7 DEF Opened
        <3>4. Guarded(s) \/ Drifted(s) <=>
                \/ AddressDrifted(u)
                \/ DatesDrifted(r) \/ (r.answer = "record" /\ r.slow)
                \/ ~Opened(p) /\ Telling(p)
            BY <1>2, <2>3, <3>3 DEF Guarded, Drifted
        <3> HIDE DEF a, l, d, w, q, g
        <3> QED
            BY <1>2, <1>3, <1>4, <2>1, <2>3, <3>1, <3>2, <3>4
    <2>4. CASE l # Raised /\ s.host # "public"
        <3>1. extract_legacy_features(s, TRUE) = l \o (ones3 \o ones4)
            BY <1>5, <2>4 DEF extract_legacy_features
        <3>2. l \o (ones3 \o ones4) = a \o (d \o q) <=> l = a /\ ones3 = d /\ ones4 = q
            <4> HIDE DEF a, l, d, w, q, g, ones3, ones4
            <4>1. Alike(l, a) /\ Alike(ones3, d) /\ Alike(ones4, q)
                BY <1>2, <1>3, <1>4, <1>5, <2>1, <2>4 DEF Alike
            <4> QED
                BY <4>1, ThreeParts, Zenon
        <3>3. s.host = "private" \/ s.host = "unresolved"
            BY <1>1, <2>4 DEF Hosts
        <3>4. DatesDrifted(r) => r.answer = "record"
            BY DEF DatesDrifted
        <3>5. Guarded(s) \/ Drifted(s) <=> AddressDrifted(u) \/ r.answer = "record" \/ Telling(p)
            BY <1>2, <2>4, <3>3, <3>4 DEF Guarded, Drifted
        <3> HIDE DEF a, l, d, w, q, g, ones3, ones4
        <3> QED
            BY <1>2, <1>3, <1>4, <2>1, <2>4, <3>1, <3>2, <3>5
    <2> QED
        BY <2>2, <2>3, <2>4
<1>9. extract_legacy_features(s, FALSE) # featureExtraction(Unanswered(s))
        <=> u.at = "user" \/ AddressDrifted(u)
    <2> DEFINE n == Unanswered(s)
    <2>1. /\ n.url = u /\ n.record.answer = "unregistered" /\ n.page.reached = "refused"
          /\ n.page \in PagesOf(Nat)
        <3>1. /\ n.url = u /\ n.record = [r EXCEPT !.answer = "unregistered"]
              /\ n.page = [p EXCEPT !.reached = "refused"]
            BY DEF Unanswered, Inputs
        <3>2. n.record.answer = "unregistered"
            BY <1>1, <3>1 DEF RecordsOf
        <3>3. n.page.reached = "refused" /\ n.page \in PagesOf(Nat)
            BY <1>1, <3>1 DEF PagesOf
        <3> QED
            BY <3>1, <3>2, <3>3
    <2> HIDE DEF n
    <2>2. DomainFeatures(n.record) = ones3
        BY <2>1 DEF DomainFeatures
    <2>3. PageFeatures(n.page) = ones4
        BY <2>1, PagePart
    <2>4. ones3 # Raised /\ ones4 # Raised
        BY <1>5 DEF Raised
    <2>5. featureExtraction(n) = a \o (ones3 \o ones4)
        BY <2>1, <2>2, <2>3, <2>4 DEF featureExtraction
    <2>7. a \o (ones3 \o ones4) # Raised
        <3> HIDE DEF a, ones3, ones4
        <3>1. ones3 \o ones4 \in Vectors /\ Len(ones3 \o ones4) = Len(ones3) + Len(ones4)
            BY <1>5, Joined, Zenon
        <3>2. Len(a \o (ones3 \o ones4)) = Len(a) + Len(ones3 \o ones4)
            BY <1>2, <3>1, Joined, Zenon
        <3>3. Len(a \o (ones3 \o ones4)) = 15
            BY <1>2, <1>5, <3>1, <3>2
        <3> QED
            BY <3>3, NotRaised
    <2>8. CASE l = Raised
        <3>1. extract_legacy_features(s, FALSE) = Raised
            BY <2>8 DEF extract_legacy_features
        <3>2. u.at = "user" \/ AddressDrifted(u)
            BY <1>2, <2>8 DEF AddressDrifted
        <3> QED
            BY <2>5, <2>7, <3>1, <3>2 DEF n
    <2>9. CASE l # Raised
        <3>1. extract_legacy_features(s, FALSE) = l \o (ones3 \o ones4)
            BY <1>5, <2>9 DEF extract_legacy_features
        <3>2. l \o (ones3 \o ones4) = a \o (ones3 \o ones4) <=> l = a
            <4> HIDE DEF a, l, ones3, ones4
            <4>1. Alike(l, a) /\ Alike(ones3, ones3) /\ Alike(ones4, ones4)
                BY <1>2, <1>5, <2>9 DEF Alike
            <4> QED
                BY <4>1, ThreeParts, Zenon
        <3> HIDE DEF a, l, ones3, ones4
        <3> QED
            BY <1>2, <2>5, <2>9, <3>1, <3>2 DEF n
    <2> QED
        BY <2>8, <2>9
<1> HIDE DEF u
<1> QED
    BY <1>8, <1>9 DEF Explained, u

\* The samples of the runs are among these inputs.
LEMMA SamplesAreInputs == Samples \subseteq Inputs
<1>1. HalfYear \in Nat /\ TextLength \in Nat \ {0} /\ MaxRedirects \in Nat
    BY FeatureBounds
<1>2. Urls \subseteq UrlsOf(Nat, Nat, Int)
    BY <1>1 DEF Urls, UrlsOf
<1>3. Records \subseteq RecordsOf(Int, Int)
    BY <1>1 DEF Records, RecordsOf
<1>4. Pages \subseteq PagesOf(Nat)
    BY <1>1 DEF Pages, PagesOf
<1>5. PlainSample \in Inputs
    <2>1. PlainUrl \in UrlsOf(Nat, Nat, Int)
        BY <1>1 DEF PlainUrl, UrlsOf
    <2>2. PlainRecord \in RecordsOf(Int, Int)
        BY <1>1 DEF PlainRecord, RecordsOf, DateForms
    <2>3. PlainPage \in PagesOf(Nat)
        BY DEF PlainPage, PagesOf
    <2> QED
        BY <2>1, <2>2, <2>3 DEF PlainSample, Inputs, Hosts
<1>6. \A h \in Hosts : [PlainSample EXCEPT !.host = h] \in Inputs
    BY <1>5 DEF Inputs
<1>7. \A s \in Inputs : Unanswered(s) \in Inputs
    BY DEF Unanswered, Inputs, RecordsOf, PagesOf
<1>8. \A s \in Inputs, v \in Urls : [s EXCEPT !.url = v] \in Inputs
    BY <1>2 DEF Inputs
<1>9. \A s \in Inputs, v \in Records : [s EXCEPT !.record = v] \in Inputs
    BY <1>3 DEF Inputs
<1>10. \A s \in Inputs, v \in Pages : [s EXCEPT !.page = v] \in Inputs
    BY <1>4 DEF Inputs
<1>11. \A s \in Inputs :
         [s EXCEPT !.page.reached = IF s.host = "unresolved" THEN "refused" ELSE @] \in Inputs
    BY DEF Inputs, PagesOf
<1> HIDE DEF Inputs
<1> QED
    BY <1>6, <1>7, <1>8, <1>9, <1>10, <1>11 DEF Samples

\* Of no sample that is met in training does the adapter make another vector than training did
\* for a reason that is not known, nor the same where one of these should make them differ
\* (url_feature_extraction.py:444, legacy_url_ml.py:183).
THEOREM AlwaysKnownSkew == Spec => SkewIsKnown
<1>1. Unexplained = {}
    BY EverySkewIsKnown, SamplesAreInputs DEF Unexplained
<1>2. [Next]_vars => [\A t \in Threads, s \in Unexplained : ~Extract(t, s)]_vars
    BY <1>1
<1> QED
    BY <1>2, PTL DEF Spec, SkewIsKnown
===============================================================================
