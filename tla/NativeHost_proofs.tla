-------------------------- MODULE NativeHost_proofs --------------------------
(***************************************************************************)
(* Proofs about NativeHost, for any finite set of hosts, size and number   *)
(* of log files, timeouts, crashes and failing calls.                      *)
(***************************************************************************)
EXTENDS NativeHost, FiniteSetTheorems, TLAPS

-----------------------------------------------------------------------------
(* The inductive invariant.                                                *)

\* A host that is between the creation and the release of the lock made the lock file, as
\* long as no live host's was removed; and only a live host's stall, or a crash, lets
\* another host find a stale one.
LockOK ==
    /\ owner # NoHost => lock
    /\ lock /\ owner = NoHost => crashes > 0
    /\ lock /\ age > StaleAge => stalled \/ crashes > 0
    /\ \A h \in Hosts : pc[h] = "stealing" => stalled \/ crashes > 0
    /\ broken => stalled \/ crashes > 0
    /\ ~broken => \A h \in Hosts : pc[h] \in Holding => owner = h

\* The hosts whose line is still to be written, for which Receive has left room.
Pending == {h \in Hosts : pc[h] \in {"locking", "stealing", "locked", "rotating", "writing"}}
BudgetOK == written + Cardinality(Pending) <= MaxLines

\* The files hold numbers of written lines, in order.
OrderOK ==
    /\ \A i \in 0..RotatedLogs : \A k \in DOMAIN files[i] : files[i][k].number <= written
    /\ \A i, j \in 0..RotatedLogs : \A k \in DOMAIN files[i], l \in DOMAIN files[j] :
        i > j \/ (i = j /\ k < l) => files[i][k].number < files[j][l].number

\* While a host rotates, the log stays full, and the file that the next one becomes is
\* already gone, unless the last rotated file could not be removed.
RotationOK ==
    ~broken => \A h \in Hosts : pc[h] = "rotating" =>
        /\ Len(files[0]) >= MaxLog
        /\ shifting[h] + 1 < RotatedLogs => files[shifting[h] + 1] = <<>>

\* The lines of full files, and how many of those are newer than file i, if no rotation was cut off: the rotation that
\* is under way has moved up those beyond the next place to be filled.
FullFiles(k) == k * MaxLog
Newer(i) == IF \E h \in Hosts : pc[h] = "rotating" /\ i > shifting[h] + 1 THEN i - 2 ELSE i - 1

\* A line of a rotated file is older than the log and than that many full files, but for one
\* for each rotation that was cut off.
AgeOK ==
    ~broken => \A i \in 1..RotatedLogs : \A n \in Numbers(files[i]) :
        written - n >= Len(files[0]) + FullFiles(Newer(i) - interrupted)

IInv == TypeOK /\ LockOK /\ BudgetOK /\ OrderOK /\ RotationOK /\ AgeOK

-----------------------------------------------------------------------------
(* Sets of hosts, and files.                                               *)

\* A host that joins or leaves a set of hosts changes its size by one.
LEMMA HostCount ==
    ASSUME NEW S \in SUBSET Hosts
    PROVE  /\ Cardinality(S) \in Nat
           /\ \A h \in Hosts : Cardinality(S \cup {h}) <= Cardinality(S) + 1
           /\ \A h \in S : Cardinality(S \ {h}) = Cardinality(S) - 1
           /\ \A T \in SUBSET S : Cardinality(T) <= Cardinality(S)
<1>1. IsFiniteSet(S)
    BY HostAssumption, FS_Subset
<1>2. Cardinality(S) \in Nat
    BY <1>1, FS_CardinalityType
<1>3. ASSUME NEW h \in Hosts PROVE Cardinality(S \cup {h}) <= Cardinality(S) + 1
    BY <1>1, <1>2, FS_AddElement
<1>4. ASSUME NEW h \in S PROVE Cardinality(S \ {h}) = Cardinality(S) - 1
    BY <1>1, FS_RemoveElement
<1>5. ASSUME NEW T \in SUBSET S PROVE Cardinality(T) <= Cardinality(S)
    BY <1>1, FS_Subset
<1> QED
    BY <1>2, <1>3, <1>4, <1>5

\* What the files are after a write and after a move.
LEMMA FileFacts ==
    ASSUME TypeOK
    PROVE  /\ \A state \in LineStates :
                /\ Appended(state) \in [0..RotatedLogs -> Seq(Lines)]
                /\ Appended(state)[0] = Append(files[0], Line(written + 1, state))
                /\ \A i \in 1..RotatedLogs : Appended(state)[i] = files[i]
           /\ \A i \in 0..RotatedLogs :
                /\ MovedUp(i) \in [0..RotatedLogs -> Seq(Lines)]
                /\ MovedUp(i)[i] = <<>>
                /\ i < RotatedLogs => MovedUp(i)[i + 1] = files[i]
                /\ \A j \in 0..RotatedLogs \ {i, i + 1} : MovedUp(i)[j] = files[j]
<1>0. RotatedLogs \in Nat \ {0} /\ files \in [0..RotatedLogs -> Seq(Lines)] /\ written \in Nat
    BY LogAssumption DEF TypeOK
<1>1. ASSUME NEW state \in LineStates
      PROVE  /\ Appended(state) \in [0..RotatedLogs -> Seq(Lines)]
             /\ Appended(state)[0] = Append(files[0], Line(written + 1, state))
             /\ \A i \in 1..RotatedLogs : Appended(state)[i] = files[i]
    <2>1. Line(written + 1, state) \in Lines
        BY <1>0 DEF Line, Lines
    <2>2. Append(files[0], Line(written + 1, state)) \in Seq(Lines)
        BY <1>0, <2>1
    <2> QED
        BY <1>0, <2>2 DEF Appended
<1>2. ASSUME NEW i \in 0..RotatedLogs
      PROVE  /\ MovedUp(i) \in [0..RotatedLogs -> Seq(Lines)]
             /\ MovedUp(i)[i] = <<>>
             /\ i < RotatedLogs => MovedUp(i)[i + 1] = files[i]
             /\ \A j \in 0..RotatedLogs \ {i, i + 1} : MovedUp(i)[j] = files[j]
    <2>1. <<>> \in Seq(Lines)
        OBVIOUS
    <2> QED
        BY <1>0, <2>1 DEF MovedUp
<1> QED
    BY <1>1, <1>2

-----------------------------------------------------------------------------
(* Every step preserves each conjunct.                                     *)

\* Every step keeps the types.
LEMMA TypeStep == IInv /\ [Next]_vars => TypeOK'
<1>0. SUFFICES ASSUME IInv, [Next]_vars PROVE TypeOK'
    OBVIOUS
<1>a. TypeOK /\ BudgetOK
    BY <1>0 DEF IInv
<1>b. ASSUME NEW h \in Hosts, h \in Pending PROVE written + 1 <= MaxLines
    <2>1. Pending \in SUBSET Hosts
        BY DEF Pending
    <2>2. Cardinality(Pending \ {h}) \in Nat /\ Cardinality(Pending) \in Nat
        BY <2>1, HostCount
    <2>3. Cardinality(Pending \ {h}) = Cardinality(Pending) - 1
        BY <1>b, <2>1, HostCount
    <2> QED
        BY <1>a, <2>2, <2>3, HostBounds DEF TypeOK, BudgetOK
<1>d. /\ "reading" \in PcStates /\ "locking" \in PcStates /\ "stealing" \in PcStates
      /\ "locked" \in PcStates /\ "rotating" \in PcStates /\ "writing" \in PcStates
      /\ "accepting" \in PcStates /\ "refusing" \in PcStates
    BY DEF PcStates
<1>g. \A h \in Hosts, state \in PcStates : Go(h, state) => pc' \in [Hosts -> PcStates]
    BY <1>a DEF Go, TypeOK
<1>s. ASSUME NEW h \in Hosts, NEW i \in 0..RotatedLogs, shifting' = [shifting EXCEPT ![h] = i]
      PROVE  shifting' \in [Hosts -> 0..RotatedLogs]
    BY <1>a, <1>s DEF TypeOK
<1>f. faults \in 0..MaxFaults /\ (Fault => faults' \in 0..MaxFaults)
    BY <1>a, HostBounds DEF Fault, TypeOK
<1>r. ASSUME NEW h \in Hosts, RemoveLock(h)
      PROVE  /\ lock' \in BOOLEAN /\ broken' \in BOOLEAN
             /\ age' \in 0..StaleAge + 1 /\ owner' \in Hosts \cup {NoHost}
    <2>1. lock' \in BOOLEAN /\ broken' \in BOOLEAN /\ owner' = NoHost /\ age' = 0
        BY <1>r DEF RemoveLock
    <2>2. 0 \in 0..StaleAge + 1
        BY LockAssumption
    <2> QED
        BY <2>1, <2>2
<1>w. ASSUME NEW h \in Hosts, waited' = [waited EXCEPT ![h] = 0]
      PROVE  waited' \in [Hosts -> 0..LockTimeout + 1]
    BY <1>a, <1>w, LockAssumption DEF TypeOK
<1> USE LogAssumption, LockAssumption, HostBounds
    DEF TypeOK, lockFile, disk, failures, losses
<1>1. CASE Tick
    BY <1>a, <1>1 DEF Tick
<1>2. ASSUME NEW h \in Hosts, Receive(h) PROVE TypeOK'
    <2>1. pc' \in [Hosts -> PcStates]
        BY <1>a, <1>d, <1>g, <1>2 DEF Receive
    <2> QED
        BY <1>a, <1>2, <2>1 DEF Receive
<1>3. ASSUME NEW h \in Hosts, CreateLock(h) PROVE TypeOK'
    <2>1. pc' \in [Hosts -> PcStates]
        BY <1>a, <1>d, <1>g, <1>3 DEF CreateLock
    <2>2. waited' \in [Hosts -> 0..LockTimeout + 1]
        BY <1>a, <1>3, <1>w DEF CreateLock
    <2> QED
        BY <1>a, <1>3, <2>1, <2>2 DEF CreateLock
<1>4. ASSUME NEW h \in Hosts, FindStale(h) PROVE TypeOK'
    <2>1. pc' \in [Hosts -> PcStates]
        BY <1>a, <1>d, <1>g, <1>4 DEF FindStale
    <2> QED
        BY <1>a, <1>4, <2>1 DEF FindStale
<1>5. ASSUME NEW h \in Hosts, RemoveStale(h) PROVE TypeOK'
    <2>1. pc' \in [Hosts -> PcStates]
        BY <1>a, <1>d, <1>g, <1>5 DEF RemoveStale
    <2>2. /\ lock' \in BOOLEAN /\ broken' \in BOOLEAN
          /\ age' \in 0..StaleAge + 1 /\ owner' \in Hosts \cup {NoHost}
        BY <1>a, <1>5, <1>r DEF RemoveStale
    <2>3. faults' \in 0..MaxFaults
        BY <1>5, <1>f DEF RemoveStale
    <2> QED
        BY <1>a, <1>5, <2>1, <2>2, <2>3 DEF RemoveStale
<1>6. ASSUME NEW h \in Hosts, GiveUp(h) PROVE TypeOK'
    <2>1. pc' \in [Hosts -> PcStates]
        BY <1>a, <1>d, <1>g, <1>6 DEF GiveUp
    <2>2. waited' \in [Hosts -> 0..LockTimeout + 1]
        BY <1>a, <1>6, <1>w DEF GiveUp
    <2>3. faults' \in 0..MaxFaults
        BY <1>6, <1>f DEF GiveUp
    <2> QED
        BY <1>a, <1>6, <2>1, <2>2, <2>3 DEF GiveUp
<1>7. ASSUME NEW h \in Hosts, CheckSize(h) PROVE TypeOK'
    <2>1. pc' \in [Hosts -> PcStates]
        BY <1>a, <1>d, <1>g, <1>7 DEF CheckSize
    <2>2. \/ shifting' = shifting \/ shifting' = [shifting EXCEPT ![h] = RotatedLogs]
        BY <1>7 DEF CheckSize
    <2>3. RotatedLogs \in 0..RotatedLogs
        OBVIOUS
    <2>4. shifting' \in [Hosts -> 0..RotatedLogs]
        BY <1>a, <1>s, <2>2, <2>3
    <2> QED
        BY <1>a, <1>7, <2>1, <2>4 DEF CheckSize
<1>8. ASSUME NEW h \in Hosts, SizeUnknown(h) PROVE TypeOK'
    <2>1. pc' \in [Hosts -> PcStates]
        BY <1>a, <1>d, <1>g, <1>8 DEF SizeUnknown
    <2>2. faults' \in 0..MaxFaults
        BY <1>8, <1>f DEF SizeUnknown
    <2> QED
        BY <1>a, <1>8, <2>1, <2>2 DEF SizeUnknown
<1>9. ASSUME NEW h \in Hosts, Shift(h) PROVE TypeOK'
    <2>1. pc' \in [Hosts -> PcStates]
        BY <1>a, <1>d, <1>g, <1>9 DEF Shift
    <2>2. \/ shifting' = shifting
          \/ shifting[h] # 0 /\ shifting' = [shifting EXCEPT ![h] = shifting[h] - 1]
        BY <1>9 DEF Shift
    <2>4. shifting[h] # 0 => shifting[h] - 1 \in 0..RotatedLogs
        BY <1>a
    <2>5. shifting' \in [Hosts -> 0..RotatedLogs]
        BY <1>a, <1>s, <2>2, <2>4
    <2>3. files' \in [0..RotatedLogs -> Seq(Lines)]
        BY <1>a, <1>9, FileFacts DEF Shift
    <2> QED
        BY <1>a, <1>9, <2>1, <2>3, <2>5 DEF Shift
<1>10. ASSUME NEW h \in Hosts, RemovalFails(h) PROVE TypeOK'
    <2>1. pc' \in [Hosts -> PcStates]
        BY <1>a, <1>d, <1>g, <1>10 DEF RemovalFails
    <2>2. shifting' \in [Hosts -> 0..RotatedLogs]
        BY <1>a, <1>10, <1>s DEF RemovalFails
    <2>3. faults' \in 0..MaxFaults
        BY <1>10, <1>f DEF RemovalFails
    <2> QED
        BY <1>a, <1>10, <2>1, <2>2, <2>3 DEF RemovalFails
<1>11. ASSUME NEW h \in Hosts, RenameFails(h) PROVE TypeOK'
    <2>1. pc' \in [Hosts -> PcStates]
        BY <1>a, <1>d, <1>g, <1>11 DEF RenameFails
    <2>2. shifting' \in [Hosts -> 0..RotatedLogs]
        BY <1>a, <1>11, <1>s DEF RenameFails
    <2>3. faults' \in 0..MaxFaults
        BY <1>11, <1>f DEF RenameFails
    <2> QED
        BY <1>a, <1>11, <2>1, <2>2, <2>3 DEF RenameFails
<1>c. ASSUME NEW h \in Hosts, pc[h] = "writing", NEW state \in LineStates,
             files' = Appended(state), written' = written + 1
      PROVE  files' \in [0..RotatedLogs -> Seq(Lines)] /\ written' \in 0..MaxLines
    <2>1. h \in Pending
        BY <1>c DEF Pending
    <2> QED
        BY <1>a, <1>b, <1>c, <2>1, FileFacts
<1>12. ASSUME NEW h \in Hosts, Write(h) PROVE TypeOK'
    <2>1. pc' \in [Hosts -> PcStates]
        BY <1>a, <1>d, <1>g, <1>12 DEF Write
    <2>2. files' \in [0..RotatedLogs -> Seq(Lines)] /\ written' \in 0..MaxLines
        BY <1>a, <1>12, <1>c DEF Write, WriteLeaves, LineStates
    <2> QED
        BY <1>a, <1>12, <2>1, <2>2 DEF Write
<1>13. ASSUME NEW h \in Hosts, WriteFails(h) PROVE TypeOK'
    <2>1. pc' \in [Hosts -> PcStates]
        BY <1>a, <1>d, <1>g, <1>13 DEF WriteFails
    <2>2. files' \in [0..RotatedLogs -> Seq(Lines)] /\ written' \in 0..MaxLines
        BY <1>a, <1>13, <1>c DEF WriteFails, WriteLeaves, LineStates
    <2>3. faults' \in 0..MaxFaults
        BY <1>13, <1>f DEF WriteFails
    <2> QED
        BY <1>a, <1>13, <2>1, <2>2, <2>3 DEF WriteFails
<1>14. ASSUME NEW h \in Hosts, Release(h) PROVE TypeOK'
    <2>1. pc' \in [Hosts -> PcStates]
        BY <1>a, <1>d, <1>g, <1>14 DEF Release
    <2> QED
        BY <1>a, <1>14, <1>r, <2>1 DEF Release
<1>15. ASSUME NEW h \in Hosts, Crash(h) PROVE TypeOK'
    <2>1. pc' \in [Hosts -> PcStates]
        BY <1>a, <1>d, <1>g, <1>15 DEF Crash
    <2>2. waited' \in [Hosts -> 0..LockTimeout + 1]
        BY <1>15, <1>w DEF Crash
    <2>3. shifting' \in [Hosts -> 0..RotatedLogs]
        <3>1. 0 \in 0..RotatedLogs
            OBVIOUS
        <3> QED
            BY <1>15, <1>s, <3>1 DEF Crash
    <2>4. files' \in [0..RotatedLogs -> Seq(Lines)] /\ written' \in 0..MaxLines
        BY <1>a, <1>c, <1>15 DEF Crash, WriteLeaves, LineStates
    <2>5. owner' \in Hosts \cup {NoHost}
        BY <1>a, <1>15 DEF Crash
    <2>6. interrupted' \in Nat
        BY <1>a, <1>15 DEF Crash
    <2>7. crashes' \in 0..MaxCrashes
        BY <1>a, <1>15 DEF Crash
    <2> QED
        BY <1>a, <1>15, <2>1, <2>2, <2>3, <2>4, <2>5, <2>6, <2>7 DEF Crash
<1>16. CASE UNCHANGED vars
    BY <1>a, <1>16 DEF vars
<1> QED
    BY <1>0, <1>1, <1>2, <1>3, <1>4, <1>5, <1>6, <1>7, <1>8, <1>9, <1>10, <1>11, <1>12, <1>13,
       <1>14, <1>15, <1>16 DEF Next, LockStep, RotateStep, WriteStep

\* What a host does moves no other host.
LEMMA GoFacts ==
    ASSUME TypeOK, NEW h \in Hosts, NEW state, Go(h, state)
    PROVE  pc'[h] = state /\ \A g \in Hosts \ {h} : pc'[g] = pc[g]
BY DEF TypeOK, Go

\* Every step keeps what is known of the lock file and its maker.
LEMMA LockOKStep == IInv /\ [Next]_vars => LockOK'
<1>0. SUFFICES ASSUME IInv, [Next]_vars PROVE LockOK'
    OBVIOUS
<1>a. TypeOK /\ LockOK
    BY <1>0 DEF IInv
<1>b. crashes \in Nat /\ age \in Nat /\ StaleAge \in Nat /\ (NoHost \notin Hosts)
    BY <1>a, LockAssumption, HostAssumption, HostBounds DEF TypeOK
<1>c. ASSUME NEW h \in Hosts, NEW state, Go(h, state), state \notin Holding \cup {"stealing"},
             UNCHANGED <<lockFile, losses, crashes>>
      PROVE  LockOK'
    BY <1>a, <1>b, <1>c, GoFacts DEF LockOK, lockFile, losses
<1>d. ASSUME NEW h \in Hosts, pc[h] \in Holding, UNCHANGED <<lockFile, losses, crashes>>,
             \/ UNCHANGED pc
             \/ \E state \in Holding : Go(h, state)
      PROVE  LockOK'
    BY <1>a, <1>b, <1>d, GoFacts DEF LockOK, lockFile, losses, Holding
<1> USE DEF failures, Holding, Fault
<1>1. CASE Tick
    <2>1. age' > StaleAge /\ lock /\ owner # NoHost => stalled'
        BY <1>a, <1>1 DEF Tick
    <2> QED
        BY <1>a, <1>b, <1>1, <2>1 DEF Tick, LockOK
<1>2. ASSUME NEW h \in Hosts, Receive(h) PROVE LockOK'
    BY <1>b, <1>c, <1>2 DEF Receive
<1>3. ASSUME NEW h \in Hosts, CreateLock(h) PROVE LockOK'
    <2>1. ~broken => \A g \in Hosts : pc'[g] \in Holding => g = h
        BY <1>a, <1>b, <1>3, GoFacts DEF CreateLock, LockOK
    <2> QED
        BY <1>a, <1>b, <1>3, <2>1, GoFacts DEF CreateLock, LockOK, losses
<1>4. ASSUME NEW h \in Hosts, FindStale(h) PROVE LockOK'
    BY <1>a, <1>b, <1>4, GoFacts DEF FindStale, LockOK, lockFile, losses
<1>5. ASSUME NEW h \in Hosts, RemoveStale(h) PROVE LockOK'
    <2>1. CASE RemoveLock(h)
        <3>1. stalled \/ crashes > 0
            BY <1>a, <1>5 DEF RemoveStale, LockOK
        <3>2. ~broken' => \A g \in Hosts : pc'[g] \notin Holding
            BY <1>a, <1>b, <1>5, <2>1, GoFacts DEF RemoveStale, RemoveLock, LockOK
        <3> QED
            BY <1>a, <1>b, <1>5, <2>1, <3>1, <3>2, GoFacts DEF RemoveStale, RemoveLock, LockOK
    <2>2. CASE UNCHANGED <<lockFile, broken>>
        BY <1>b, <1>c, <1>5, <2>2 DEF RemoveStale, losses
    <2> QED
        BY <1>5, <2>1, <2>2 DEF RemoveStale
<1>6. ASSUME NEW h \in Hosts, GiveUp(h) PROVE LockOK'
    BY <1>b, <1>c, <1>6 DEF GiveUp
<1>7. ASSUME NEW h \in Hosts, CheckSize(h) PROVE LockOK'
    BY <1>d, <1>7 DEF CheckSize
<1>8. ASSUME NEW h \in Hosts, SizeUnknown(h) PROVE LockOK'
    BY <1>d, <1>8 DEF SizeUnknown
<1>9. ASSUME NEW h \in Hosts, Shift(h) PROVE LockOK'
    BY <1>d, <1>9 DEF Shift
<1>10. ASSUME NEW h \in Hosts, RemovalFails(h) PROVE LockOK'
    BY <1>d, <1>10 DEF RemovalFails
<1>11. ASSUME NEW h \in Hosts, RenameFails(h) PROVE LockOK'
    BY <1>d, <1>11 DEF RenameFails
<1>12. ASSUME NEW h \in Hosts, Write(h) PROVE LockOK'
    BY <1>d, <1>12 DEF Write
<1>13. ASSUME NEW h \in Hosts, WriteFails(h) PROVE LockOK'
    BY <1>d, <1>13 DEF WriteFails
<1>14. ASSUME NEW h \in Hosts, Release(h) PROVE LockOK'
    <2>1. ~broken => owner = h /\ \A g \in Hosts : pc[g] \in Holding => g = h
        BY <1>a, <1>14 DEF Release, LockOK
    <2>2. ~broken' => \A g \in Hosts : pc'[g] \notin Holding
        <3>1. ~broken' => ~broken
            BY <1>14 DEF Release, RemoveLock
        <3>2. pc'[h] = "reading" /\ \A g \in Hosts \ {h} : pc'[g] = pc[g]
            BY <1>a, <1>14, GoFacts DEF Release
        <3> QED
            BY <2>1, <3>1, <3>2
    <2>3. broken' => stalled \/ crashes > 0
        BY <1>a, <1>b, <1>14, <2>1 DEF Release, RemoveLock, LockOK
    <2> QED
        BY <1>a, <1>b, <1>14, <2>2, <2>3, GoFacts DEF Release, RemoveLock, LockOK
<1>15. ASSUME NEW h \in Hosts, Crash(h) PROVE LockOK'
    <2>1. crashes' > 0
        BY <1>b, <1>15 DEF Crash
    <2>2. owner' # NoHost => owner' = owner /\ owner # h
        BY <1>15 DEF Crash
    <2>3. \A g \in Hosts : pc'[g] \in Holding => g # h /\ pc[g] \in Holding
        BY <1>a, <1>15, GoFacts DEF Crash
    <2> QED
        BY <1>a, <1>b, <1>15, <2>1, <2>2, <2>3 DEF Crash, LockOK, losses
<1>16. CASE UNCHANGED vars
    BY <1>a, <1>16 DEF vars, LockOK, lockFile, losses
<1> QED
    BY <1>0, <1>1, <1>2, <1>3, <1>4, <1>5, <1>6, <1>7, <1>8, <1>9, <1>10, <1>11, <1>12, <1>13,
       <1>14, <1>15, <1>16 DEF Next, LockStep, RotateStep, WriteStep

\* Every step leaves room for the lines that are still to be written.
LEMMA BudgetStep == IInv /\ [Next]_vars => BudgetOK'
<1>0. SUFFICES ASSUME IInv, [Next]_vars PROVE BudgetOK'
    OBVIOUS
<1>a. TypeOK /\ BudgetOK
    BY <1>0 DEF IInv
<1>b. /\ Pending \in SUBSET Hosts /\ Pending' \in SUBSET Hosts
      /\ written \in Nat /\ MaxLines \in Nat
    BY <1>a, HostBounds DEF Pending, TypeOK
<1>c. ASSUME Pending' \subseteq Pending, written' = written PROVE BudgetOK'
    <2>1. Cardinality(Pending') <= Cardinality(Pending)
        BY <1>b, <1>c, HostCount
    <2>2. Cardinality(Pending') \in Nat /\ Cardinality(Pending) \in Nat
        BY <1>b, HostCount
    <2> QED
        BY <1>a, <1>b, <1>c, <2>1, <2>2 DEF BudgetOK
<1>d. ASSUME NEW h \in Hosts, NEW state, Go(h, state),
             state \notin {"locking", "stealing", "locked", "rotating", "writing"}
      PROVE  Pending' \subseteq Pending \ {h}
    BY <1>a, <1>d, GoFacts DEF Pending
<1>e. ASSUME NEW h \in Hosts, NEW state, Go(h, state), pc[h] # "reading", h \in Pending
      PROVE  Pending' \subseteq Pending
    BY <1>a, <1>e, GoFacts DEF Pending
<1>f. ASSUME NEW h \in Hosts, h \in Pending, Pending' \subseteq Pending \ {h},
             written' \in {written, written + 1}
      PROVE  BudgetOK'
    <2>1. /\ Cardinality(Pending) \in Nat /\ Cardinality(Pending') \in Nat
          /\ Cardinality(Pending \ {h}) = Cardinality(Pending) - 1
        BY <1>b, <1>f, HostCount
    <2>2. Pending \ {h} \in SUBSET Hosts
        BY <1>b
    <2>3. Cardinality(Pending') <= Cardinality(Pending \ {h})
        BY <1>f, <2>2, HostCount
    <2> QED
        BY <1>a, <1>b, <1>f, <2>1, <2>3 DEF BudgetOK
<1>1. CASE Tick
    BY <1>c, <1>1 DEF Tick, disk, Pending
<1>2. ASSUME NEW h \in Hosts, Receive(h) PROVE BudgetOK'
    <2> DEFINE Busy == {g \in Hosts : pc[g] # "reading"}
    <2>1. Pending' \subseteq Pending \cup {h}
        BY <1>a, <1>2, GoFacts DEF Receive, Pending
    <2>2. Busy \in SUBSET Hosts /\ Pending \in SUBSET Busy
        BY DEF Pending
    <2>3. Cardinality(Pending) <= Cardinality(Busy)
        BY <2>2, HostCount
    <2>4. written' = written /\ written + Cardinality(Busy) < MaxLines
        BY <1>2 DEF Receive, disk
    <2>5. Pending \cup {h} \in SUBSET Hosts
        BY <1>b
    <2>6. Cardinality(Pending') <= Cardinality(Pending \cup {h})
        BY <2>1, <2>5, HostCount
    <2>7. Cardinality(Pending \cup {h}) <= Cardinality(Pending) + 1
        BY <1>b, HostCount
    <2>8. /\ Cardinality(Pending) \in Nat /\ Cardinality(Pending') \in Nat
          /\ Cardinality(Busy) \in Nat /\ Cardinality(Pending \cup {h}) \in Nat
        BY <1>b, <2>2, <2>5, HostCount
    <2> HIDE DEF Busy
    <2> QED
        BY <1>b, <2>3, <2>4, <2>6, <2>7, <2>8 DEF BudgetOK
<1>3. ASSUME NEW h \in Hosts, pc[h] \in {"locking", "stealing", "locked", "rotating"},
             written' = written, UNCHANGED pc \/ \E state : Go(h, state)
      PROVE  BudgetOK'
    <2>1. h \in Pending
        BY <1>3 DEF Pending
    <2>2. CASE UNCHANGED pc
        BY <1>3, <1>c, <2>2 DEF Pending
    <2>3. CASE \E state : Go(h, state)
        BY <1>3, <1>c, <1>e, <2>1, <2>3
    <2> QED
        BY <1>3, <2>2, <2>3
<1>4. ASSUME NEW h \in Hosts, LockStep(h) PROVE BudgetOK'
    BY <1>3, <1>4 DEF LockStep, CreateLock, FindStale, RemoveStale, GiveUp, disk
<1>5. ASSUME NEW h \in Hosts, RotateStep(h) PROVE BudgetOK'
    BY <1>3, <1>5
        DEF RotateStep, CheckSize, SizeUnknown, Shift, RemovalFails, RenameFails, disk
<1>6. ASSUME NEW h \in Hosts, Write(h) \/ WriteFails(h) PROVE BudgetOK'
    <2>1. h \in Pending /\ written' \in {written, written + 1}
        BY <1>6 DEF Write, WriteFails, WriteLeaves, disk, Pending
    <2>2. Pending' \subseteq Pending \ {h}
        BY <1>d, <1>6 DEF Write, WriteFails
    <2> QED
        BY <1>f, <2>1, <2>2
<1>7. ASSUME NEW h \in Hosts, Release(h) PROVE BudgetOK'
    <2>1. Pending' \subseteq Pending \ {h}
        BY <1>d, <1>7 DEF Release
    <2> QED
        BY <1>c, <1>7, <2>1 DEF Release, disk
<1>8. ASSUME NEW h \in Hosts, Crash(h) PROVE BudgetOK'
    <2>1. Pending' \subseteq Pending \ {h}
        BY <1>d, <1>8 DEF Crash
    <2>2. CASE pc[h] = "writing"
        <3>1. h \in Pending /\ written' \in {written, written + 1}
            BY <1>8, <2>2 DEF Crash, WriteLeaves, disk, Pending
        <3> QED
            BY <1>f, <2>1, <3>1
    <2>3. CASE pc[h] # "writing"
        BY <1>c, <1>8, <2>1, <2>3 DEF Crash, disk
    <2> QED
        BY <2>2, <2>3
<1>9. CASE UNCHANGED vars
    BY <1>c, <1>9 DEF vars, disk, Pending
<1> QED
    BY <1>0, <1>1, <1>2, <1>4, <1>5, <1>6, <1>7, <1>8, <1>9 DEF Next, WriteStep

\* What the files are after any step: as they were, with one more line, or with one moved.
LEMMA FilesChange ==
    ASSUME [Next]_vars
    PROVE  \/ UNCHANGED disk
           \/ /\ \E h \in Hosts : pc[h] = "writing"
              /\ \E state \in LineStates : files' = Appended(state)
              /\ written' = written + 1
           \/ \E h \in Hosts : /\ Shift(h) /\ files[shifting[h]] # <<>>
                               /\ files' = MovedUp(shifting[h]) /\ written' = written
<1>1. ASSUME NEW h \in Hosts, LockStep(h) \/ Receive(h) \/ Release(h) PROVE UNCHANGED disk
    BY <1>1 DEF LockStep, Receive, Release, CreateLock, FindStale, RemoveStale, GiveUp
<1>2. ASSUME NEW h \in Hosts, Write(h) \/ WriteFails(h) \/ Crash(h)
      PROVE  \/ UNCHANGED disk
             \/ /\ pc[h] = "writing"
                /\ \E state \in LineStates : files' = Appended(state)
                /\ written' = written + 1
    BY <1>2 DEF Write, WriteFails, Crash, WriteLeaves, LineStates
<1>3. ASSUME NEW h \in Hosts, CheckSize(h) \/ SizeUnknown(h) \/ RemovalFails(h) \/ RenameFails(h)
      PROVE  UNCHANGED disk
    BY <1>3 DEF CheckSize, SizeUnknown, RemovalFails, RenameFails
<1>4. ASSUME NEW h \in Hosts, Shift(h)
      PROVE  \/ UNCHANGED disk
             \/ files[shifting[h]] # <<>> /\ files' = MovedUp(shifting[h]) /\ written' = written
    BY <1>4 DEF Shift, disk
<1>5. Tick \/ UNCHANGED vars => UNCHANGED disk
    BY DEF Tick, vars, disk
<1> QED
    BY <1>1, <1>2, <1>3, <1>4, <1>5 DEF Next, RotateStep, WriteStep

\* Every step keeps the lines in order.
LEMMA OrderStep == IInv /\ [Next]_vars => OrderOK'
<1>0. SUFFICES ASSUME IInv, [Next]_vars PROVE OrderOK'
    OBVIOUS
<1>a. /\ TypeOK /\ OrderOK /\ written \in Nat /\ RotatedLogs \in Nat \ {0}
      /\ \A i \in 0..RotatedLogs : /\ files[i] \in Seq(Lines) /\ Len(files[i]) \in Nat
                                   /\ DOMAIN files[i] = 1..Len(files[i])
    BY <1>0, LogAssumption DEF IInv, TypeOK
<1>b. ASSUME NEW i \in 0..RotatedLogs, NEW k \in DOMAIN files[i] PROVE files[i][k].number \in Nat
    <2>1. files[i][k] \in Lines
        BY <1>a
    <2> QED
        BY <2>1 DEF Lines
<1>1. CASE UNCHANGED disk
    BY <1>a, <1>1 DEF OrderOK, disk
<1>2. ASSUME NEW state \in LineStates, files' = Appended(state), written' = written + 1
      PROVE  OrderOK'
    <2>1. /\ \A i \in 1..RotatedLogs : files'[i] = files[i]
          /\ files'[0] = Append(files[0], Line(written + 1, state))
        BY <1>a, <1>2, FileFacts
    <2>2. /\ DOMAIN files'[0] = 1..Len(files[0]) + 1
          /\ \A k \in 1..Len(files[0]) : files'[0][k] = files[0][k]
          /\ files'[0][Len(files[0]) + 1].number = written + 1
        BY <1>a, <2>1 DEF Line
    <2>3. \A i \in 0..RotatedLogs : \A k \in DOMAIN files'[i] :
              \/ k \in DOMAIN files[i] /\ files'[i][k] = files[i][k]
              \/ i = 0 /\ k = Len(files[0]) + 1 /\ files'[i][k].number = written + 1
        <3> TAKE i \in 0..RotatedLogs
        <3>1. CASE i = 0
            BY <1>a, <2>2, <3>1
        <3>2. CASE i # 0
            BY <1>a, <2>1, <3>2
        <3> QED
            BY <3>1, <3>2
    <2> QED
        BY <1>a, <1>b, <1>2, <2>3 DEF OrderOK
<1>3. ASSUME NEW i \in 0..RotatedLogs, files' = MovedUp(i), written' = written
      PROVE  OrderOK'
    <2>1. /\ files'[i] = <<>>
          /\ i < RotatedLogs => files'[i + 1] = files[i]
          /\ \A j \in 0..RotatedLogs \ {i, i + 1} : files'[j] = files[j]
        BY <1>a, <1>3, FileFacts
    <2>2. ASSUME NEW j \in 0..RotatedLogs
          PROVE  \/ files'[j] = <<>>
                 \/ j = i + 1 /\ files'[j] = files[i]
                 \/ j \notin {i, i + 1} /\ files'[j] = files[j]
        BY <1>a, <2>1
    <2>3. \A j \in 0..RotatedLogs : \A k \in DOMAIN files'[j] : files'[j][k].number <= written'
        BY <1>a, <1>3, <2>2 DEF OrderOK
    <2>4. ASSUME NEW j \in 0..RotatedLogs, NEW m \in 0..RotatedLogs,
                 NEW k \in DOMAIN files'[j], NEW l \in DOMAIN files'[m],
                 j > m \/ (j = m /\ k < l)
          PROVE  files'[j][k].number < files'[m][l].number
        <3>1. files'[j] # <<>> /\ files'[m] # <<>>
            OBVIOUS
        <3>2. CASE j = i + 1 /\ m = i + 1
            BY <1>a, <2>2, <2>4, <3>1, <3>2 DEF OrderOK
        <3>3. CASE j = i + 1 /\ m # i + 1
            BY <1>a, <2>2, <2>4, <3>1, <3>3 DEF OrderOK
        <3>4. CASE j # i + 1 /\ m = i + 1
            BY <1>a, <2>2, <2>4, <3>1, <3>4 DEF OrderOK
        <3>5. CASE j # i + 1 /\ m # i + 1
            BY <1>a, <2>2, <2>4, <3>1, <3>5 DEF OrderOK
        <3> QED
            BY <3>2, <3>3, <3>4, <3>5
    <2> QED
        BY <2>3, <2>4 DEF OrderOK
<1> QED
    BY <1>0, <1>a, <1>1, <1>2, <1>3, FilesChange DEF TypeOK

\* A removed lock file stays removed, and an interrupted rotation stays interrupted.
LEMMA LossesGrow ==
    ASSUME [Next]_vars
    PROVE  (broken => broken') /\ interrupted' \in {interrupted, interrupted + 1}
<1>0. \A h \in Hosts : RemoveLock(h) => (broken => broken')
    BY DEF RemoveLock
<1>1. ASSUME NEW h \in Hosts, LockStep(h) \/ Receive(h)
      PROVE  (broken => broken') /\ interrupted' = interrupted
    BY <1>0, <1>1 DEF LockStep, Receive, CreateLock, FindStale, RemoveStale, GiveUp,
                      failures, losses
<1>2. ASSUME NEW h \in Hosts, WriteStep(h)
      PROVE  (broken => broken') /\ interrupted' = interrupted
    BY <1>0, <1>2 DEF WriteStep, Write, WriteFails, Release, failures, losses
<1>3. ASSUME NEW h \in Hosts, RotateStep(h) \/ Crash(h)
      PROVE  (broken => broken') /\ interrupted' \in {interrupted, interrupted + 1}
    BY <1>3 DEF RotateStep, CheckSize, SizeUnknown, Shift, RemovalFails, RenameFails, Crash,
                failures, losses
<1>4. Tick \/ UNCHANGED vars => (broken => broken') /\ interrupted' = interrupted
    BY DEF Tick, vars, failures, losses
<1> QED
    BY <1>1, <1>2, <1>3, <1>4 DEF Next

\* While a host holds its lock, another host's step leaves the files, and what the holder does.
LEMMA OthersStep ==
    ASSUME TypeOK, LockOK, ~broken, NEW h \in Hosts, pc[h] \in Holding,
           NEW g \in Hosts \ {h},
           Receive(g) \/ LockStep(g) \/ RotateStep(g) \/ WriteStep(g) \/ Crash(g)
    PROVE  UNCHANGED <<disk, interrupted>> /\ pc'[h] = pc[h] /\ shifting'[h] = shifting[h]
<1>1. pc[g] \notin Holding
    BY DEF LockOK
<1>2. ~RotateStep(g) /\ ~WriteStep(g)
    BY <1>1 DEF RotateStep, WriteStep, CheckSize, SizeUnknown, Shift, RemovalFails, RenameFails,
                Write, WriteFails, Release, Holding
<1>3. CASE Receive(g) \/ LockStep(g)
    BY <1>3, GoFacts DEF Receive, LockStep, CreateLock, FindStale, RemoveStale, GiveUp, failures
<1>4. CASE Crash(g)
    BY <1>1, <1>4, GoFacts DEF Crash, Holding, TypeOK
<1> QED
    BY <1>2, <1>3, <1>4

\* How a host that rotates after a step came to do so.
LEMMA Rotates ==
    ASSUME TypeOK, LockOK, ~broken, [Next]_vars, NEW h \in Hosts, pc'[h] = "rotating"
    PROVE  \/ CheckSize(h)
           \/ Shift(h) /\ shifting[h] # 0
           \/ RemovalFails(h)
           \/ pc[h] = "rotating" /\ shifting'[h] = shifting[h] /\ UNCHANGED <<disk, interrupted>>
<1>1. CASE Tick \/ UNCHANGED vars
    BY <1>1 DEF Tick, vars, failures
<1>2. ASSUME NEW g \in Hosts \ {h},
             Receive(g) \/ LockStep(g) \/ RotateStep(g) \/ WriteStep(g) \/ Crash(g)
      PROVE  pc[h] = "rotating" /\ shifting'[h] = shifting[h] /\ UNCHANGED <<disk, interrupted>>
    <2>1. pc'[h] = pc[h]
        BY <1>2, GoFacts
            DEF Receive, LockStep, CreateLock, FindStale, RemoveStale, GiveUp, RotateStep,
                CheckSize, SizeUnknown, Shift, RemovalFails, RenameFails, WriteStep, Write,
                WriteFails, Release, Crash
    <2> QED
        BY <1>2, <2>1, OthersStep DEF Holding
<1>3. ASSUME Receive(h) \/ LockStep(h) \/ WriteStep(h) \/ Crash(h) PROVE FALSE
    BY <1>3, GoFacts DEF Receive, LockStep, CreateLock, FindStale, RemoveStale, GiveUp, WriteStep,
                         Write, WriteFails, Release, Crash
<1>4. CASE RotateStep(h)
    <2>1. ~SizeUnknown(h) /\ ~RenameFails(h)
        BY GoFacts DEF SizeUnknown, RenameFails
    <2>2. Shift(h) => shifting[h] # 0
        BY GoFacts DEF Shift
    <2> QED
        BY <1>4, <2>1, <2>2 DEF RotateStep
<1> QED
    BY <1>1, <1>2, <1>3, <1>4 DEF Next

\* How a host that rotated before a step ceased to.
LEMMA RotationEnds ==
    ASSUME TypeOK, LockOK, ~broken, [Next]_vars,
           NEW h \in Hosts, pc[h] = "rotating", pc'[h] # "rotating"
    PROVE  \/ Shift(h) /\ shifting[h] = 0
           \/ UNCHANGED disk /\ interrupted' = interrupted + 1
<1>1. ~(Tick \/ UNCHANGED vars)
    BY DEF Tick, vars
<1>2. ASSUME NEW g \in Hosts \ {h},
             Receive(g) \/ LockStep(g) \/ RotateStep(g) \/ WriteStep(g) \/ Crash(g)
      PROVE  FALSE
    BY <1>2, OthersStep DEF Holding
<1>3. ~Receive(h) /\ ~LockStep(h) /\ ~WriteStep(h) /\ ~CheckSize(h) /\ ~SizeUnknown(h)
    BY DEF Receive, LockStep, CreateLock, FindStale, RemoveStale, GiveUp, WriteStep, Write,
           WriteFails, Release, CheckSize, SizeUnknown
<1>4. ~RemovalFails(h) /\ (Shift(h) => shifting[h] = 0)
    BY DEF RemovalFails, Shift
<1>5. RenameFails(h) \/ Crash(h) => UNCHANGED disk /\ interrupted' = interrupted + 1
    BY DEF RenameFails, Crash
<1> QED
    BY <1>1, <1>2, <1>3, <1>4, <1>5 DEF Next, RotateStep

\* Every step keeps the log full and the next place empty during a rotation.
LEMMA RotationStep == IInv /\ [Next]_vars => RotationOK'
<1>0. SUFFICES ASSUME IInv, [Next]_vars, ~broken', NEW h \in Hosts, pc'[h] = "rotating"
               PROVE  /\ Len(files'[0]) >= MaxLog
                      /\ shifting'[h] + 1 < RotatedLogs => files'[shifting'[h] + 1] = <<>>
    BY DEF RotationOK
<1>a. TypeOK /\ LockOK /\ RotationOK /\ ~broken
    BY <1>0, LossesGrow DEF IInv
<1>b. RotatedLogs \in Nat \ {0} /\ shifting[h] \in 0..RotatedLogs
    BY <1>a, LogAssumption DEF TypeOK
<1>1. CASE CheckSize(h)
    BY <1>0, <1>a, <1>b, <1>1, GoFacts DEF CheckSize, RotationNeeded, disk, TypeOK
<1>2. CASE Shift(h) /\ shifting[h] # 0
    <2>1. Len(files[0]) >= MaxLog /\ shifting'[h] = shifting[h] - 1
        BY <1>a, <1>2 DEF Shift, RotationOK, TypeOK
    <2>2. files'[0] = files[0] /\ files'[shifting[h]] = <<>>
        <3>1. /\ MovedUp(shifting[h])[shifting[h]] = <<>>
              /\ \A j \in 0..RotatedLogs \ {shifting[h], shifting[h] + 1} :
                    MovedUp(shifting[h])[j] = files[j]
            BY <1>a, <1>b, FileFacts
        <3>2. 0 \in 0..RotatedLogs \ {shifting[h], shifting[h] + 1}
            BY <1>b, <1>2
        <3> QED
            BY <1>2, <3>1, <3>2 DEF Shift
    <2> QED
        BY <1>b, <2>1, <2>2
<1>3. CASE RemovalFails(h)
    BY <1>a, <1>b, <1>3 DEF RemovalFails, RotationOK, disk, TypeOK
<1>4. CASE pc[h] = "rotating" /\ shifting'[h] = shifting[h] /\ UNCHANGED <<disk, interrupted>>
    BY <1>a, <1>4 DEF RotationOK, disk
<1> QED
    BY <1>0, <1>a, <1>1, <1>2, <1>3, <1>4, Rotates

\* More full files have more lines.
LEMMA MoreFiles ==
    /\ \A k \in Int : /\ FullFiles(k) \in Int
                      /\ FullFiles(k + 1) = FullFiles(k) + MaxLog
                      /\ k <= 0 => FullFiles(k) <= 0
    /\ \A k, l \in Int : k <= l => FullFiles(k) <= FullFiles(l)
<1>0. MaxLog \in Nat
    BY LogAssumption
<1>1. ASSUME NEW k \in Int
      PROVE  FullFiles(k) \in Int /\ FullFiles(k + 1) = FullFiles(k) + MaxLog
    BY <1>0 DEF FullFiles
<1>2. ASSUME NEW k \in Int, NEW l \in Int, k <= l PROVE FullFiles(k) <= FullFiles(l)
    <2>1. l - k \in Nat
        BY <1>2
    <2>2. (l - k) * MaxLog >= 0 /\ l * MaxLog = k * MaxLog + (l - k) * MaxLog
        BY <1>0, <2>1
    <2>3. k * MaxLog \in Int /\ l * MaxLog \in Int /\ (l - k) * MaxLog \in Int
        BY <1>0
    <2> QED
        BY <2>2, <2>3 DEF FullFiles
<1>3. FullFiles(0) = 0
    BY <1>0 DEF FullFiles
<1>4. \A k \in Int : k <= 0 => FullFiles(k) <= 0
    BY <1>2, <1>3
<1> QED
    BY <1>1, <1>2, <1>4

\* How many full files are newer than file i, by what is rotating.
LEMMA NewerFiles ==
    ASSUME TypeOK, LockOK, ~broken
    PROVE  /\ \A h \in Hosts : pc[h] = "rotating" =>
                \A i \in 1..RotatedLogs :
                    Newer(i) = IF i > shifting[h] + 1 THEN i - 2 ELSE i - 1
           /\ (\A h \in Hosts : pc[h] # "rotating") =>
                \A i \in 1..RotatedLogs : Newer(i) = i - 1
<1>1. \A g, h \in Hosts : pc[g] = "rotating" /\ pc[h] = "rotating" => g = h
    BY DEF LockOK, Holding
<1> QED
    BY <1>1 DEF Newer

\* Every step keeps the lines of the rotated files as old as they have to be.
LEMMA AgeStep == IInv /\ [Next]_vars => AgeOK'
<1>0. SUFFICES ASSUME IInv, [Next]_vars, ~broken',
                      NEW i \in 1..RotatedLogs, NEW n \in Numbers(files'[i])
               PROVE  written' - n >= Len(files'[0]) + FullFiles(Newer(i)' - interrupted')
    BY DEF AgeOK
<1>a. /\ TypeOK /\ LockOK /\ OrderOK /\ RotationOK /\ AgeOK /\ ~broken
      /\ TypeOK' /\ LockOK'
    BY <1>0, LossesGrow, TypeStep, LockOKStep DEF IInv
<1>b. /\ RotatedLogs \in Nat \ {0} /\ MaxLog \in Nat \ {0}
      /\ written \in Nat /\ written' \in Nat /\ interrupted \in Nat /\ interrupted' \in Nat
      /\ files[0] \in Seq(Lines) /\ Len(files[0]) \in Nat
      /\ files'[0] \in Seq(Lines) /\ Len(files'[0]) \in Nat
    <2>1. files[0] \in Seq(Lines) /\ files'[0] \in Seq(Lines)
        BY <1>a, LogAssumption DEF TypeOK
    <2>2. Len(files[0]) \in Nat /\ Len(files'[0]) \in Nat
        BY <2>1
    <2>3. written \in Nat /\ written' \in Nat /\ interrupted \in Nat /\ interrupted' \in Nat
        BY <1>a, HostBounds DEF TypeOK
    <2> QED
        BY <2>1, <2>2, <2>3, LogAssumption
<1>c. \A j \in 0..RotatedLogs : \A x \in Numbers(files[j]) : x \in Nat /\ x <= written
    <2> TAKE j \in 0..RotatedLogs
    <2> TAKE x \in Numbers(files[j])
    <2>1. PICK k \in DOMAIN files[j] : x = files[j][k].number
        BY DEF Numbers
    <2>2. files[j] \in Seq(Lines)
        BY <1>a DEF TypeOK
    <2>3. files[j][k] \in Lines
        BY <2>2
    <2> QED
        BY <1>a, <2>1, <2>3 DEF OrderOK, Lines
<1>d. \A j \in 1..RotatedLogs : \A x \in Numbers(files[j]) :
          written - x >= Len(files[0]) + FullFiles(Newer(j) - interrupted)
    BY <1>a DEF AgeOK
<1>1. CASE \E h \in Hosts : pc'[h] = "rotating"
    <2>1. PICK h \in Hosts : pc'[h] = "rotating"
        BY <1>1
    <2>2. Newer(i)' = IF i > shifting'[h] + 1 THEN i - 2 ELSE i - 1
        <3>1. \A g, f \in Hosts : pc'[g] = "rotating" /\ pc'[f] = "rotating" => g = f
            BY <1>0, <1>a DEF LockOK, Holding
        <3> QED
            BY <2>1, <3>1 DEF Newer
    <2>3. shifting[h] \in 0..RotatedLogs /\ shifting'[h] \in 0..RotatedLogs
        BY <1>a DEF TypeOK
    <2>4. pc[h] = "rotating" => Newer(i) = IF i > shifting[h] + 1 THEN i - 2 ELSE i - 1
        BY <1>a, NewerFiles
    <2>5. CASE CheckSize(h)
        <3>1. /\ pc[h] = "locked" /\ shifting' = [shifting EXCEPT ![h] = RotatedLogs]
              /\ UNCHANGED <<disk, failures>>
            BY <1>a, <2>1, <2>5, GoFacts DEF CheckSize
        <3>2. \A g \in Hosts : pc[g] # "rotating"
            BY <1>a, <3>1 DEF LockOK, Holding
        <3>3. Newer(i) = i - 1
            BY <1>a, <3>2, NewerFiles
        <3>4. shifting'[h] = RotatedLogs
            BY <1>a, <3>1 DEF TypeOK
        <3>5. Newer(i)' = i - 1
            BY <1>b, <2>2, <3>4
        <3> QED
            BY <1>0, <1>d, <3>1, <3>3, <3>5 DEF disk, failures
    <2>6. CASE Shift(h) /\ shifting[h] # 0
        <3> DEFINE s == shifting[h]
        <3>1. /\ pc[h] = "rotating" /\ shifting'[h] = s - 1
              /\ written' = written /\ interrupted' = interrupted
              /\ files' = IF files[s] = <<>> THEN files ELSE MovedUp(s)
            BY <1>a, <2>6 DEF Shift, failures, TypeOK
        <3>2. /\ MovedUp(s)[s] = <<>>
              /\ s < RotatedLogs => MovedUp(s)[s + 1] = files[s]
              /\ \A j \in 0..RotatedLogs \ {s, s + 1} : MovedUp(s)[j] = files[j]
            BY <1>a, <2>3, FileFacts
        <3>3. files'[0] = files[0] /\ files'[s] = <<>>
            BY <1>b, <2>3, <2>6, <3>1, <3>2
        <3>4. i # s
            BY <1>0, <3>3 DEF Numbers
        <3>5. CASE i = s + 1 /\ files[s] # <<>>
            <4>1. s \in 1..RotatedLogs /\ s < RotatedLogs
                BY <1>b, <2>3, <2>6, <3>5
            <4>3. n \in Numbers(files[s])
                BY <1>0, <3>1, <3>2, <3>5, <4>1
            <4>2. Newer(s) = s - 1 /\ Newer(i)' = s - 1
                BY <1>a, <2>2, <2>3, <3>1, <3>5, <4>1, NewerFiles
            <4> QED
                BY <1>d, <3>1, <3>3, <4>1, <4>2, <4>3
        <3>6. CASE i # s + 1 \/ files[s] = <<>>
            <4>1. n \in Numbers(files[i])
                BY <1>0, <3>1, <3>2, <3>4, <3>6
            <4>2. Newer(i)' \in Int /\ Newer(i) \in Int /\ Newer(i)' <= Newer(i)
                BY <2>2, <2>3, <2>4, <3>1
            <4>5. /\ Newer(i)' - interrupted \in Int /\ Newer(i) - interrupted \in Int
                  /\ Newer(i)' - interrupted <= Newer(i) - interrupted
                BY <1>b, <4>2
            <4>3. /\ FullFiles(Newer(i)' - interrupted) <= FullFiles(Newer(i) - interrupted)
                  /\ FullFiles(Newer(i)' - interrupted) \in Int
                  /\ FullFiles(Newer(i) - interrupted) \in Int
                BY <4>5, MoreFiles
            <4>4. n \in Nat /\ written - n >= Len(files[0]) + FullFiles(Newer(i) - interrupted)
                BY <1>c, <1>d, <4>1
            <4> QED
                BY <1>b, <3>1, <3>3, <4>3, <4>4
        <3> QED
            BY <3>5, <3>6
    <2>7. CASE RemovalFails(h)
        <3>1. /\ pc[h] = "rotating" /\ shifting[h] = RotatedLogs /\ shifting'[h] = RotatedLogs - 1
              /\ UNCHANGED <<disk, interrupted>>
            BY <1>a, <2>7 DEF RemovalFails, TypeOK
        <3>2. Newer(i) = i - 1 /\ Newer(i)' = i - 1
            BY <1>b, <2>2, <2>4, <3>1
        <3> QED
            BY <1>0, <1>d, <3>1, <3>2 DEF disk
    <2>8. CASE pc[h] = "rotating" /\ shifting'[h] = shifting[h] /\ UNCHANGED <<disk, interrupted>>
        <3>1. Newer(i)' = Newer(i)
            BY <2>2, <2>4, <2>8
        <3> QED
            BY <1>0, <1>d, <2>8, <3>1 DEF disk
    <2> QED
        BY <1>0, <1>a, <2>1, <2>5, <2>6, <2>7, <2>8, Rotates
<1>2. CASE \A h \in Hosts : pc'[h] # "rotating"
    <2>1. Newer(i)' = i - 1
        BY <1>2 DEF Newer
    <2>2. CASE \A h \in Hosts : pc[h] # "rotating"
        <3>1. Newer(i) = i - 1
            BY <2>2 DEF Newer
        <3>2. \A h \in Hosts : ~Shift(h)
            BY <2>2 DEF Shift
        <3>3. \/ UNCHANGED disk
              \/ /\ \E state \in LineStates : files' = Appended(state)
                 /\ written' = written + 1
            BY <1>0, <3>2, FilesChange
        <3>4. /\ files'[i] = files[i]
              /\ written' - Len(files'[0]) = written - Len(files[0])
            <4>1. CASE UNCHANGED disk
                BY <4>1 DEF disk
            <4>2. ASSUME NEW state \in LineStates, files' = Appended(state), written' = written + 1
                  PROVE  /\ files'[i] = files[i]
                         /\ written' - Len(files'[0]) = written - Len(files[0])
                <5>1. /\ files'[0] = Append(files[0], Line(written + 1, state))
                      /\ files'[i] = files[i]
                    BY <1>a, <4>2, FileFacts
                <5>2. Len(files'[0]) = Len(files[0]) + 1
                    BY <1>b, <5>1
                <5>3. written' - Len(files'[0]) = written - Len(files[0])
                    <6> HIDE DEF Appended
                    <6> DEFINE w == written
                               v == written'
                               a == Len(files[0])
                               b == Len(files'[0])
                    <6>1. w \in Nat /\ a \in Nat /\ b = a + 1 /\ v = w + 1
                        BY <1>b, <4>2, <5>2
                    <6> HIDE DEF w, v, a, b
                    <6>2. v - b = w - a
                        BY <6>1
                    <6> QED
                        BY <6>2 DEF w, v, a, b
                <5> QED
                    BY <5>1, <5>3
            <4> QED
                BY <3>3, <4>1, <4>2
        <3>5. n \in Nat /\ written - n >= Len(files[0]) + FullFiles(i - 1 - interrupted)
            BY <1>0, <1>c, <1>d, <3>1, <3>4
        <3>6. interrupted' \in {interrupted, interrupted + 1}
            BY <1>0, LossesGrow
        <3>8. /\ i - 1 - interrupted' \in Int /\ i - 1 - interrupted \in Int
              /\ i - 1 - interrupted' <= i - 1 - interrupted
            <4> DEFINE x == interrupted
                       y == interrupted'
            <4>1. i \in Int /\ x \in Nat /\ y \in {x, x + 1}
                BY <1>b, <3>6
            <4> HIDE DEF x, y
            <4>2. i - 1 - y \in Int /\ i - 1 - x \in Int /\ i - 1 - y <= i - 1 - x
                BY <4>1
            <4> QED
                BY <4>2 DEF x, y
        <3>7. /\ FullFiles(i - 1 - interrupted') <= FullFiles(i - 1 - interrupted)
              /\ FullFiles(i - 1 - interrupted') \in Int /\ FullFiles(i - 1 - interrupted) \in Int
            BY <3>8, MoreFiles
        <3> DEFINE x == FullFiles(i - 1 - interrupted)
                   y == FullFiles(i - 1 - interrupted')
                   w == written
                   v == written'
                   a == Len(files[0])
                   b == Len(files'[0])
        <3>9. /\ x \in Int /\ y \in Int /\ y <= x
              /\ w \in Nat /\ v \in Nat /\ a \in Nat /\ b \in Nat /\ n \in Nat
              /\ v - b = w - a /\ w - n >= a + x
            BY <1>b, <3>4, <3>5, <3>7
        <3> HIDE DEF x, y, w, v, a, b
        <3>10. v - n >= b + y
            BY <3>9
        <3> QED
            BY <2>1, <3>10 DEF x, y, v, b
    <2>3. ASSUME NEW h \in Hosts, pc[h] = "rotating"
          PROVE  written' - n >= Len(files'[0]) + FullFiles(Newer(i)' - interrupted')
        <3> DEFINE bound(k) == FullFiles(k - interrupted)
        <3>1. shifting[h] \in 0..RotatedLogs /\ Len(files[0]) >= MaxLog
            BY <1>a, <2>3 DEF TypeOK, RotationOK
        <3>2. \A j \in 1..RotatedLogs : Newer(j) \in {j - 2, j - 1}
            BY <1>a, <2>3, NewerFiles
        <3>3. /\ bound(i - 2) \in Int /\ bound(i - 1) = bound(i - 2) + MaxLog
              /\ FullFiles(i - 1 - (interrupted + 1)) = bound(i - 2)
            <4>1. i - 2 - interrupted \in Int /\ i - 1 - (interrupted + 1) = i - 2 - interrupted
                  /\ (i - 2 - interrupted) + 1 = i - 1 - interrupted
                BY <1>b
            <4> QED
                BY <4>1, MoreFiles
        <3>4. ASSUME n \in Numbers(files[i]) PROVE n \in Nat /\ written - n >= Len(files[0]) + bound(i - 2)
            <4>1. n \in Nat /\ written - n >= Len(files[0]) + bound(Newer(i))
                BY <1>c, <1>d, <3>4
            <4> HIDE DEF bound
            <4> QED
                BY <1>b, <3>2, <3>3, <4>1
        <3>5. CASE UNCHANGED disk /\ interrupted' = interrupted + 1
            <4>1. n \in Nat /\ written - n >= Len(files[0]) + bound(i - 2)
                BY <1>0, <3>4, <3>5 DEF disk
            <4> QED
                BY <1>b, <2>1, <3>3, <3>5, <4>1 DEF disk
        <3>6. CASE Shift(h) /\ shifting[h] = 0
            <4>1. /\ files' = MovedUp(0) /\ written' = written /\ interrupted' = interrupted
                BY <3>6 DEF Shift, failures
            <4>2. /\ files'[0] = <<>> /\ files'[1] = files[0]
                  /\ \A j \in 2..RotatedLogs : files'[j] = files[j]
                <5>1. /\ MovedUp(0)[0] = <<>>
                      /\ 0 < RotatedLogs => MovedUp(0)[0 + 1] = files[0]
                      /\ \A j \in 0..RotatedLogs \ {0, 0 + 1} : MovedUp(0)[j] = files[j]
                    <6>1. 0 \in 0..RotatedLogs
                        BY <1>b
                    <6> QED
                        BY <1>a, <6>1, FileFacts
                <5> QED
                    BY <1>b, <4>1, <5>1
            <4>3. CASE i = 1
                <5>1. n \in Nat /\ n <= written
                    BY <1>0, <1>b, <1>c, <4>2, <4>3
                <5>2. FullFiles(1 - 1 - interrupted) <= 0
                    BY <1>b, MoreFiles
                <5>3. FullFiles(1 - 1 - interrupted) \in Int
                    BY <1>b, MoreFiles
                <5> QED
                    BY <1>b, <2>1, <4>1, <4>2, <4>3, <5>1, <5>2, <5>3
            <4>4. CASE i # 1
                <5>1. n \in Nat /\ written - n >= Len(files[0]) + bound(i - 2)
                    BY <1>0, <3>4, <4>2, <4>4
                <5>2. written' - n >= bound(i - 1) /\ Len(files'[0]) = 0
                    BY <1>b, <3>1, <3>3, <4>1, <4>2, <5>1
                <5> QED
                    BY <1>b, <2>1, <3>3, <4>1, <5>2
            <4> QED
                BY <4>3, <4>4
        <3> QED
            BY <1>0, <1>2, <1>a, <2>3, <3>5, <3>6, RotationEnds
    <2> QED
        BY <2>2, <2>3
<1> QED
    BY <1>1, <1>2

\* A line that a step removes is one of the last rotated file.
LEMMA LostLines ==
    ASSUME IInv, [Next]_vars, ~broken, NEW n \in Kept \ Kept'
    PROVE  /\ n \in Numbers(files[RotatedLogs])
           /\ \E h \in Hosts : pc[h] = "rotating" /\ RotatedLogs <= shifting[h] + 1
<1>a. TypeOK /\ LockOK /\ RotationOK
    BY DEF IInv
<1>b. RotatedLogs \in Nat \ {0}
    BY LogAssumption
<1>1. PICK j \in 0..RotatedLogs : n \in Numbers(files[j])
    BY DEF Kept
<1>2. \A i \in 0..RotatedLogs : n \notin Numbers(files'[i])
    BY DEF Kept
<1>3. ~UNCHANGED disk
    BY <1>1, <1>2 DEF disk
<1>4. ASSUME NEW state \in LineStates, files' = Appended(state) PROVE FALSE
    <2>1. /\ \A i \in 1..RotatedLogs : files'[i] = files[i]
          /\ files'[0] = Append(files[0], Line(written + 1, state))
        BY <1>a, <1>4, FileFacts
    <2>2. CASE j = 0
        <3>1. PICK k \in DOMAIN files[0] : n = files[0][k].number
            BY <1>1, <2>2 DEF Numbers
        <3>2. files[0] \in Seq(Lines)
            BY <1>a, <1>b DEF TypeOK
        <3>3. k \in DOMAIN files'[0] /\ files'[0][k] = files[0][k]
            BY <2>1, <3>1, <3>2
        <3>4. n \in Numbers(files'[0])
            BY <3>1, <3>3 DEF Numbers
        <3> QED
            BY <1>2, <2>2, <3>4
    <2>3. CASE j # 0
        BY <1>1, <1>2, <2>1, <2>3
    <2> QED
        BY <2>2, <2>3
<1>5. PICK h \in Hosts : /\ Shift(h) /\ files[shifting[h]] # <<>>
                         /\ files' = MovedUp(shifting[h])
    BY <1>3, <1>4, FilesChange
<1> DEFINE s == shifting[h]
<1>6. s \in 0..RotatedLogs /\ pc[h] = "rotating"
    BY <1>a, <1>5 DEF TypeOK, Shift
<1>7. /\ s < RotatedLogs => files'[s + 1] = files[s]
      /\ \A i \in 0..RotatedLogs \ {s, s + 1} : files'[i] = files[i]
    BY <1>a, <1>5, <1>6, FileFacts
<1>8. s + 1 < RotatedLogs => files[s + 1] = <<>>
    BY <1>a, <1>6 DEF RotationOK
<1> HIDE DEF s
<1>9. j \in {s, s + 1}
    BY <1>1, <1>2, <1>7
<1>10. j = s => s = RotatedLogs
    <2>1. s < RotatedLogs => s + 1 \in 0..RotatedLogs
        BY <1>b, <1>6
    <2> QED
        BY <1>b, <1>1, <1>2, <1>6, <1>7, <2>1
<1>11. j = s + 1 => s + 1 = RotatedLogs
    <2>1. files[j] # <<>>
        BY <1>1 DEF Numbers
    <2> QED
        BY <1>b, <1>1, <1>6, <1>8, <2>1
<1>12. j = RotatedLogs /\ RotatedLogs <= s + 1
    BY <1>b, <1>6, <1>9, <1>10, <1>11
<1> QED
    BY <1>1, <1>6, <1>12 DEF s

\* The initial states satisfy the invariant.
LEMMA InitInvariant == Init => IInv
<1>0. SUFFICES ASSUME Init PROVE IInv
    OBVIOUS
<1>1. TypeOK
    <2>1. "reading" \in PcStates /\ <<>> \in Seq(Lines)
        BY DEF PcStates
    <2>2. 0 \in 0..LockTimeout + 1 /\ 0 \in 0..StaleAge + 1 /\ 0 \in 0..RotatedLogs
        BY LogAssumption, LockAssumption
    <2>3. 0 \in 0..MaxLines /\ 0 \in 0..MaxCrashes /\ 0 \in 0..MaxFaults
        BY HostBounds
    <2> QED
        BY <1>0, <2>1, <2>2, <2>3 DEF Init, TypeOK
<1>2. LockOK
    BY <1>0 DEF Init, LockOK, Holding
<1>3. BudgetOK
    <2>1. Pending = {}
        BY <1>0 DEF Init, Pending
    <2>2. Cardinality(Pending) = 0
        BY <2>1, FS_EmptySet
    <2> QED
        BY <1>0, <2>2, HostBounds DEF Init, BudgetOK
<1>4. \A i \in 0..RotatedLogs : files[i] = <<>>
    BY <1>0 DEF Init
<1>5. OrderOK
    BY <1>4 DEF OrderOK
<1>6. RotationOK
    BY <1>0 DEF Init, RotationOK
<1>7. AgeOK
    <2>1. \A i \in 1..RotatedLogs : Numbers(files[i]) = {}
        BY <1>4 DEF Numbers
    <2> QED
        BY <2>1 DEF AgeOK
<1> QED
    BY <1>1, <1>2, <1>3, <1>5, <1>6, <1>7 DEF IInv

-----------------------------------------------------------------------------
(* What the hosts guarantee.                                               *)

\* Every reachable state satisfies the inductive invariant (main.go, appendNavigationEvent).
THEOREM InductiveInvariant == Spec => []IInv
<1>1. Init => IInv
    BY InitInvariant
<1>2. IInv /\ [Next]_vars => IInv'
    BY TypeStep, LockOKStep, BudgetStep, OrderStep, RotationStep, AgeStep DEF IInv
<1> QED
    BY <1>1, <1>2, PTL DEF Spec

\* Every variable keeps its type, and every counter its bound (main.go).
THEOREM TypeCorrect == Spec => []TypeOK
<1>1. IInv => TypeOK
    BY DEF IInv
<1> QED
    BY <1>1, InductiveInvariant, PTL

\* However many hosts share the log, two are between the creation and the release of the
\* lock file only after a live host's lock file was removed, and that takes a host that kept
\* its lock for longer than a lock may be old, or a crash (acquireFileLock).
THEOREM LockIsExclusive == Spec => []LockExcludes
<1>1. IInv => LockExcludes
    <2> SUFFICES ASSUME IInv, ~broken PROVE Cardinality(Holders) <= 1
        BY DEF IInv, LockOK, LockExcludes
    <2>1. Holders \subseteq {owner}
        BY DEF IInv, LockOK, Holders
    <2>2. IsFiniteSet({owner}) /\ Cardinality({owner}) = 1
        BY FS_Singleton
    <2>3. Cardinality(Holders) <= Cardinality({owner})
        BY <2>1, <2>2, FS_Subset
    <2> QED
        BY <2>2, <2>3
<1> QED
    BY <1>1, InductiveInvariant, PTL

\* While no live host loses its lock, the lines stay in the order they were written, none
\* twice, for any number and size of files, wherever a rotation is cut off (rotateIfNeeded).
THEOREM LinesStayInOrder == Spec => []FilesInOrder
<1>1. IInv => FilesInOrder
    BY DEF IInv, OrderOK, FilesInOrder
<1> QED
    BY <1>1, InductiveInvariant, PTL

\* While no live host loses its lock, a step removes a line only when as many full files as
\* are to be retained, less one for every rotation cut off, are newer than it
\* (rotateIfNeeded).
THEOREM RetentionIsKept == Spec => RetentionKept
<1>1. ASSUME IInv, [Next]_vars, ~broken, NEW n \in Kept \ Kept'
      PROVE  written - n >= (RotatedLogs - interrupted) * MaxLog
    <2>a. TypeOK /\ LockOK /\ RotationOK /\ AgeOK
        BY <1>1 DEF IInv
    <2>b. RotatedLogs \in Nat \ {0} /\ MaxLog \in Nat \ {0}
        BY LogAssumption
    <2>1. n \in Numbers(files[RotatedLogs])
        BY <1>1, LostLines
    <2>2. PICK h \in Hosts : pc[h] = "rotating" /\ RotatedLogs <= shifting[h] + 1
        BY <1>1, LostLines
    <2>3. shifting[h] \in Nat
        BY <2>a DEF TypeOK
    <2>4. Newer(RotatedLogs) = RotatedLogs - 1
        BY <1>1, <2>a, <2>b, <2>2, <2>3, NewerFiles
    <2>5. written - n >= Len(files[0]) + FullFiles(RotatedLogs - 1 - interrupted)
        BY <1>1, <2>a, <2>b, <2>1, <2>4 DEF AgeOK
    <2>6. Len(files[0]) >= MaxLog
        BY <1>1, <2>a, <2>2 DEF RotationOK
    <2>7. /\ FullFiles(RotatedLogs - 1 - interrupted) \in Int
          /\ FullFiles(RotatedLogs - interrupted)
                = FullFiles(RotatedLogs - 1 - interrupted) + MaxLog
        <3>1. interrupted \in Nat
            BY <2>a DEF TypeOK
        <3>2. /\ RotatedLogs - 1 - interrupted \in Int
              /\ (RotatedLogs - 1 - interrupted) + 1 = RotatedLogs - interrupted
            BY <2>b, <3>1
        <3> QED
            BY <3>2, MoreFiles
    <2>8. Len(files[0]) \in Nat /\ written \in Nat /\ n \in Nat
        <3>1. files[0] \in Seq(Lines) /\ files[RotatedLogs] \in Seq(Lines)
            BY <2>a, <2>b DEF TypeOK
        <3>2. n \in Nat
            <4>1. PICK k \in DOMAIN files[RotatedLogs] : n = files[RotatedLogs][k].number
                BY <2>1 DEF Numbers
            <4>2. files[RotatedLogs][k] \in Lines
                BY <3>1
            <4> QED
                BY <4>1, <4>2 DEF Lines
        <3> QED
            BY <2>a, <3>1, <3>2 DEF TypeOK
    <2>9. written - n >= FullFiles(RotatedLogs - interrupted)
        BY <2>b, <2>5, <2>6, <2>7, <2>8
    <2> QED
        BY <2>9 DEF FullFiles
<1>2. IInv /\ [Next]_vars
      => [~broken => \A n \in Kept \ Kept' : written - n >= (RotatedLogs - interrupted) * MaxLog]_vars
    BY <1>1
<1> QED
    BY <1>2, InductiveInvariant, PTL DEF Spec, RetentionKept
=============================================================================
