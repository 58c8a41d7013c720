----------------------------- MODULE NativeHost -----------------------------
(***************************************************************************)
(* Native messaging hosts (native-host/main.go) that share one navigation  *)
(* log: the lock file, the rotation by renaming, and the write.            *)
(*                                                                         *)
(* Edge starts one host per connection: two profiles, or a connection the  *)
(* extension dropped and its successor, run two at once.  Every action is  *)
(* one call to the file system (the open and the write of the log, which   *)
(* nothing separates while the lock excludes, are one; so are its sync and *)
(* close).  A host may stall between any two, and may die at any point.    *)
(* Messages the host refuses to validate or to read never come this far:   *)
(* ServiceWorker has them.                                                 *)
(***************************************************************************)
EXTENDS Integers, Sequences, FiniteSets

CONSTANTS
    Hosts,        \* host processes; one that died stands for its successor too
    MaxLog,       \* maxLogSize, in lines
    RotatedLogs,  \* rotatedLogs
    LockTimeout,  \* the timeout of acquireFileLock, in ticks
    StaleAge,     \* the age beyond which a lock file is stale, in ticks
    MaxLines,     \* bound on the lines written
    MaxCrashes,   \* bound on hosts that die
    MaxFaults     \* bound on file operations that fail

ASSUME LogAssumption == MaxLog \in Nat \ {0} /\ RotatedLogs \in Nat \ {0}
ASSUME LockAssumption == LockTimeout \in Nat /\ StaleAge \in Nat /\ LockTimeout < StaleAge
ASSUME HostBounds == {MaxLines, MaxCrashes, MaxFaults} \subseteq Nat

NoHost == 0
ASSUME HostAssumption == Hosts # {} /\ NoHost \notin Hosts /\ IsFiniteSet(Hosts)

VARIABLES
    pc,           \* where each host is
    waited,       \* ticks since the host called acquireFileLock, up to LockTimeout + 1
    lock,         \* whether the lock file exists
    age,          \* ticks since the lock file was made, up to StaleAge + 1
    owner,        \* history: the live host that made the lock file, if any
    shifting,     \* the rotated file a rotating host moves next, 0 for the log itself
    files,        \* the lines of the log (0) and of the rotated logs; <<>> if there is none
    written,      \* history: how many lines have been written
    crashes,      \* hosts that have died
    faults,       \* file operations that have failed
    interrupted,  \* history: rotations a failure or a crash has cut off
    stalled,      \* history: a live host's lock file has become stale
    broken        \* history: a live host's lock file has been removed by another host

lockFile == <<lock, age, owner>>
disk == <<files, written>>
failures == <<crashes, faults, interrupted>>
losses == <<stalled, broken>>
vars == <<pc, waited, lockFile, shifting, disk, failures, losses>>

\* A line is a part of a record, or the whole of it, and then synced or not.
LineStates == {"partial", "unsynced", "synced"}
Line(n, state) == [number |-> n, state |-> state]
Lines == [number : Nat \ {0}, state : LineStates]
Numbers(file) == {file[i].number : i \in DOMAIN file}

PcStates == {"reading", "locking", "stealing", "locked", "rotating", "writing", "accepting",
             "refusing"}
Holding == {"locked", "rotating", "writing", "accepting", "refusing"}
Holders == {h \in Hosts : pc[h] \in Holding}

TypeOK ==
    /\ pc \in [Hosts -> PcStates]
    /\ waited \in [Hosts -> 0..LockTimeout + 1]
    /\ lock \in BOOLEAN
    /\ age \in 0..StaleAge + 1
    /\ owner \in Hosts \cup {NoHost}
    /\ shifting \in [Hosts -> 0..RotatedLogs]
    /\ files \in [0..RotatedLogs -> Seq(Lines)]
    /\ written \in 0..MaxLines
    /\ crashes \in 0..MaxCrashes /\ faults \in 0..MaxFaults
    /\ interrupted \in Nat
    /\ stalled \in BOOLEAN /\ broken \in BOOLEAN

Init ==
    /\ pc = [h \in Hosts |-> "reading"]
    /\ waited = [h \in Hosts |-> 0]
    /\ lock = FALSE /\ age = 0 /\ owner = NoHost
    /\ shifting = [h \in Hosts |-> 0]
    /\ files = [i \in 0..RotatedLogs |-> <<>>]
    /\ written = 0
    /\ crashes = 0 /\ faults = 0 /\ interrupted = 0
    /\ stalled = FALSE /\ broken = FALSE

Fault == faults < MaxFaults /\ faults' = faults + 1

Go(h, state) == pc' = [pc EXCEPT ![h] = state]

\* The lock file disappears; if another live host made it, that host has lost its lock.
RemoveLock(h) ==
    /\ lock' = FALSE /\ age' = 0 /\ owner' = NoHost
    /\ broken' = (broken \/ owner \notin {h, NoHost})

-----------------------------------------------------------------------------
(* Mistakes this code could have had.  No specification uses them: each    *)
(* stands in for the definition it resembles when a property is tested.    *)

\* CreateLock without O_EXCL: an existing lock file is opened like a new one.
CreateLockShared(h) ==
    /\ pc[h] = "locking"
    /\ lock' = TRUE /\ age' = 0 /\ owner' = h
    /\ Go(h, "locked") /\ waited' = [waited EXCEPT ![h] = 0]
    /\ UNCHANGED <<shifting, disk, failures, losses>>

\* RemoveStale trying again without removing the lock file.
RemoveStaleNot(h) ==
    /\ pc[h] = "stealing"
    /\ Go(h, "locking")
    /\ UNCHANGED <<waited, lockFile, shifting, disk, failures, losses>>

\* MovedUp copying the file instead of renaming it.
MovedUpByCopy(i) == IF i = RotatedLogs THEN [files EXCEPT ![i] = <<>>]
                    ELSE [files EXCEPT ![i + 1] = files[i]]

\* MovedUp removing the last two rotated files.
MovedUpForgets(i) == IF i >= RotatedLogs - 1 THEN [files EXCEPT ![i] = <<>>]
                     ELSE [files EXCEPT ![i + 1] = files[i], ![i] = <<>>]

\* CheckSize starting the rotation one file too high.
CheckSizeTooHigh(h) ==
    /\ pc[h] = "locked"
    /\ IF Len(files[0]) >= MaxLog
       THEN Go(h, "rotating") /\ shifting' = [shifting EXCEPT ![h] = RotatedLogs + 1]
       ELSE Go(h, "writing") /\ UNCHANGED shifting
    /\ UNCHANGED <<waited, lockFile, disk, failures, losses>>

-----------------------------------------------------------------------------
(* acquireFileLock.                                                        *)

\* Time passes; nothing bounds how long a host takes for its next step.
Tick ==
    /\ waited' = [h \in Hosts |-> IF pc[h] = "locking" /\ waited[h] <= LockTimeout
                                  THEN waited[h] + 1 ELSE waited[h]]
    /\ age' = IF lock /\ age <= StaleAge THEN age + 1 ELSE age
    /\ stalled' = (stalled \/ (owner # NoHost /\ age' > StaleAge))
    /\ UNCHANGED <<pc, lock, owner, shifting, disk, failures, broken>>

\* run has read and validated an event; appendNavigationEvent asks for the lock.
Receive(h) ==
    /\ pc[h] = "reading"
    /\ written + Cardinality({g \in Hosts : pc[g] # "reading"}) < MaxLines
    /\ Go(h, "locking")
    /\ UNCHANGED <<waited, lockFile, shifting, disk, failures, losses>>

\* The lock file is created, exclusively.
CreateLock(h) ==
    /\ pc[h] = "locking"
    /\ ~lock
    /\ lock' = TRUE /\ age' = 0 /\ owner' = h
    /\ Go(h, "locked") /\ waited' = [waited EXCEPT ![h] = 0]
    /\ UNCHANGED <<shifting, disk, failures, losses>>

\* The lock file exists and is stale...
FindStale(h) ==
    /\ pc[h] = "locking"
    /\ lock /\ age > StaleAge
    /\ Go(h, "stealing")
    /\ UNCHANGED <<waited, lockFile, shifting, disk, failures, losses>>

\* ...so whatever lock file there is by now is removed, and the host tries again at once,
\* even when the removal has failed.
RemoveStale(h) ==
    /\ pc[h] = "stealing"
    /\ \/ RemoveLock(h) /\ UNCHANGED faults
       \/ Fault /\ UNCHANGED <<lockFile, broken>>
    /\ Go(h, "locking")
    /\ UNCHANGED <<waited, shifting, disk, crashes, interrupted, stalled>>

\* The event is refused, without a lock to release: the lock file is not stale and the
\* deadline has passed, or the directory or the lock file cannot be made at all.
GiveUp(h) ==
    /\ pc[h] = "locking"
    /\ \/ lock /\ age <= StaleAge /\ waited[h] > LockTimeout /\ UNCHANGED faults
       \/ Fault
    /\ Go(h, "reading") /\ waited' = [waited EXCEPT ![h] = 0]
    /\ UNCHANGED <<lockFile, shifting, disk, crashes, interrupted, losses>>

-----------------------------------------------------------------------------
(* rotateIfNeeded.                                                         *)

RotationNeeded == Len(files[0]) >= MaxLog

CheckSize(h) ==
    /\ pc[h] = "locked"
    /\ IF RotationNeeded
       THEN Go(h, "rotating") /\ shifting' = [shifting EXCEPT ![h] = RotatedLogs]
       ELSE Go(h, "writing") /\ UNCHANGED shifting
    /\ UNCHANGED <<waited, lockFile, disk, failures, losses>>

SizeUnknown(h) ==
    /\ pc[h] = "locked"
    /\ Fault
    /\ Go(h, "refusing")
    /\ UNCHANGED <<waited, lockFile, shifting, disk, crashes, interrupted, losses>>

\* File i becomes file i + 1, replacing it; the last rotated file is removed.
MovedUp(i) ==
    IF i = RotatedLogs THEN [files EXCEPT ![i] = <<>>]
    ELSE [files EXCEPT ![i + 1] = files[i], ![i] = <<>>]

\* One file is moved; a rotated file that does not exist is skipped.
Shift(h) ==
    /\ pc[h] = "rotating"
    /\ LET i == shifting[h]
       IN  /\ i = 0 => files[0] # <<>>
           /\ files' = IF files[i] = <<>> THEN files ELSE MovedUp(i)
           /\ IF i = 0 THEN Go(h, "writing") /\ UNCHANGED shifting
              ELSE shifting' = [shifting EXCEPT ![h] = i - 1] /\ UNCHANGED pc
    /\ UNCHANGED <<waited, lockFile, written, failures, losses>>

\* That the last rotated file cannot be removed is ignored...
RemovalFails(h) ==
    /\ pc[h] = "rotating" /\ shifting[h] = RotatedLogs
    /\ Fault
    /\ shifting' = [shifting EXCEPT ![h] = RotatedLogs - 1]
    /\ UNCHANGED <<pc, waited, lockFile, disk, crashes, interrupted, losses>>

\* ...but when a rename fails, or another rotation has taken the log, the event is refused.
RenameFails(h) ==
    /\ pc[h] = "rotating" /\ shifting[h] # RotatedLogs
    /\ Fault \/ (shifting[h] = 0 /\ files[0] = <<>> /\ UNCHANGED faults)
    /\ interrupted' = interrupted + 1
    /\ Go(h, "refusing") /\ shifting' = [shifting EXCEPT ![h] = 0]
    /\ UNCHANGED <<waited, lockFile, disk, crashes, losses>>

-----------------------------------------------------------------------------
(* The write, the release of the lock and the acknowledgement.             *)

Appended(state) == [files EXCEPT ![0] = Append(@, Line(written + 1, state))]

\* What a write that is cut off, or whose sync fails, leaves behind.
WriteLeaves ==
    \/ UNCHANGED disk
    \/ \E state \in {"partial", "unsynced"} :
           files' = Appended(state) /\ written' = written + 1

\* One write appends the record and its newline, and the sync succeeds.
Write(h) ==
    /\ pc[h] = "writing"
    /\ files' = Appended("synced")
    /\ written' = written + 1
    /\ Go(h, "accepting")
    /\ UNCHANGED <<waited, lockFile, shifting, failures, losses>>

WriteFails(h) ==
    /\ pc[h] = "writing"
    /\ Fault
    /\ WriteLeaves
    /\ Go(h, "refusing")
    /\ UNCHANGED <<waited, lockFile, shifting, crashes, interrupted, losses>>

\* release removes the lock file, whoever made it, and the event is acknowledged.
Release(h) ==
    /\ pc[h] \in {"accepting", "refusing"}
    /\ RemoveLock(h)
    /\ Go(h, "reading")
    /\ UNCHANGED <<waited, shifting, disk, failures, stalled>>

\* The host dies, perhaps within a write, and its lock file stays.
Crash(h) ==
    /\ pc[h] # "reading"
    /\ crashes < MaxCrashes /\ crashes' = crashes + 1
    /\ Go(h, "reading")
    /\ waited' = [waited EXCEPT ![h] = 0] /\ shifting' = [shifting EXCEPT ![h] = 0]
    /\ owner' = IF owner = h THEN NoHost ELSE owner
    /\ interrupted' = IF pc[h] = "rotating" THEN interrupted + 1 ELSE interrupted
    /\ IF pc[h] = "writing" THEN WriteLeaves ELSE UNCHANGED disk
    /\ UNCHANGED <<lock, age, faults, losses>>

-----------------------------------------------------------------------------

LockStep(h) == CreateLock(h) \/ FindStale(h) \/ RemoveStale(h) \/ GiveUp(h)
RotateStep(h) == CheckSize(h) \/ SizeUnknown(h) \/ Shift(h) \/ RemovalFails(h) \/ RenameFails(h)
WriteStep(h) == Write(h) \/ WriteFails(h) \/ Release(h)

Next ==
    \/ Tick
    \/ \E h \in Hosts :
        Receive(h) \/ LockStep(h) \/ RotateStep(h) \/ WriteStep(h) \/ Crash(h)

Spec == Init /\ [][Next]_vars

\* Time passes and the operating system runs every host; nothing has to fail or arrive.
FairSpec ==
    /\ Spec
    /\ WF_vars(Tick)
    /\ \A h \in Hosts : WF_vars(LockStep(h) \/ RotateStep(h) \/ WriteStep(h))

-----------------------------------------------------------------------------
(* Properties.                                                             *)

\* The lock excludes: two hosts are between its creation and its release only after the
\* lock file of a live host was removed, and without a crash that takes a host that kept
\* its lock for longer than StaleAge (acquireFileLock).
LockExcludes ==
    /\ ~broken => Cardinality(Holders) <= 1
    /\ broken => stalled \/ crashes > 0

\* Read from the oldest rotated file to the log, the lines are in the order they were
\* written, none twice, wherever a rotation was cut off (rotateIfNeeded).
FilesInOrder ==
    ~broken => \A i, j \in 0..RotatedLogs : \A k \in DOMAIN files[i], l \in DOMAIN files[j] :
        i > j \/ (i = j /\ k < l) => files[i][k].number < files[j][l].number

Kept == UNION {Numbers(files[i]) : i \in 0..RotatedLogs}

\* A line is removed only when as many full files as are to be retained are newer than it;
\* every rotation that was cut off costs one of them (rotateIfNeeded).
RetentionKept ==
    [][~broken => \A n \in Kept \ Kept' : written - n >= (RotatedLogs - interrupted) * MaxLog]_vars

\* Every event a host has received is answered, or the host dies: neither a held lock nor
\* one that a crash left behind holds a host for ever (acquireFileLock).
EveryMessageAnswered == \A h \in Hosts : (pc[h] # "reading") ~> (pc[h] = "reading")

-----------------------------------------------------------------------------
(* What the repository says and the code does not keep.                    *)

\* docs/edge-extension-implementation-plan.md, acceptance criteria: one complete JSON record
\* per line.  An accepted event has a line of its own: no partial line runs into it.
AcceptedLinesAreComplete ==
    \A i \in 0..RotatedLogs : \A k \in 2..Len(files[i]) :
        files[i][k].state = "synced" => files[i][k - 1].state # "partial"
=============================================================================
