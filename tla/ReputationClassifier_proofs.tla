--------------------- MODULE ReputationClassifier_proofs ---------------------
(***************************************************************************)
(* Proofs about ReputationClassifier, for any finite set of processes, any *)
(* URLs, cache times, cooldown, monthly limit and number of retries.       *)
(***************************************************************************)
EXTENDS ReputationClassifier, FiniteSetTheorems, TLAPS

-----------------------------------------------------------------------------
(* The inductive invariant.                                                *)

Statuses == Verdicts \cup MlVerdicts \cup {"", "error"}

Jobs == [url : Urls \cup {""}, provider : Providers \cup {""}, attempt : 0..RetryCount,
         verdict : Verdicts \cup {""}, expires : Nat, failure : Failures \cup {""},
         status : Statuses, checked : 0..now, asked : Nat]

\* What a process knows at a point: no verdict before the answer, and then either a verdict or
\* the failure there is in place of one.
Knows(state, j) ==
    /\ state \notin {"idle", "report"} => j.url \in Urls /\ j.provider \in Providers
    /\ state \in {"lookup", "circuit", "reserve", "query", "failed"} => j.verdict = ""
    /\ state \in {"answered", "caching"} => j.verdict \in Verdicts
    /\ state = "scoring" => (j.failure = "" <=> j.verdict # "")
    /\ state # "scoring" => j.failure = ""

ProcsOK ==
    /\ pc \in [Procs -> PcStates] /\ job \in [Procs -> Jobs]
    /\ \A p \in Procs : Knows(pc[p], job[p])

\* The rest of TypeOK.
WorldOK ==
    /\ now \in 0..MaxTime /\ configured \in Providers \cup {Refused}
    /\ DOMAIN cache \subseteq Providers \X Urls
    /\ \A k \in DOMAIN cache : cache[k].verdict \in Verdicts /\ cache[k].expires \in Nat \ {0}
    /\ usage \in [Months -> 0..Limit]
    /\ circuit \in 0..MaxTime + Cooldown
    /\ alerts \in 0..MaxAlerts /\ switches \in 0..MaxSwitches /\ faults \in 0..MaxFaults

\* Some answer about this URL says so, and could be used when the process asked.
Grounded(p, verdict) ==
    \E a \in answers : /\ a.key = <<job[p].provider, job[p].url>>
                       /\ a.verdict = verdict
                       /\ job[p].asked = a.from \/ job[p].asked < a.until

\* What the cache holds and what a process classifies comes from an answer.
GroundedOK ==
    /\ \A k \in DOMAIN cache : \E a \in answers :
        a.key = k /\ a.verdict = cache[k].verdict /\ a.until = cache[k].expires
    /\ \A p \in Procs :
        pc[p] = "scoring" /\ job[p].failure = "" => Grounded(p, job[p].verdict)
    /\ VerdictsAreGrounded

\* The calls that processes in the query may still make.
Slots == {s \in Procs \X (0..RetryCount) :
            pc[s[1]] = "query" /\ IsGoogle(s[1]) /\ s[2] >= job[s[1]].attempt}

\* The reservations up to a month cover its calls, and those up to the current month and later
\* ones the calls that may still be made as well.
ReservedOK ==
    /\ outbound \in [Months -> Nat]
    /\ \A m \in Months :
        /\ IsFiniteSet(Each(outbound, m))
        /\ Cardinality(Each(outbound, m)) + (IF m >= Month(now) THEN Cardinality(Slots) ELSE 0)
               <= (RetryCount + 1) * Cardinality(Each(usage, m))

\* The circuit breaker is closed, or open since the last failure.
BreakerOK ==
    /\ upset \in Nat \cup {Never} /\ upset <= now
    /\ circuit = 0 \/ (upset \in Nat /\ circuit = upset + Cooldown)
    /\ OpenBreakerStopsCalls

IInv == WorldOK /\ ProcsOK /\ GroundedOK /\ ReservedOK /\ BreakerOK
-----------------------------------------------------------------------------
(* Inputs and months.                                                      *)

\* What is loaded, taken from an alert and answered is as the state's types have it.
LEMMA Inputs ==
    /\ \A c \in Loaded : c \in Providers \cup {Refused}
    /\ \A u \in Navigations : u \in Urls \cup {Refused}
    /\ \A o \in GoogleOutcomes \cup PhishTankOutcomes :
        o.verdict \in Verdicts \cup {Refused} /\ o.life \in Int
<1>1. \A s : load_settings(s) \in Providers \cup {Refused}
    BY DEF load_settings, from_mapping
<1>2. \A a \in Alerts : a.url \in Urls
    <2> TAKE a \in Alerts
    <2>1. PICK u \in Urls :
            \/ a = PlainAlert(u)
            \/ a = [PlainAlert(u) EXCEPT !.fields = FALSE]
            \/ a = [PlainAlert(u) EXCEPT !.rule = 100101]
            \/ a = [PlainAlert(u) EXCEPT !.event = FALSE]
            \/ a = [PlainAlert(u) EXCEPT !.source = FALSE]
            \/ a = [PlainAlert(u) EXCEPT !.length = 8193]
            \/ a = [PlainAlert(u) EXCEPT !.web = FALSE]
            \/ a = [PlainAlert(u) EXCEPT !.credentials = TRUE]
            \/ a = [PlainAlert(u) EXCEPT !.id = 0]
            \/ a = [PlainAlert(u) EXCEPT !.id = 129]
        BY SMT DEF Alerts
    <2>2. a.url = PlainAlert(u).url
        BY <2>1 DEF PlainAlert
    <2> QED
        BY <2>2 DEF PlainAlert
<1>3. \A a, rule : validate_navigation_alert(a, rule) \in {a.url, Refused}
    BY DEF validate_navigation_alert
<1>4. \A r : query_phishtank(r) \in Verdicts \cup {Refused}
    BY DEF query_phishtank, normalize_phishtank_result, Verdicts
<1>5. \A r, types : normalize_response(r, types) \in Verdicts \cup {Refused}
    BY DEF normalize_response, Verdicts
<1>6. \A r \in GoogleReplies : r.life \in Int
    BY InputBounds DEF GoogleReplies
<1>7. \A o \in PhishTankOutcomes : o.verdict \in Verdicts \cup {Refused} /\ o.life \in Int
    BY <1>4 DEF PhishTankOutcomes
<1>8. \A o \in GoogleOutcomes : o.verdict \in Verdicts \cup {Refused} /\ o.life \in Int
    BY <1>5, <1>6 DEF GoogleOutcomes
<1> QED
    BY <1>1, <1>2, <1>3, <1>7, <1>8 DEF Loaded, Navigations

\* Time does not go back to an earlier month.
LEMMA MonthsGrow ==
    /\ \A s, t \in Nat : s <= t => Month(s) <= Month(t)
    /\ \A t \in Nat : Month(t) \in Nat
    /\ \A t \in 0..MaxTime : Month(t) \in Months
<1>0. MonthLength \in Nat \ {0} /\ MaxTime \in Nat
    BY ClassifierBounds
<1>1. ASSUME NEW t \in Nat
      PROVE  /\ Month(t) \in Nat
             /\ MonthLength * Month(t) <= t /\ t < MonthLength * Month(t) + MonthLength
    BY <1>0 DEF Month
<1>2. ASSUME NEW s \in Nat, NEW t \in Nat, s <= t PROVE Month(s) <= Month(t)
    <2> DEFINE a == Month(s)
               b == Month(t)
    <2>1. /\ a \in Nat /\ b \in Nat
          /\ MonthLength * a <= s /\ t < MonthLength * b + MonthLength
        BY <1>1
    <2> HIDE DEF a, b
    <2>2. SUFFICES ASSUME b + 1 <= a PROVE FALSE
        BY <2>1 DEF a, b
    <2>3. MonthLength * a = MonthLength * (b + 1) + MonthLength * (a - (b + 1))
        BY <1>0, <2>1
    <2>4. MonthLength * (a - (b + 1)) >= 0
        <3>1. a - (b + 1) \in Nat
            BY <2>1, <2>2
        <3> QED
            BY <1>0, <3>1
    <2>5. MonthLength * (b + 1) = MonthLength * b + MonthLength
        BY <1>0, <2>1
    <2>6. /\ MonthLength * a \in Int /\ MonthLength * b \in Int /\ MonthLength * (b + 1) \in Int
          /\ MonthLength * (a - (b + 1)) \in Int
        BY <1>0, <2>1
    <2> QED
        BY <1>2, <2>1, <2>3, <2>4, <2>5, <2>6
<1> QED
    BY <1>0, <1>1, <1>2 DEF Months
-----------------------------------------------------------------------------
(* The types.                                                              *)

\* What a process comes to know from a step, by where the step takes it.
LEMMA Effects ==
    ASSUME WorldOK, ProcsOK, NEW p \in Procs, Start(p) \/ Step(p) \/ Catch(p) \/ Die(p)
    PROVE  /\ now' = now
           /\ \E state \in PcStates, j \in Jobs :
                Go(p, state) /\ job' = [job EXCEPT ![p] = j] /\ Knows(state, j)
<1> DEFINE old == job[p]
           Result(state, j) == /\ state \in PcStates /\ j \in Jobs
                               /\ Go(p, state) /\ job' = [job EXCEPT ![p] = j]
                               /\ Knows(state, j)
<1> SUFFICES now' = now /\ \E state, j : Result(state, j)
    OBVIOUS
<1>a. old \in Jobs /\ Knows(pc[p], old) /\ now \in Nat
    BY ClassifierBounds DEF ProcsOK, WorldOK
<1>b. /\ "idle" \in PcStates /\ "lookup" \in PcStates /\ "circuit" \in PcStates
      /\ "reserve" \in PcStates /\ "query" \in PcStates /\ "failed" \in PcStates
      /\ "answered" \in PcStates /\ "caching" \in PcStates /\ "scoring" \in PcStates
      /\ "report" \in PcStates
    BY DEF PcStates
<1>g. 0 \in 0..RetryCount /\ 0 \in 0..now /\ now \in 0..now
    BY <1>a, GuardAssumption
<1>c. NoJob \in Jobs /\ Knows("idle", NoJob)
    <2>1. NoJob \in Jobs
        BY <1>g DEF NoJob, Jobs, Statuses
    <2>2. Knows("idle", NoJob)
        BY <1>a DEF NoJob, Knows
    <2> QED
        BY <2>1, <2>2
<1>d. job' = job => job' = [job EXCEPT ![p] = old]
    BY DEF ProcsOK
<1>e. \A j \in Jobs : /\ j.url \in Urls \cup {""} /\ j.provider \in Providers \cup {""}
                      /\ j.attempt \in 0..RetryCount /\ j.verdict \in Verdicts \cup {""}
                      /\ j.expires \in Nat /\ j.failure \in Failures \cup {""}
                      /\ j.status \in Statuses /\ j.asked \in Nat
    BY DEF Jobs
<1>f. ASSUME NEW failure \in Failures, Fails(p, failure), pc[p] \in {"circuit", "reserve", "failed"}
      PROVE  \E state, j : Result(state, j)
    <2> DEFINE j == [old EXCEPT !.failure = failure, !.attempt = 0, !.checked = 0]
    <2>1. j \in Jobs
        BY <1>a, <1>f, <1>g DEF Jobs
    <2>2. Knows("scoring", j)
        <3>1. old.verdict = "" /\ old.url \in Urls /\ old.provider \in Providers
            BY <1>a, <1>f DEF Knows
        <3>2. /\ j.verdict = "" /\ j.url \in Urls /\ j.provider \in Providers
              /\ j.failure # ""
            BY <1>a, <1>f, <3>1 DEF Jobs, Failures
        <3> HIDE DEF j
        <3> QED
            BY <1>a, <3>2 DEF Knows
    <2>3. Go(p, "scoring") /\ job' = [job EXCEPT ![p] = j]
        BY <1>f DEF Fails
    <2> QED
        BY <1>b, <2>1, <2>2, <2>3
<1>1. CASE Start(p)
    <2>1. now' = now
        BY <1>1 DEF Start
    <2>2. CASE Go(p, "report") /\ job' = [job EXCEPT ![p] = [NoJob EXCEPT !.status = "error"]]
        <3> DEFINE j == [NoJob EXCEPT !.status = "error"]
        <3>1. j \in Jobs /\ Knows("report", j)
            BY <1>c, <1>g DEF Jobs, Knows, NoJob, Statuses
        <3> QED
            BY <1>b, <2>1, <2>2, <3>1
    <2>3. ASSUME NEW u \in Navigations, u # Refused, configured # Refused, Go(p, "lookup"),
                 job' = [job EXCEPT ![p] = [NoJob EXCEPT !.url = u, !.provider = configured]]
          PROVE  \E state, j : Result(state, j)
        <3> DEFINE j == [NoJob EXCEPT !.url = u, !.provider = configured]
        <3>1. u \in Urls /\ configured \in Providers
            BY <2>3, Inputs DEF WorldOK
        <3>2. j \in Jobs /\ Knows("lookup", j)
            BY <1>c, <1>g, <3>1 DEF Jobs, Knows, NoJob
        <3> QED
            BY <1>b, <2>3, <3>2
    <2> QED
        BY <1>1, <2>1, <2>2, <2>3 DEF Start
<1>2. CASE Lookup(p)
    <2>1. now' = now
        BY <1>2 DEF Lookup, environment
    <2>2. CASE Cached(p)
        <3> DEFINE key == <<old.provider, old.url>>
                   j == [old EXCEPT !.verdict = cache[key].verdict, !.asked = now]
        <3>1. cache[key].verdict \in Verdicts
            BY <2>2 DEF Cached, WorldOK
        <3>2. j \in Jobs /\ Knows("scoring", j)
            BY <1>2, <1>a, <3>1 DEF Lookup, Jobs, Knows, Verdicts
        <3>3. Go(p, "scoring") /\ job' = [job EXCEPT ![p] = j]
            BY <1>2, <2>2 DEF Lookup
        <3> QED
            BY <1>b, <2>1, <3>2, <3>3
    <2>3. CASE ~Cached(p)
        <3>1. PICK state \in {"circuit", "query"} : Go(p, state)
            BY <1>2, <2>3 DEF Lookup
        <3>2. Knows(state, old)
            BY <1>2, <1>a DEF Lookup, Knows
        <3> QED
            BY <1>2, <1>a, <1>b, <1>d, <2>1, <2>3, <3>1, <3>2 DEF Lookup
    <2> QED
        BY <2>2, <2>3
<1>3. CASE CheckCircuit(p)
    <2>1. now' = now /\ pc[p] = "circuit"
        BY <1>3 DEF CheckCircuit, environment
    <2>2. CASE Fails(p, "circuit_open")
        BY <1>f, <2>1, <2>2 DEF Failures
    <2>3. CASE Go(p, "reserve") /\ job' = [job EXCEPT ![p].checked = now]
        <3>1. [old EXCEPT !.checked = now] \in Jobs /\ Knows("reserve", [old EXCEPT !.checked = now])
            <4>1. [old EXCEPT !.checked = now] \in Jobs
                BY <1>a, <1>g DEF Jobs
            <4>2. Knows("reserve", [old EXCEPT !.checked = now])
                BY <1>a, <2>1 DEF Knows, Jobs
            <4> QED
                BY <4>1, <4>2
        <3> QED
            BY <1>b, <2>1, <2>3, <3>1
    <2> QED
        BY <1>3, <2>2, <2>3 DEF CheckCircuit
<1>4. CASE Reserve(p)
    <2>1. now' = now /\ pc[p] = "reserve"
        BY <1>4 DEF Reserve, environment
    <2>2. CASE Fails(p, "quota_guard")
        BY <1>f, <2>1, <2>2 DEF Failures
    <2>3. CASE Go(p, "query") /\ UNCHANGED job
        <3>1. Knows("query", old)
            BY <1>a, <2>1 DEF Knows
        <3> QED
            BY <1>a, <1>b, <1>d, <2>1, <2>3, <3>1
    <2> QED
        BY <1>4, <2>2, <2>3 DEF Reserve
<1>5. CASE Answer(p)
    <2>1. now' = now /\ pc[p] = "query" /\ Go(p, "answered")
        BY <1>5 DEF Answer, environment
    <2>2. PICK o \in Outcomes(p) :
            /\ o.verdict # Refused
            /\ job' = [job EXCEPT ![p].verdict = o.verdict, ![p].asked = now,
                   ![p].attempt = 0, ![p].checked = 0,
                   ![p].expires = IF o.life > 0 THEN now + o.life ELSE 0]
        BY <1>5 DEF Answer
    <2> DEFINE e == IF o.life > 0 THEN now + o.life ELSE 0
               j == [old EXCEPT !.verdict = o.verdict, !.asked = now,
                       !.attempt = 0, !.checked = 0, !.expires = e]
    <2>3. o.verdict \in Verdicts /\ e \in Nat
        BY <1>a, <2>2, Inputs DEF Outcomes
    <2>4. j \in Jobs
        <3> HIDE DEF e
        <3> QED
            BY <1>a, <1>g, <2>3 DEF Jobs
    <2>5. Knows("answered", j)
        <3> HIDE DEF e
        <3>1. /\ j.url = old.url /\ j.provider = old.provider /\ j.verdict \in Verdicts
              /\ j.failure = old.failure
            BY <1>a, <2>3 DEF Jobs
        <3> HIDE DEF j
        <3> QED
            BY <1>a, <2>1, <3>1 DEF Knows
    <2>6. job' = [job EXCEPT ![p] = j]
        BY <2>2
    <2> QED
        BY <1>b, <2>1, <2>4, <2>5, <2>6
<1>6. CASE Retry(p)
    <2>1. /\ now' = now /\ pc[p] = "query" /\ pc' = pc /\ old.attempt < RetryCount
          /\ job' = [job EXCEPT ![p].attempt = @ + 1]
        BY <1>6 DEF Retry, environment
    <2> DEFINE j == [old EXCEPT !.attempt = old.attempt + 1]
    <2>2. j \in Jobs
        <3>1. old.attempt + 1 \in 0..RetryCount
            <4>1. old.attempt \in 0..RetryCount
                BY <1>a, <1>e
            <4>2. RetryCount \in Nat
                BY GuardAssumption
            <4> HIDE DEF old
            <4> QED
                BY <2>1, <4>1, <4>2
        <3> QED
            BY <1>a, <3>1 DEF Jobs
    <2>3. Knows("query", j)
        BY <1>a, <2>1 DEF Knows, Jobs
    <2>4. Go(p, "query")
        BY <2>1 DEF Go, ProcsOK
    <2>5. job' = [job EXCEPT ![p] = j]
        BY <2>1
    <2> QED
        BY <1>b, <2>1, <2>2, <2>3, <2>4, <2>5
<1>7. CASE NoQuery(p) \/ QueryFails(p)
    <2>1. now' = now /\ pc[p] = "query" /\ Go(p, "failed") /\ UNCHANGED job
        BY <1>7 DEF NoQuery, QueryFails, environment
    <2>2. Knows("failed", old)
        BY <1>a, <2>1 DEF Knows
    <2> QED
        BY <1>a, <1>b, <1>d, <2>1, <2>2
<1>8. CASE RecordError(p)
    BY <1>f, <1>8 DEF RecordError, Failures, environment
<1>9. CASE RecordSuccess(p)
    <2>1. now' = now /\ pc[p] = "answered" /\ Go(p, "caching") /\ UNCHANGED job
        BY <1>9 DEF RecordSuccess, environment
    <2>2. Knows("caching", old)
        BY <1>a, <2>1 DEF Knows
    <2> QED
        BY <1>a, <1>b, <1>d, <2>1, <2>2
<1>10. CASE Put(p)
    <2>1. /\ now' = now /\ pc[p] = "caching" /\ Go(p, "scoring")
          /\ job' = [job EXCEPT ![p] = [old EXCEPT !.expires = 0]]
        BY <1>10 DEF Put, environment
    <2>2. [old EXCEPT !.expires = 0] \in Jobs /\ Knows("scoring", [old EXCEPT !.expires = 0])
        BY <1>a, <2>1 DEF Jobs, Knows, Verdicts
    <2> QED
        BY <1>b, <2>1, <2>2
<1>11. CASE Classify(p)
    <2>1. now' = now /\ pc[p] = "scoring" /\ Go(p, "report")
        BY <1>11 DEF Classify, environment
    <2>2. PICK ml \in (IF MlEnabled THEN MlVerdicts ELSE {"none"}) :
            job' = [job EXCEPT ![p].status = Status(old.failure # "", old.verdict, ml),
                               ![p].failure = "", ![p].verdict = ""]
        BY <1>11 DEF Classify
    <2> DEFINE s == Status(old.failure # "", old.verdict, ml)
               j == [old EXCEPT !.status = s, !.failure = "", !.verdict = ""]
    <2>3. s \in Statuses
        BY <1>a, <1>e, <2>2 DEF Status, Statuses, MlVerdicts
    <2>4. j \in Jobs /\ Knows("report", j)
        BY <1>a, <2>1, <2>3 DEF Jobs, Knows
    <2>5. job' = [job EXCEPT ![p] = j]
        BY <2>2
    <2> QED
        BY <1>b, <2>1, <2>4, <2>5
<1>12. CASE Report(p) \/ Die(p)
    BY <1>b, <1>c, <1>12 DEF Report, Die, environment
<1>13. CASE Catch(p)
    <2> DEFINE j == [NoJob EXCEPT !.url = old.url, !.provider = old.provider, !.status = "error"]
    <2>1. now' = now /\ Go(p, "report") /\ job' = [job EXCEPT ![p] = j]
        BY <1>13 DEF Catch
    <2>2. j \in Jobs /\ Knows("report", j)
        BY <1>a, <1>c, <1>g DEF NoJob, Jobs, Knows, Statuses
    <2> QED
        BY <1>b, <2>1, <2>2
<1> HIDE DEF Result
<1> QED
    BY <1>1, <1>2, <1>3, <1>4, <1>5, <1>6, <1>7, <1>8, <1>9, <1>10, <1>11, <1>12, <1>13
       DEF Step, GuardStep, QueryStep, RecordStep, ResultStep
\* What a step of a process leaves alone: the other processes, the clock and the answers.
LEMMA Others ==
    ASSUME WorldOK, ProcsOK, NEW p \in Procs, Start(p) \/ Step(p) \/ Catch(p) \/ Die(p)
    PROVE  /\ \A q \in Procs \ {p} : pc'[q] = pc[q] /\ job'[q] = job[q]
           /\ now' = now /\ UNCHANGED <<configured, switches>>
<1>1. \A q \in Procs \ {p} : pc'[q] = pc[q] /\ job'[q] = job[q]
    BY Effects DEF ProcsOK, Go
<1>2. UNCHANGED <<configured, switches>>
    BY DEF Start, Step, GuardStep, QueryStep, RecordStep, ResultStep, Lookup, CheckCircuit, Reserve,
           Answer, Retry, NoQuery, QueryFails, RecordError, RecordSuccess, Put, Classify, Report,
           Catch, Die, environment
<1> QED
    BY <1>1, <1>2, Effects

\* A verdict that may be kept is kept for a while longer.
LEMMA KeptLonger ==
    ASSUME WorldOK, ProcsOK, NEW p \in Procs
    PROVE  KeptUntil(p) \in Int /\ (KeptUntil(p) > now => KeptUntil(p) \in Nat \ {0})
<1>1. now \in Nat /\ job[p].expires \in Nat
    <2>1. job[p] \in Jobs
        BY DEF ProcsOK
    <2>2. job[p].expires \in Nat
        BY <2>1 DEF Jobs
    <2>3. now \in Nat
        BY ClassifierBounds DEF WorldOK
    <2> QED
        BY <2>2, <2>3
<1>2. \A a, b \in Nat : Max({a, b}) \in Nat
    <2> TAKE a, b \in Nat
    <2>1. \E x \in {a, b} : \A y \in {a, b} : x >= y
        <3>1. CASE a >= b
            BY <3>1
        <3>2. CASE b >= a
            BY <3>2
        <3> QED
            BY <3>1, <3>2
    <2> QED
        BY <2>1 DEF Max
<1>3. KeptUntil(p) \in Int
    BY <1>1, <1>2, TtlAssumption DEF KeptUntil
<1> QED
    BY <1>1, <1>3

\* Every step keeps the types.
LEMMA TypesStep == WorldOK /\ ProcsOK /\ [Next]_vars => WorldOK' /\ ProcsOK'
<1>0. SUFFICES ASSUME WorldOK, ProcsOK, [Next]_vars PROVE WorldOK' /\ ProcsOK'
    OBVIOUS
<1>a. /\ now \in Nat /\ Month(now) \in Months /\ MaxTime \in Nat /\ Cooldown \in Nat
      /\ Limit \in Nat \ {0} /\ MaxAlerts \in Nat /\ MaxSwitches \in Nat /\ MaxFaults \in Nat
    BY <1>0, ClassifierBounds, GuardAssumption, MonthsGrow DEF WorldOK
<1>b. Fault => faults' \in 0..MaxFaults
    BY <1>0, <1>a DEF Fault, WorldOK
<1>1. CASE UNCHANGED vars
    BY <1>0, <1>1 DEF vars, environment, store, WorldOK, ProcsOK, Knows, Jobs
<1>2. CASE Tick
    <2>1. now' \in 0..MaxTime
        BY <1>0, <1>a, <1>2 DEF Tick, WorldOK
    <2>2. Jobs \subseteq Jobs'
        <3>1. 0..now \subseteq 0..now'
            BY <1>a, <1>2 DEF Tick
        <3> QED
            BY <3>1 DEF Jobs
    <2>3. ProcsOK'
        BY <1>0, <1>2, <2>2 DEF Tick, ProcsOK, Knows
    <2> QED
        BY <1>0, <1>2, <2>1, <2>3 DEF Tick, store, WorldOK
<1>3. CASE SwitchProvider
    <2>1. configured' \in Providers \cup {Refused}
        BY <1>3, Inputs DEF SwitchProvider
    <2>2. switches' \in 0..MaxSwitches
        BY <1>0, <1>a, <1>3 DEF SwitchProvider, WorldOK
    <2> QED
        BY <1>0, <1>3, <2>1, <2>2 DEF SwitchProvider, store, WorldOK, ProcsOK, Knows, Jobs
<1>4. ASSUME NEW p \in Procs, Start(p) \/ Step(p) \/ Catch(p) \/ Die(p)
      PROVE  WorldOK' /\ ProcsOK'
    <2>1. ProcsOK'
        <3>1. PICK state \in PcStates, j \in Jobs :
                Go(p, state) /\ job' = [job EXCEPT ![p] = j] /\ Knows(state, j)
            BY <1>0, <1>4, Effects
        <3>2. Jobs' = Jobs
            BY <1>0, <1>4, Others DEF Jobs
        <3> QED
            BY <1>0, <3>1, <3>2 DEF ProcsOK, Go, Knows
    <2>2. now' \in 0..MaxTime /\ configured' = configured /\ switches' = switches
        BY <1>0, <1>4, Others DEF WorldOK
    <2>3. alerts' \in 0..MaxAlerts
        <3>1. alerts' = alerts \/ (alerts < MaxAlerts /\ alerts' = alerts + 1)
            BY <1>4 DEF Start, Step, GuardStep, QueryStep, RecordStep, ResultStep, Lookup,
               CheckCircuit, Reserve, Answer, Retry, NoQuery, QueryFails, RecordError,
               RecordSuccess, Put, Classify, Report, Catch, Die, environment
        <3> QED
            BY <1>0, <1>a, <3>1 DEF WorldOK
    <2>4. faults' \in 0..MaxFaults
        <3>1. faults' = faults \/ Fault
            BY <1>4 DEF Start, Step, GuardStep, QueryStep, RecordStep, ResultStep, Lookup,
               CheckCircuit, Reserve, Answer, Retry, NoQuery, QueryFails, RecordError,
               RecordSuccess, Put, Classify, Report, Catch, Die, environment
        <3> QED
            BY <1>0, <1>b, <3>1 DEF WorldOK
    <2>5. usage' \in [Months -> 0..Limit]
        <3>1. \/ usage' = usage
              \/ usage[Month(now)] < Limit /\ usage' = [usage EXCEPT ![Month(now)] = @ + 1]
            <4>1. CASE Reserve(p)
                <5>1. usage[Month(now)] \in 0..Limit
                    BY <1>0, <1>a DEF WorldOK
                <5> QED
                    BY <1>a, <4>1, <5>1 DEF Reserve
            <4>2. CASE ~Reserve(p)
                BY <1>4, <4>2 DEF Start, Step, GuardStep, QueryStep, RecordStep, ResultStep, Lookup,
                   CheckCircuit, Answer, Retry, NoQuery, QueryFails, RecordError,
                   RecordSuccess, Put, Classify, Report, Catch, Die, store
            <4> QED
                BY <4>1, <4>2
        <3> QED
            BY <1>0, <1>a, <3>1 DEF WorldOK
    <2>6. circuit' \in 0..MaxTime + Cooldown
        <3>1. circuit' \in {circuit, 0, now + Cooldown}
            BY <1>4 DEF Start, Step, GuardStep, QueryStep, RecordStep, ResultStep, Lookup,
               CheckCircuit, Reserve, Answer, Retry, NoQuery, QueryFails, RecordError,
               RecordSuccess, Put, Classify, Report, Catch, Die, store
        <3>2. circuit \in 0..MaxTime + Cooldown /\ now \in 0..MaxTime
            BY <1>0 DEF WorldOK
        <3> QED
            BY <1>a, <3>1, <3>2
    <2>7. /\ DOMAIN cache' \subseteq Providers \X Urls
          /\ \A k \in DOMAIN cache' :
                cache'[k].verdict \in Verdicts /\ cache'[k].expires \in Nat \ {0}
        <3>1. CASE Put(p)
            <4> DEFINE key == <<job[p].provider, job[p].url>>
                       entry == [verdict |-> job[p].verdict, expires |-> KeptUntil(p)]
            <4>1. /\ cache' = IF KeptUntil(p) > now
                              THEN [k \in DOMAIN cache \cup {key} |->
                                        IF k = key THEN entry ELSE cache[k]]
                              ELSE cache
                  /\ pc[p] = "caching"
                BY <3>1 DEF Put
            <4>2. key \in Providers \X Urls /\ job[p].verdict \in Verdicts
                BY <1>0, <4>1 DEF ProcsOK, Knows
            <4>3. KeptUntil(p) > now => entry.verdict \in Verdicts /\ entry.expires \in Nat \ {0}
                BY <1>0, <4>2, KeptLonger
            <4> HIDE DEF key, entry
            <4> QED
                BY <1>0, <4>1, <4>2, <4>3 DEF WorldOK
        <3>2. CASE ~Put(p)
            <4>1. cache' = cache
                BY <1>4, <3>2 DEF Start, Step, GuardStep, QueryStep, RecordStep, ResultStep,
                   Lookup, CheckCircuit, Reserve, Answer, Retry, NoQuery, QueryFails, RecordError,
                   RecordSuccess, Classify, Report, Catch, Die, store
            <4> QED
                BY <1>0, <4>1 DEF WorldOK
        <3> QED
            BY <3>1, <3>2
    <2>8. WorldOK'
        BY <1>0, <2>2, <2>3, <2>4, <2>5, <2>6, <2>7 DEF WorldOK
    <2> QED
        BY <2>1, <2>8
<1> QED
    BY <1>0, <1>1, <1>2, <1>3, <1>4 DEF Next
-----------------------------------------------------------------------------
(* The circuit breaker.                                                    *)

\* Every step keeps the circuit breaker closed, or open since the last failure.
LEMMA BreakerStep == WorldOK /\ ProcsOK /\ BreakerOK /\ [Next]_vars => BreakerOK'
<1>0. SUFFICES ASSUME WorldOK, ProcsOK, BreakerOK, [Next]_vars PROVE BreakerOK'
    OBVIOUS
<1>a. now \in Nat /\ Cooldown \in Nat \ {0}
    BY <1>0, ClassifierBounds, GuardAssumption DEF WorldOK
<1>b. \A q \in Procs : job[q].checked \in Nat /\ job[q].checked <= now
    <2> TAKE q \in Procs
    <2>1. job[q] \in Jobs
        BY <1>0 DEF ProcsOK
    <2> QED
        <3>1. job[q].checked \in 0..now
            BY <2>1 DEF Jobs
        <3> QED
            BY <1>a, <3>1
<1>1. CASE UNCHANGED vars \/ SwitchProvider
    BY <1>0, <1>1 DEF SwitchProvider, vars, environment, store, history, BreakerOK,
       OpenBreakerStopsCalls, CircuitOpen, IsGoogle
<1>2. CASE Tick
    <2>1. /\ now' = now + 1 /\ UNCHANGED <<circuit, upset, pc, job>>
        BY <1>2 DEF Tick, store, history
    <2>2. circuit \in Nat
        BY <1>0, <1>a DEF BreakerOK
    <2>3. OpenBreakerStopsCalls'
        BY <1>0, <1>a, <2>1, <2>2 DEF BreakerOK, OpenBreakerStopsCalls, CircuitOpen, IsGoogle
    <2> QED
        BY <1>0, <1>a, <2>1, <2>3 DEF BreakerOK, Never
<1>3. ASSUME NEW p \in Procs, Start(p) \/ Step(p) \/ Catch(p) \/ Die(p)
      PROVE  BreakerOK'
    <2>0. /\ \A q \in Procs \ {p} : pc'[q] = pc[q] /\ job'[q] = job[q]
          /\ now' = now
        BY <1>0, <1>3, Others
    <2>2. \A q \in Procs : job'[q].checked <= now
        <3> TAKE q \in Procs
        <3>1. job'[q] \in Jobs'
            BY <1>0, TypesStep DEF ProcsOK
        <3> QED
            <4>1. job'[q].checked \in 0..now'
                BY <3>1 DEF Jobs
            <4> QED
                BY <1>a, <2>0, <4>1
    <2>3. CASE RecordError(p) \/ RecordSuccess(p)
        <3>1. /\ pc'[p] \notin {"reserve", "query"}
              /\ \/ UNCHANGED <<circuit, upset>>
                 \/ circuit' = now + Cooldown /\ upset' = now
                 \/ circuit' = 0 /\ upset' = Never
            BY <1>0, <2>3 DEF RecordError, RecordSuccess, Fails, Go, ProcsOK
        <3>2. CASE UNCHANGED <<circuit, upset>>
            <4>1. OpenBreakerStopsCalls'
                BY <1>0, <2>0, <3>1, <3>2
                   DEF BreakerOK, OpenBreakerStopsCalls, CircuitOpen, IsGoogle
            <4> QED
                BY <1>0, <2>0, <3>2, <4>1 DEF BreakerOK
        <3>3. CASE circuit' = now + Cooldown /\ upset' = now
            BY <1>a, <2>0, <2>2, <3>3 DEF BreakerOK, OpenBreakerStopsCalls
        <3>4. CASE circuit' = 0 /\ upset' = Never
            <4>1. ~CircuitOpen'
                BY <1>a, <2>0, <3>4 DEF CircuitOpen
            <4> QED
                BY <1>a, <2>0, <3>4, <4>1 DEF BreakerOK, OpenBreakerStopsCalls, Never
        <3> QED
            BY <3>1, <3>2, <3>3, <3>4
    <2>4. CASE ~RecordError(p) /\ ~RecordSuccess(p)
        <3>1. UNCHANGED <<circuit, upset>>
            BY <1>3, <2>4 DEF Start, Step, GuardStep, QueryStep, RecordStep, ResultStep,
               Lookup, CheckCircuit, Reserve, Answer, Retry, NoQuery, QueryFails, Put, Classify,
               Report, Catch, Die, store, history
        <3>2. ASSUME CircuitOpen, IsGoogle(p)', pc'[p] \in {"reserve", "query"}
              PROVE  job'[p].checked <= upset
            <4>1. ~(Start(p) \/ ResultStep(p) \/ Put(p) \/ Catch(p) \/ Die(p))
                BY <1>0, <3>2 DEF Start, ResultStep, Put, Classify, Report, Catch, Die, Go, ProcsOK
            <4>2. ~(Answer(p) \/ NoQuery(p) \/ QueryFails(p) \/ CheckCircuit(p))
                BY <1>0, <3>2 DEF Answer, NoQuery, QueryFails, CheckCircuit, Fails, Go, ProcsOK
            <4>3. ~Lookup(p)
                BY <1>0, <3>2 DEF Lookup, Go, ProcsOK, IsGoogle
            <4>4. Reserve(p) \/ Retry(p)
                BY <1>3, <2>4, <4>1, <4>2, <4>3
                   DEF Step, GuardStep, QueryStep, RecordStep
            <4>5. /\ pc[p] \in {"reserve", "query"} /\ job'[p].checked = job[p].checked
                  /\ job'[p].provider = job[p].provider
                <5>1. job[p] \in Jobs
                    BY <1>0 DEF ProcsOK
                <5>2. CASE Reserve(p)
                    BY <1>0, <3>2, <5>2 DEF Reserve, Fails, Go, ProcsOK
                <5>3. CASE Retry(p)
                    BY <1>0, <5>1, <5>3 DEF Retry, ProcsOK, Jobs
                <5> QED
                    BY <4>4, <5>2, <5>3
            <4> QED
                BY <1>0, <3>2, <4>5 DEF BreakerOK, OpenBreakerStopsCalls, IsGoogle
        <3>3. OpenBreakerStopsCalls'
            BY <1>0, <2>0, <3>1, <3>2 DEF BreakerOK, OpenBreakerStopsCalls, CircuitOpen, IsGoogle
        <3> QED
            BY <1>0, <2>0, <3>1, <3>3 DEF BreakerOK
    <2> QED
        BY <2>3, <2>4
<1> QED
    BY <1>0, <1>1, <1>2, <1>3 DEF Next

-----------------------------------------------------------------------------
(* The verdicts.                                                           *)

\* Every step keeps what the cache holds and what is classified grounded in an answer.
LEMMA GroundedStep == WorldOK /\ ProcsOK /\ GroundedOK /\ [Next]_vars => GroundedOK'
<1>0. SUFFICES ASSUME WorldOK, ProcsOK, GroundedOK, [Next]_vars PROVE GroundedOK'
    OBVIOUS
<1>1. CASE UNCHANGED vars \/ SwitchProvider \/ Tick
    <2>1. UNCHANGED <<cache, pc, job, answers>>
        BY <1>1 DEF Tick, SwitchProvider, vars, environment, store, history
    <2>2. VerdictsAreGrounded'
        BY <1>0, <2>1 DEF GroundedOK, VerdictsAreGrounded
    <2> QED
        BY <1>0, <2>1, <2>2 DEF GroundedOK, Grounded
<1>2. ASSUME NEW p \in Procs, Start(p) \/ Step(p) \/ Catch(p) \/ Die(p)
      PROVE  GroundedOK'
    <2>0. /\ \A q \in Procs \ {p} : pc'[q] = pc[q] /\ job'[q] = job[q]
          /\ now' = now /\ job[p] \in Jobs
        BY <1>0, <1>2, Others DEF ProcsOK
    <2>1. answers \subseteq answers'
        BY <1>2 DEF Start, Step, GuardStep, QueryStep, RecordStep, ResultStep, Lookup,
           CheckCircuit, Reserve, Answer, Retry, NoQuery, QueryFails, RecordError,
           RecordSuccess, Put, Classify, Report, Catch, Die, history
    <2>2. \A k \in DOMAIN cache' : \E a \in answers' :
            a.key = k /\ a.verdict = cache'[k].verdict /\ a.until = cache'[k].expires
        <3>1. CASE Put(p)
            <4> DEFINE key == <<job[p].provider, job[p].url>>
                       entry == [verdict |-> job[p].verdict, expires |-> KeptUntil(p)]
                       answer == [key |-> key, verdict |-> job[p].verdict,
                                  from |-> job[p].asked, until |-> KeptUntil(p)]
            <4>1. /\ \/ cache' = cache
                     \/ cache' = [k \in DOMAIN cache \cup {key} |->
                                    IF k = key THEN entry ELSE cache[k]]
                  /\ answers' = answers \cup {answer}
                BY <3>1 DEF Put
            <4>2. /\ answer.key = key /\ answer.verdict = entry.verdict
                  /\ answer.until = entry.expires
                OBVIOUS
            <4> HIDE DEF key, entry, answer
            <4>3. ASSUME NEW k \in DOMAIN cache'
                  PROVE  \/ k = key /\ cache'[k] = entry
                         \/ k \in DOMAIN cache /\ cache'[k] = cache[k]
                BY <4>1
            <4>4. ASSUME NEW k \in DOMAIN cache'
                  PROVE  \E a \in answers' : /\ a.key = k /\ a.verdict = cache'[k].verdict
                                            /\ a.until = cache'[k].expires
                <5>1. CASE k = key /\ cache'[k] = entry
                    <6>1. answer \in answers'
                        BY <4>1
                    <6> QED
                        BY <4>2, <5>1, <6>1
                <5>2. CASE k \in DOMAIN cache /\ cache'[k] = cache[k]
                    <6>1. PICK a \in answers : /\ a.key = k /\ a.verdict = cache[k].verdict
                                               /\ a.until = cache[k].expires
                        BY <1>0, <5>2 DEF GroundedOK
                    <6> QED
                        BY <2>1, <5>2, <6>1
                <5> QED
                    BY <4>3, <4>4, <5>1, <5>2
            <4> QED
                BY <4>4
        <3>2. CASE ~Put(p)
            <4>1. cache' = cache
                BY <1>2, <3>2 DEF Start, Step, GuardStep, QueryStep, RecordStep, ResultStep,
                   Lookup, CheckCircuit, Reserve, Answer, Retry, NoQuery, QueryFails, RecordError,
                   RecordSuccess, Classify, Report, Catch, Die, store
            <4> QED
                BY <1>0, <2>1, <4>1 DEF GroundedOK
        <3> QED
            BY <3>1, <3>2
    <2>3. ASSUME NEW q \in Procs \ {p}, NEW v PROVE Grounded(q, v) => Grounded(q, v)'
        BY <2>0, <2>1 DEF Grounded
    <2>4. ASSUME pc'[p] = "scoring", job'[p].failure = "" PROVE Grounded(p, job[p].verdict)'
        <3>1. ~(RecordError(p) \/ CheckCircuit(p) \/ Reserve(p))
            <4>1. ASSUME NEW failure \in Failures PROVE ~Fails(p, failure)
                <5>1. failure # ""
                    BY DEF Failures
                <5> QED
                    BY <1>0, <2>0, <2>4, <5>1 DEF Fails, ProcsOK, Jobs
            <4> QED
                BY <1>0, <2>4, <4>1
                   DEF RecordError, CheckCircuit, Reserve, Go, ProcsOK, Failures
        <3>2. ~(Start(p) \/ QueryStep(p) \/ RecordSuccess(p) \/ ResultStep(p) \/ Catch(p) \/ Die(p))
            BY <1>0, <2>4 DEF Start, QueryStep, Answer, Retry, NoQuery, QueryFails, RecordSuccess,
               ResultStep, Classify, Report, Catch, Die, Go, ProcsOK
        <3>3. CASE Lookup(p)
            <4> DEFINE key == <<job[p].provider, job[p].url>>
            <4>1. key \in DOMAIN cache /\ cache[key].expires > now
                BY <1>0, <2>4, <3>3 DEF Lookup, Go, ProcsOK, Cached
            <4>2. PICK a \in answers : /\ a.key = key /\ a.verdict = cache[key].verdict
                                       /\ a.until = cache[key].expires
                BY <1>0, <4>1 DEF GroundedOK
            <4>3. job' = [job EXCEPT ![p].verdict = cache[key].verdict, ![p].asked = now]
                BY <3>3, <4>1 DEF Lookup, Cached
            <4>4. /\ job'[p].provider = job[p].provider /\ job'[p].url = job[p].url
                  /\ job'[p].verdict = cache[key].verdict /\ job'[p].asked = now
                BY <1>0, <2>0, <4>3 DEF ProcsOK, Jobs
            <4>5. now < a.until
                <5>1. now \in Nat /\ cache[key].expires \in Nat
                    BY <1>0, <4>1, ClassifierBounds DEF WorldOK
                <5> QED
                    BY <4>1, <4>2, <5>1
            <4> QED
                BY <2>1, <4>2, <4>4, <4>5 DEF Grounded
        <3>4. CASE Put(p)
            <4> DEFINE answer == [key |-> <<job[p].provider, job[p].url>>,
                                  verdict |-> job[p].verdict,
                                  from |-> job[p].asked, until |-> KeptUntil(p)]
            <4>1. answer \in answers' /\ job' = [job EXCEPT ![p].expires = 0]
                BY <3>4 DEF Put
            <4>2. /\ job'[p].provider = job[p].provider /\ job'[p].url = job[p].url
                  /\ job'[p].verdict = job[p].verdict /\ job'[p].asked = job[p].asked
                BY <1>0, <2>0, <4>1 DEF ProcsOK, Jobs
            <4> QED
                BY <4>1, <4>2 DEF Grounded
        <3> QED
            BY <1>2, <3>1, <3>2, <3>3, <3>4 DEF Step, GuardStep, RecordStep
    <2>5. ASSUME pc'[p] = "report", job'[p].status \in Verdicts \cup {"unlikely"}
          PROVE  \E a \in answers' :
                    /\ a.key = <<job'[p].provider, job'[p].url>>
                    /\ \/ a.verdict = job'[p].status
                       \/ a.verdict # "malicious" /\ job'[p].status = "unlikely"
                    /\ job'[p].asked = a.from \/ job'[p].asked < a.until
        <3>1. ~(GuardStep(p) \/ QueryStep(p) \/ RecordStep(p) \/ Report(p) \/ Die(p))
            BY <1>0, <2>5 DEF GuardStep, QueryStep, RecordStep, Lookup, CheckCircuit, Reserve,
               Answer, Retry, NoQuery, QueryFails, RecordError, RecordSuccess, Put, Report, Die,
               Fails, Go, ProcsOK
        <3>2. ~(Start(p) \/ Catch(p))
            BY <1>0, <2>5 DEF Start, Catch, Go, ProcsOK, NoJob, Verdicts
        <3>3. Classify(p)
            BY <1>2, <3>1, <3>2 DEF Step, ResultStep
        <3>4. PICK ml \in (IF MlEnabled THEN MlVerdicts ELSE {"none"}) :
                job' = [job EXCEPT ![p].status = Status(job[p].failure # "", job[p].verdict, ml),
                                   ![p].failure = "", ![p].verdict = ""]
            BY <3>3 DEF Classify
        <3>5. /\ job'[p].provider = job[p].provider /\ job'[p].url = job[p].url
              /\ job'[p].asked = job[p].asked
              /\ job'[p].status = Status(job[p].failure # "", job[p].verdict, ml)
            BY <1>0, <2>0, <3>4 DEF ProcsOK, Jobs
        <3>6. /\ job[p].failure = ""
              /\ \/ job'[p].status = job[p].verdict
                 \/ job[p].verdict # "malicious" /\ job'[p].status = "unlikely"
            <4> DEFINE s == job'[p].status
                       v == job[p].verdict
                       failed == job[p].failure # ""
            <4>1. s \in Verdicts \cup {"unlikely"} /\ s = Status(failed, v, ml)
                BY <2>5, <3>5
            <4>2. ml \in MlVerdicts \cup {"none"}
                BY <3>4
            <4> HIDE DEF s, v, failed
            <4>3. ~failed /\ (s = v \/ (v # "malicious" /\ s = "unlikely"))
                BY <4>1, <4>2 DEF Status, Verdicts, MlVerdicts
            <4> QED
                BY <4>3 DEF s, v, failed
        <3>7. PICK a \in answers : /\ a.key = <<job[p].provider, job[p].url>>
                                   /\ a.verdict = job[p].verdict
                                   /\ job[p].asked = a.from \/ job[p].asked < a.until
            BY <1>0, <3>3, <3>6 DEF GroundedOK, Grounded, Classify
        <3> QED
            BY <2>1, <3>5, <3>6, <3>7
    <2>6. ASSUME NEW q \in Procs, pc'[q] = "scoring", job'[q].failure = ""
          PROVE  Grounded(q, job[q].verdict)'
        <3>1. CASE q = p
            BY <2>4, <2>6, <3>1
        <3>2. CASE q # p
            <4>1. Grounded(q, job[q].verdict)
                BY <1>0, <2>0, <2>6, <3>2 DEF GroundedOK
            <4> QED
                BY <2>0, <2>1, <3>2, <4>1 DEF Grounded
        <3> QED
            BY <3>1, <3>2
    <2>7. VerdictsAreGrounded'
        <3> SUFFICES ASSUME NEW q \in Procs, pc'[q] = "report",
                            job'[q].status \in Verdicts \cup {"unlikely"}
                     PROVE  \E a \in answers' :
                                /\ a.key = <<job'[q].provider, job'[q].url>>
                                /\ \/ a.verdict = job'[q].status
                                   \/ a.verdict # "malicious" /\ job'[q].status = "unlikely"
                                /\ job'[q].asked = a.from \/ job'[q].asked < a.until
            BY DEF VerdictsAreGrounded
        <3>1. CASE q = p
            BY <2>5, <3>1
        <3>2. CASE q # p
            <4>1. pc[q] = "report" /\ job'[q] = job[q]
                BY <2>0, <3>2
            <4>2. PICK a \in answers :
                    /\ a.key = <<job[q].provider, job[q].url>>
                    /\ \/ a.verdict = job[q].status
                       \/ a.verdict # "malicious" /\ job[q].status = "unlikely"
                    /\ job[q].asked = a.from \/ job[q].asked < a.until
                BY <1>0, <4>1 DEF GroundedOK, VerdictsAreGrounded
            <4> QED
                BY <2>1, <4>1, <4>2
        <3> QED
            BY <3>1, <3>2
    <2> QED
        BY <2>2, <2>6, <2>7 DEF GroundedOK
<1> QED
    BY <1>0, <1>1, <1>2 DEF Next
-----------------------------------------------------------------------------
(* The calls to Google.                                                    *)

\* Counting one more in a month adds one to what is counted up to that month and later ones.
LEMMA EachGrows ==
    ASSUME NEW count \in [Months -> Nat], NEW c \in Months, NEW m \in Months,
           IsFiniteSet(Each(count, m)), NEW more, more = [count EXCEPT ![c] = @ + 1]
    PROVE  /\ IsFiniteSet(Each(more, m))
           /\ m < c => Cardinality(Each(more, m)) = Cardinality(Each(count, m))
           /\ m >= c => Cardinality(Each(more, m)) = Cardinality(Each(count, m)) + 1
<1> DEFINE x == <<c, count[c] + 1>>
<1>1. /\ c \in Nat /\ m \in Nat /\ 0..m \subseteq Months
      /\ \A k \in Months : count[k] \in Nat
    <2>1. Month(MaxTime) \in Nat
        BY ClassifierBounds, MonthsGrow
    <2> QED
        BY <2>1 DEF Months
<1>2. more[c] = count[c] + 1
      /\ \A k \in Months \ {c} : more[k] = count[k]
    BY <1>1
<1>3. CASE m < c
    <2>1. \A k \in 0..m : more[k] = count[k]
        BY <1>1, <1>2, <1>3
    <2>2. Each(more, m) = Each(count, m)
        BY <2>1 DEF Each
    <2> QED
        BY <1>1, <1>3, <2>2
<1>4. CASE m >= c
    <2>1. Each(more, m) = Each(count, m) \cup {x}
        <3>1. c \in 0..m
            BY <1>1, <1>4
        <3>2. 1..more[c] = (1..count[c]) \cup {count[c] + 1}
            BY <1>1, <1>2
        <3>3. \A k \in 0..m : k # c => more[k] = count[k]
            BY <1>1, <1>2
        <3>4. \A k \in 0..m : {k} \X (1..more[k]) \subseteq Each(count, m) \cup {x}
            <4> TAKE k \in 0..m
            <4>1. CASE k = c
                BY <3>2, <4>1 DEF Each
            <4>2. CASE k # c
                BY <3>3, <4>2 DEF Each
            <4> QED
                BY <4>1, <4>2
        <3>5. \A k \in 0..m : {k} \X (1..count[k]) \subseteq Each(more, m)
            <4> TAKE k \in 0..m
            <4>1. CASE k = c
                BY <3>2, <4>1 DEF Each
            <4>2. CASE k # c
                BY <3>3, <4>2 DEF Each
            <4> QED
                BY <4>1, <4>2
        <3>6. x \in Each(more, m)
            BY <3>1, <3>2 DEF Each
        <3> QED
            BY <3>4, <3>5, <3>6 DEF Each
    <2>2. x \notin Each(count, m)
        <3>1. SUFFICES ASSUME NEW k \in 0..m, x \in {k} \X (1..count[k]) PROVE FALSE
            BY DEF Each
        <3>2. count[c] + 1 \in 1..count[c]
            BY <3>1
        <3> QED
            BY <1>1, <3>2
    <2>3. /\ IsFiniteSet(Each(count, m) \cup {x})
          /\ Cardinality(Each(count, m) \cup {x}) = Cardinality(Each(count, m)) + 1
        BY <2>2, FS_AddElement
    <2>4. /\ IsFiniteSet(Each(more, m))
          /\ Cardinality(Each(more, m)) = Cardinality(Each(count, m)) + 1
        BY <2>1, <2>3
    <2>5. ~(m < c)
        BY <1>1, <1>4
    <2> QED
        BY <2>4, <2>5
<1>5. m < c \/ m >= c
    BY <1>1
<1> QED
    BY <1>3, <1>4, <1>5

\* The reservations and the calls that may still be made are finite.
LEMMA FiniteCalls ==
    /\ IsFiniteSet(Procs \X (0..RetryCount))
    /\ \A S \in SUBSET (Procs \X (0..RetryCount)) : IsFiniteSet(S) /\ Cardinality(S) \in Nat
    /\ \A count \in [Months -> 0..Limit], m \in Months :
            IsFiniteSet(Each(count, m)) /\ Cardinality(Each(count, m)) \in Nat
<1>1. RetryCount \in Int /\ Limit \in Int /\ \A m \in Months : m \in Int /\ 0..m \subseteq Months
    <2>1. Month(MaxTime) \in Nat
        BY ClassifierBounds, MonthsGrow
    <2> QED
        BY <2>1, GuardAssumption DEF Months
<1>2. IsFiniteSet(Procs \X (0..RetryCount))
    <2>1. IsFiniteSet(0..RetryCount)
        BY <1>1, FS_Interval
    <2> QED
        BY <2>1, FS_Product, ClassifierBounds
<1>3. ASSUME NEW S \in SUBSET (Procs \X (0..RetryCount))
      PROVE  IsFiniteSet(S) /\ Cardinality(S) \in Nat
    <2>1. IsFiniteSet(S)
        BY <1>2, FS_Subset
    <2> QED
        BY <2>1, FS_CardinalityType
<1>4. ASSUME NEW count \in [Months -> 0..Limit], NEW m \in Months
      PROVE  IsFiniteSet(Each(count, m)) /\ Cardinality(Each(count, m)) \in Nat
    <2>1. \A k \in 0..m : 1..count[k] \subseteq 1..Limit
        BY <1>1
    <2>2. Each(count, m) \subseteq (0..m) \X (1..Limit)
        BY <2>1 DEF Each
    <2>3. IsFiniteSet(0..m) /\ IsFiniteSet(1..Limit)
        BY <1>1, FS_Interval
    <2>4. IsFiniteSet((0..m) \X (1..Limit))
        BY <2>3, FS_Product
    <2>5. IsFiniteSet(Each(count, m))
        BY <2>2, <2>4, FS_Subset
    <2> QED
        BY <2>5, FS_CardinalityType
<1> QED
    BY <1>2, <1>3, <1>4

\* Only a reservation adds to the calls that may still be made.
LEMMA SlotsChange ==
    ASSUME WorldOK, ProcsOK, NEW p \in Procs, Start(p) \/ Step(p) \/ Catch(p) \/ Die(p)
    PROVE  /\ pc'[p] # "query" => Slots' \subseteq {s \in Slots : s[1] # p}
           /\ Reserve(p) => Slots' \subseteq Slots \cup {p} \X (0..RetryCount)
           /\ Retry(p) => Slots' \subseteq Slots \ {<<p, job[p].attempt>>}
           /\ Lookup(p) => Slots' \subseteq Slots
           /\ pc[p] = "query" /\ IsGoogle(p) => <<p, job[p].attempt>> \in Slots
<1>1. /\ \A q \in Procs \ {p} : pc'[q] = pc[q] /\ job'[q] = job[q]
      /\ job[p] \in Jobs
    BY Others DEF ProcsOK
<1>2. ASSUME NEW s \in Slots', s[1] # p PROVE s \in Slots
    BY <1>1, <1>2 DEF Slots, IsGoogle
<1>3. pc'[p] # "query" => \A s \in Slots' : s[1] # p
    BY DEF Slots
<1>4. ASSUME Reserve(p) PROVE Slots' \subseteq Slots \cup {p} \X (0..RetryCount)
    <2>1. \A s \in Slots' : s[1] = p => s \in {p} \X (0..RetryCount)
        BY DEF Slots
    <2> QED
        BY <1>2, <2>1
<1>5. ASSUME Retry(p) PROVE Slots' \subseteq Slots \ {<<p, job[p].attempt>>}
    <2>1. /\ pc[p] = "query" /\ IsGoogle(p)
          /\ job'[p].attempt = job[p].attempt + 1
        BY <1>1, <1>5 DEF Retry, ProcsOK, Jobs
    <2>6. job[p].attempt \in 0..RetryCount
        BY <1>1 DEF Jobs
    <2>2. job[p].attempt \in 0..RetryCount /\ RetryCount \in Nat
        BY <2>6, GuardAssumption
    <2> SUFFICES ASSUME NEW s \in Slots' PROVE s \in Slots /\ s # <<p, job[p].attempt>>
        OBVIOUS
    <2>3. s \in Procs \X (0..RetryCount) /\ s[2] >= job'[s[1]].attempt
        BY DEF Slots
    <2>4. CASE s[1] = p
        <3>1. s[2] \in 0..RetryCount /\ s[2] >= job[p].attempt + 1
            BY <2>1, <2>3, <2>4
        <3> HIDE DEF Jobs
        <3>2. s[2] >= job[p].attempt /\ s[2] # job[p].attempt
            BY <2>2, <3>1
        <3> QED
            BY <2>1, <2>3, <2>4, <3>2 DEF Slots
    <2>5. CASE s[1] # p
        BY <1>2, <2>5
    <2> QED
        BY <2>4, <2>5
<1>6. ASSUME Lookup(p) PROVE Slots' \subseteq Slots
    <2>1. pc'[p] = "query" => ~IsGoogle(p) /\ job' = job
        BY <1>6 DEF Lookup, Go, ProcsOK
    <2>2. \A s \in Slots' : s[1] # p
        BY <2>1 DEF Slots, IsGoogle
    <2> QED
        BY <1>2, <2>2
<1>7. pc[p] = "query" /\ IsGoogle(p) => <<p, job[p].attempt>> \in Slots
    <2>1. job[p].attempt \in 0..RetryCount
        BY <1>1 DEF Jobs
    <2>2. job[p].attempt >= job[p].attempt
        BY <2>1, GuardAssumption
    <2> QED
        BY <2>1, <2>2 DEF Slots
<1> QED
    BY <1>2, <1>3, <1>4, <1>5, <1>6, <1>7
\* A call that is not made to Google is not counted.
LEMMA OutboundCall ==
    ASSUME ReservedOK, NEW p \in Procs, Outbound(p)
    PROVE  outbound' = IF IsGoogle(p) THEN [outbound EXCEPT ![Month(now)] = @ + 1] ELSE outbound
<1>1. outbound \in [Months -> Nat]
    BY DEF ReservedOK
<1>2. CASE IsGoogle(p)
    BY <1>2 DEF Outbound
<1>3. CASE ~IsGoogle(p)
    BY <1>1, <1>3 DEF Outbound
<1> QED
    BY <1>2, <1>3

\* Every step keeps the calls covered by the reservations.
LEMMA ReservedStep == WorldOK /\ ProcsOK /\ ReservedOK /\ [Next]_vars => ReservedOK'
<1>0. SUFFICES ASSUME WorldOK, ProcsOK, ReservedOK, [Next]_vars PROVE ReservedOK'
    OBVIOUS
<1>a. /\ RetryCount \in Nat /\ now \in Nat /\ Month(now) \in Months /\ Month(now) \in Nat
      /\ Months \subseteq Nat /\ outbound \in [Months -> Nat] /\ usage \in [Months -> Nat]
      /\ WorldOK' /\ ProcsOK'
    <2>1. now \in Nat /\ now \in 0..MaxTime /\ usage \in [Months -> 0..Limit]
        BY <1>0, ClassifierBounds DEF WorldOK
    <2>2. Months \subseteq Nat
        BY DEF Months
    <2>3. usage \in [Months -> Nat]
        BY <2>1, GuardAssumption
    <2> QED
        BY <1>0, <2>1, <2>2, <2>3, MonthsGrow, TypesStep, GuardAssumption DEF ReservedOK
<1>b. /\ Cardinality(Slots) \in Nat /\ Cardinality(Slots') \in Nat
      /\ IsFiniteSet(Slots) /\ IsFiniteSet(Slots')
      /\ \A m \in Months :
            /\ IsFiniteSet(Each(outbound, m)) /\ Cardinality(Each(outbound, m)) \in Nat
            /\ IsFiniteSet(Each(usage, m)) /\ Cardinality(Each(usage, m)) \in Nat
            /\ Cardinality(Each(usage', m)) \in Nat
            /\ (RetryCount + 1) * Cardinality(Each(usage, m)) \in Nat
    <2>1. /\ Cardinality(Slots) \in Nat /\ Cardinality(Slots') \in Nat
          /\ IsFiniteSet(Slots) /\ IsFiniteSet(Slots')
        <3>1. /\ Slots \subseteq Procs \X (0..RetryCount)
              /\ Slots' \subseteq Procs \X (0..RetryCount)
            BY DEF Slots
        <3> QED
            BY <3>1, FiniteCalls
    <2>2. \A m \in Months :
            /\ IsFiniteSet(Each(outbound, m)) /\ Cardinality(Each(outbound, m)) \in Nat
            /\ IsFiniteSet(Each(usage, m)) /\ Cardinality(Each(usage, m)) \in Nat
            /\ Cardinality(Each(usage', m)) \in Nat
        <3>1. usage \in [Months -> 0..Limit] /\ usage' \in [Months -> 0..Limit]
            BY <1>0, <1>a DEF WorldOK
        <3>2. \A m \in Months : IsFiniteSet(Each(outbound, m))
            BY <1>0 DEF ReservedOK
        <3> QED
            BY <3>1, <3>2, FiniteCalls, FS_CardinalityType
    <2>3. \A n \in Nat : (RetryCount + 1) * n \in Nat
        BY <1>a
    <2> QED
        BY <2>1, <2>2, <2>3
<1>c. \A m \in Months :
        Cardinality(Each(outbound, m)) + (IF m >= Month(now) THEN Cardinality(Slots) ELSE 0)
            <= (RetryCount + 1) * Cardinality(Each(usage, m))
    BY <1>0 DEF ReservedOK
<1>1. ASSUME UNCHANGED <<usage, outbound>>, Slots' \subseteq Slots, now <= now'
      PROVE  ReservedOK'
    <2>1. Cardinality(Slots') <= Cardinality(Slots)
        BY <1>b, <1>1, FS_Subset
    <2>2. Month(now) <= Month(now') /\ Month(now') \in Nat
        <3>1. now' \in Nat
            BY <1>a, ClassifierBounds DEF WorldOK
        <3> QED
            BY <1>a, <1>1, <3>1, MonthsGrow
    <2>3. ASSUME NEW m \in Months
          PROVE  /\ IsFiniteSet(Each(outbound, m))
                 /\ Cardinality(Each(outbound, m))
                        + (IF m >= Month(now') THEN Cardinality(Slots') ELSE 0)
                        <= (RetryCount + 1) * Cardinality(Each(usage, m))
        <3> DEFINE o == Cardinality(Each(outbound, m))
                   u == (RetryCount + 1) * Cardinality(Each(usage, m))
                   s == Cardinality(Slots)
                   t == Cardinality(Slots')
                   a == Month(now)
                   b == Month(now')
        <3>1. /\ o \in Nat /\ u \in Nat /\ s \in Nat /\ t \in Nat /\ a \in Nat /\ b \in Nat
              /\ m \in Nat /\ a <= b /\ t <= s
              /\ o + (IF m >= a THEN s ELSE 0) <= u
            BY <1>a, <1>b, <1>c, <2>1, <2>2
        <3> HIDE DEF o, u, s, t, a, b
        <3>2. o + (IF m >= b THEN t ELSE 0) <= u
            BY <3>1
        <3> QED
            BY <1>b, <3>2 DEF o, u, t, b
    <2> QED
        BY <1>a, <1>1, <2>3 DEF ReservedOK
<1>2. ASSUME NEW p \in Procs, UNCHANGED <<usage, now>>,
             outbound' = [outbound EXCEPT ![Month(now)] = @ + 1],
             NEW slot \in Slots, Slots' \subseteq Slots \ {slot}
      PROVE  ReservedOK'
    <2>1. Cardinality(Slots') <= Cardinality(Slots) - 1
        <3>1. IsFiniteSet(Slots \ {slot}) /\ Cardinality(Slots \ {slot}) = Cardinality(Slots) - 1
            BY <1>b, FS_RemoveElement
        <3> QED
            BY <1>2, <3>1, FS_Subset
    <2>2. ASSUME NEW m \in Months
          PROVE  /\ IsFiniteSet(Each(outbound', m))
                 /\ Cardinality(Each(outbound', m))
                        + (IF m >= Month(now) THEN Cardinality(Slots') ELSE 0)
                        <= (RetryCount + 1) * Cardinality(Each(usage, m))
        <3> DEFINE o == Cardinality(Each(outbound, m))
                   q == Cardinality(Each(outbound', m))
                   u == (RetryCount + 1) * Cardinality(Each(usage, m))
                   s == Cardinality(Slots)
                   t == Cardinality(Slots')
                   a == Month(now)
        <3>1. IsFiniteSet(Each(outbound', m)) /\ (m < a => q = o) /\ (m >= a => q = o + 1)
            <4>1. IsFiniteSet(Each(outbound, m))
                BY <1>b
            <4>2. outbound' = [outbound EXCEPT ![Month(now)] = @ + 1]
                BY <1>2
            <4>3. outbound \in [Months -> Nat] /\ Month(now) \in Months
                BY <1>a
            <4> QED
                BY <4>1, <4>2, <4>3, EachGrows
        <3>2. /\ o \in Nat /\ u \in Nat /\ s \in Nat /\ t \in Nat /\ a \in Nat
              /\ m \in Nat /\ t <= s - 1
              /\ o + (IF m >= a THEN s ELSE 0) <= u
            BY <1>a, <1>b, <1>c, <2>1
        <3> HIDE DEF o, q, u, s, t, a
        <3>3. q + (IF m >= a THEN t ELSE 0) <= u
            <4>1. CASE m < a
                BY <3>1, <3>2, <4>1
            <4>2. CASE m >= a
                BY <3>1, <3>2, <4>2
            <4> QED
                BY <3>2, <4>1, <4>2
        <3> QED
            BY <3>1, <3>3 DEF q, u, t, a
    <2>3. outbound' \in [Months -> Nat]
        BY <1>a, <1>2
    <2> QED
        BY <1>2, <2>2, <2>3 DEF ReservedOK
<1>3. ASSUME NEW p \in Procs, UNCHANGED <<outbound, now>>,
             usage' = [usage EXCEPT ![Month(now)] = @ + 1],
             Slots' \subseteq Slots \cup {p} \X (0..RetryCount)
      PROVE  ReservedOK'
    <2>1. Cardinality(Slots') <= Cardinality(Slots) + (RetryCount + 1)
        <3> DEFINE T == {p} \X (0..RetryCount)
        <3>1. IsFiniteSet({p}) /\ Cardinality({p}) = 1
            BY FS_Singleton
        <3>2. IsFiniteSet(0..RetryCount) /\ Cardinality(0..RetryCount) = RetryCount + 1
            <4>1. 0 \in Int /\ RetryCount \in Int /\ ~(0 > RetryCount)
                BY <1>a
            <4>2. RetryCount - 0 + 1 = RetryCount + 1
                BY <1>a
            <4> QED
                BY <4>1, <4>2, FS_Interval
        <3>3. IsFiniteSet(T) /\ Cardinality(T) = Cardinality({p}) * Cardinality(0..RetryCount)
            BY <3>1, <3>2, FS_Product
        <3>4. Cardinality(T) = RetryCount + 1
            BY <1>a, <3>1, <3>2, <3>3
        <3> HIDE DEF T
        <3>5. /\ IsFiniteSet(Slots \cup T)
              /\ Cardinality(Slots \cup T)
                    = Cardinality(Slots) + Cardinality(T) - Cardinality(Slots \cap T)
            BY <1>b, <3>3, FS_Union
        <3>6. Cardinality(Slots \cap T) \in Nat
            BY <1>b, FS_Intersection, FS_CardinalityType
        <3>7. Cardinality(Slots') <= Cardinality(Slots \cup T)
            BY <1>3, <3>5, FS_Subset DEF T
        <3> QED
            BY <1>a, <1>b, <3>4, <3>5, <3>6, <3>7
    <2>2. ASSUME NEW m \in Months
          PROVE  Cardinality(Each(outbound, m))
                        + (IF m >= Month(now) THEN Cardinality(Slots') ELSE 0)
                        <= (RetryCount + 1) * Cardinality(Each(usage', m))
        <3> DEFINE o == Cardinality(Each(outbound, m))
                   c == Cardinality(Each(usage, m))
                   d == Cardinality(Each(usage', m))
                   s == Cardinality(Slots)
                   t == Cardinality(Slots')
                   a == Month(now)
        <3>1. (m < a => d = c) /\ (m >= a => d = c + 1)
            <4>1. IsFiniteSet(Each(usage, m))
                BY <1>b
            <4>2. usage' = [usage EXCEPT ![Month(now)] = @ + 1]
                BY <1>3
            <4>3. usage \in [Months -> Nat] /\ Month(now) \in Months
                BY <1>a
            <4> QED
                BY <4>1, <4>2, <4>3, EachGrows
        <3>2. /\ o \in Nat /\ c \in Nat /\ s \in Nat /\ t \in Nat /\ a \in Nat
              /\ m \in Nat /\ t <= s + (RetryCount + 1)
              /\ o + (IF m >= a THEN s ELSE 0) <= (RetryCount + 1) * c
            BY <1>a, <1>b, <1>c, <2>1
        <3> HIDE DEF o, c, d, s, t, a
        <3>3. /\ (RetryCount + 1) * (c + 1) = (RetryCount + 1) * c + (RetryCount + 1)
              /\ (RetryCount + 1) * c \in Int
            BY <1>a, <3>2
        <3>4. o + (IF m >= a THEN t ELSE 0) <= (RetryCount + 1) * d
            <4>1. CASE m < a
                BY <3>1, <3>2, <4>1
            <4>2. CASE m >= a
                <5> DEFINE u == (RetryCount + 1) * c
                           w == (RetryCount + 1) * (c + 1)
                           r == RetryCount + 1
                <5>1. /\ u \in Int /\ w = u + r /\ r \in Int /\ o + s <= u /\ t <= s + r
                    BY <1>a, <3>2, <3>3, <4>2
                <5> HIDE DEF u, w, r
                <5>2. o + t <= w
                    BY <3>2, <5>1
                <5> QED
                    BY <3>1, <4>2, <5>2 DEF w
            <4> QED
                BY <3>2, <4>1, <4>2
        <3> QED
            BY <3>4 DEF o, d, t, a
    <2> QED
        BY <1>0, <1>3, <2>2 DEF ReservedOK
<1>4. CASE UNCHANGED vars \/ SwitchProvider \/ Tick
    <2>1. UNCHANGED <<usage, outbound, pc, job>> /\ (now' = now \/ now' = now + 1)
        BY <1>4 DEF Tick, SwitchProvider, vars, environment, store, history
    <2>2. Slots' = Slots
        BY <2>1 DEF Slots, IsGoogle
    <2> QED
        BY <1>1, <1>a, <2>1, <2>2
<1>5. ASSUME NEW p \in Procs, Start(p) \/ Step(p) \/ Catch(p) \/ Die(p)
      PROVE  ReservedOK'
    <2>0. now' = now /\ now <= now'
        BY <1>0, <1>a, <1>5, Others
    <2> DEFINE slot == <<p, job[p].attempt>>
    <2>1. pc'[p] # "query" => Slots' \subseteq {s \in Slots : s[1] # p}
        BY <1>0, <1>5, SlotsChange
    <2>2. ASSUME pc'[p] # "query", UNCHANGED usage,
                 UNCHANGED outbound \/ (pc[p] = "query" /\ Outbound(p))
          PROVE  ReservedOK'
        <3>1. CASE UNCHANGED outbound
            BY <1>1, <2>0, <2>1, <2>2, <3>1
        <3>2. CASE pc[p] = "query" /\ Outbound(p)
            <4>1. CASE IsGoogle(p)
                <5>1. slot \in Slots
                    BY <1>0, <1>5, <3>2, <4>1, SlotsChange
                <5>2. Slots' \subseteq Slots \ {slot}
                    BY <2>1, <2>2
                <5> QED
                    BY <1>0, <1>2, <2>0, <2>2, <3>2, <4>1, <5>1, <5>2, OutboundCall
            <4>2. CASE ~IsGoogle(p)
                BY <1>0, <1>1, <2>0, <2>1, <2>2, <3>2, <4>2, OutboundCall
            <4> QED
                BY <4>1, <4>2
        <3> QED
            BY <2>2, <3>1, <3>2
    <2>3. CASE Reserve(p)
        <3>1. CASE usage[Month(now)] >= Limit
            <4>1. pc'[p] # "query" /\ UNCHANGED <<usage, outbound>>
                BY <1>0, <2>3, <3>1 DEF Reserve, Fails, Go, ProcsOK, history
            <4> QED
                BY <2>2, <4>1
        <3>2. CASE ~(usage[Month(now)] >= Limit)
            <4>1. UNCHANGED outbound /\ usage' = [usage EXCEPT ![Month(now)] = @ + 1]
                BY <2>3, <3>2 DEF Reserve, history
            <4> QED
                BY <1>0, <1>3, <1>5, <2>0, <2>3, <4>1, SlotsChange
        <3> QED
            BY <3>1, <3>2
    <2>4. CASE Retry(p)
        <3>1. IsGoogle(p) /\ pc[p] = "query" /\ Outbound(p) /\ UNCHANGED usage
            BY <2>4 DEF Retry, store
        <3>2. slot \in Slots /\ Slots' \subseteq Slots \ {slot}
            BY <1>0, <1>5, <2>4, <3>1, SlotsChange
        <3> QED
            BY <1>0, <1>2, <2>0, <3>1, <3>2, OutboundCall
    <2>5. CASE Lookup(p)
        <3>1. UNCHANGED <<usage, outbound>> /\ Slots' \subseteq Slots
            BY <1>0, <1>5, <2>5, SlotsChange DEF Lookup, store, history
        <3> QED
            BY <1>1, <2>0, <3>1
    <2>6. CASE Start(p) \/ CheckCircuit(p) \/ RecordStep(p) \/ ResultStep(p)
        <3>1. UNCHANGED <<usage, outbound>>
            BY <2>6 DEF Start, CheckCircuit, RecordStep, ResultStep, RecordError, RecordSuccess,
               Put, Classify, Report, store, history
        <3>2. pc'[p] # "query"
            BY <1>0, <2>6 DEF Start, CheckCircuit, RecordStep, ResultStep, RecordError,
               RecordSuccess, Put, Classify, Report, Fails, Go, ProcsOK
        <3> QED
            BY <2>2, <3>1, <3>2
    <2>7. CASE Answer(p) \/ NoQuery(p) \/ QueryFails(p) \/ Catch(p) \/ Die(p)
        <3>1. UNCHANGED usage /\ (UNCHANGED outbound \/ (pc[p] = "query" /\ Outbound(p)))
            BY <2>7 DEF Answer, NoQuery, QueryFails, Catch, Die, CutOff, store, history
        <3>2. pc'[p] # "query"
            BY <1>0, <2>7 DEF Answer, NoQuery, QueryFails, Catch, Die, Go, ProcsOK
        <3> QED
            BY <2>2, <3>1, <3>2
    <2> QED
        BY <1>5, <2>3, <2>4, <2>5, <2>6, <2>7 DEF Step, GuardStep, QueryStep
<1> QED
    BY <1>0, <1>4, <1>5 DEF Next
-----------------------------------------------------------------------------
(* What the integration guarantees.                                        *)

\* The initial states satisfy the invariant.
LEMMA InitInvariant == Init => IInv
<1>0. SUFFICES ASSUME Init PROVE IInv
    OBVIOUS
<1>a. /\ now = 0 /\ MaxTime \in Nat /\ MonthLength \in Nat \ {0}
      /\ Cooldown \in Nat \ {0} /\ Limit \in Nat \ {0} /\ RetryCount \in Nat
      /\ {MaxAlerts, MaxSwitches, MaxFaults} \subseteq Nat
    BY <1>0, ClassifierBounds, GuardAssumption DEF Init
<1>1. WorldOK
    <2>1. /\ now \in 0..MaxTime /\ circuit \in 0..MaxTime + Cooldown
          /\ alerts \in 0..MaxAlerts /\ switches \in 0..MaxSwitches /\ faults \in 0..MaxFaults
        BY <1>0, <1>a DEF Init
    <2>2. usage \in [Months -> 0..Limit]
        BY <1>0, <1>a DEF Init
    <2>3. DOMAIN cache = {} /\ configured \in Providers
        BY <1>0 DEF Init, Providers
    <2> QED
        BY <2>1, <2>2, <2>3 DEF WorldOK
<1>2. ProcsOK
    <2>1. NoJob \in Jobs
        <3>1. 0 \in 0..RetryCount /\ 0 \in 0..now
            BY <1>a
        <3> QED
            BY <3>1 DEF NoJob, Jobs, Statuses
    <2>2. Knows("idle", NoJob) /\ "idle" \in PcStates
        BY DEF Knows, NoJob, PcStates
    <2> QED
        BY <1>0, <2>1, <2>2 DEF Init, ProcsOK
<1>3. GroundedOK
    BY <1>0 DEF Init, GroundedOK, VerdictsAreGrounded
<1>4. ReservedOK
    <2>1. outbound \in [Months -> Nat] /\ usage \in [Months -> 0..Limit]
        BY <1>0, <1>1 DEF Init, WorldOK
    <2>2. Slots = {}
        BY <1>0 DEF Init, Slots
    <2>3. \A m \in Months : Each(outbound, m) = {}
        <3>1. Month(MaxTime) \in Nat
            BY ClassifierBounds, MonthsGrow
        <3>2. \A m \in Months : 0..m \subseteq Months
            BY <3>1 DEF Months
        <3>3. \A k \in Months : 1..outbound[k] = {}
            BY <1>0 DEF Init
        <3> QED
            BY <3>2, <3>3 DEF Each
    <2>4. IsFiniteSet({}) /\ Cardinality({}) = 0
        BY FS_EmptySet
    <2>5. \A m \in Months : (RetryCount + 1) * Cardinality(Each(usage, m)) >= 0
        <3> TAKE m \in Months
        <3>1. Cardinality(Each(usage, m)) \in Nat
            BY <2>1, FiniteCalls
        <3> QED
            BY <1>a, <3>1
    <2>6. ASSUME NEW m \in Months
          PROVE  /\ IsFiniteSet(Each(outbound, m))
                 /\ Cardinality(Each(outbound, m))
                        + (IF m >= Month(now) THEN Cardinality(Slots) ELSE 0)
                        <= (RetryCount + 1) * Cardinality(Each(usage, m))
        <3>1. Cardinality(Each(outbound, m)) = 0 /\ Cardinality(Slots) = 0
            BY <2>2, <2>3, <2>4
        <3>2. Cardinality(Each(outbound, m))
                + (IF m >= Month(now) THEN Cardinality(Slots) ELSE 0) = 0
            BY <3>1
        <3>3. (RetryCount + 1) * Cardinality(Each(usage, m)) >= 0
            BY <2>5
        <3> QED
            BY <2>3, <2>4, <3>2, <3>3
    <2> QED
        BY <2>1, <2>6 DEF ReservedOK
<1>5. BreakerOK
    <2>1. ~CircuitOpen /\ upset = Never /\ circuit = 0
        BY <1>0, <1>a DEF Init, CircuitOpen
    <2> QED
        BY <1>a, <2>1 DEF BreakerOK, OpenBreakerStopsCalls, Never
<1> QED
    BY <1>1, <1>2, <1>3, <1>4, <1>5 DEF IInv

\* Every reachable state satisfies the inductive invariant (edge_phishing_classifier.py,
\* google_web_risk.py).
THEOREM InductiveInvariant == Spec => []IInv
<1>1. IInv /\ [Next]_vars => IInv'
    BY TypesStep, BreakerStep, GroundedStep, ReservedStep DEF IInv
<1> QED
    BY <1>1, InitInvariant, PTL DEF Spec

\* The cache, the usage, the circuit breaker and what the processes know keep their types; the
\* usage never passes the monthly limit (reserve_request).
THEOREM TypeCorrect == Spec => []TypeOK
<1>1. IInv => TypeOK
    <2>1. SUFFICES ASSUME WorldOK, ProcsOK PROVE TypeOK
        BY DEF IInv
    <2>2. ASSUME NEW p \in Procs
          PROVE  /\ pc[p] \notin {"idle", "report"}
                        => job[p].url \in Urls /\ job[p].provider \in Providers
                 /\ pc[p] \in {"answered", "caching"} => job[p].verdict \in Verdicts
                 /\ pc[p] = "scoring" => (job[p].failure = "" <=> job[p].verdict \in Verdicts)
                 /\ job[p].attempt \in 0..RetryCount
        <3>1. /\ job[p].verdict \in Verdicts \cup {""} /\ "" \notin Verdicts
              /\ job[p].attempt \in 0..RetryCount /\ Knows(pc[p], job[p])
            BY <2>1 DEF ProcsOK, Jobs, Verdicts
        <3>2. pc[p] = "scoring" => (job[p].failure = "" <=> job[p].verdict \in Verdicts)
            BY <3>1 DEF Knows
        <3> QED
            BY <3>1, <3>2 DEF Knows
    <2> QED
        BY <2>1, <2>2 DEF WorldOK, ProcsOK, TypeOK
<1> QED
    BY <1>1, InductiveInvariant, PTL

\* However the processes interleave, fail and are switched to another provider, what is reported
\* as a verdict about a URL comes from an answer of the process's provider about it that could
\* still be used (classify_navigation, wazuh-server/README.md:369).
THEOREM ReportsAreGrounded == Spec => []VerdictsAreGrounded
<1>1. IInv => VerdictsAreGrounded
    BY DEF IInv, GroundedOK
<1> QED
    BY <1>1, InductiveInvariant, PTL

\* However many processes share the budget, the calls to Google up to any month are at most
\* RetryCount + 1 for each request reserved by then (reserve_request, query_url).
THEOREM CallsAreReserved == Spec => []OutboundIsReserved
<1>1. IInv => OutboundIsReserved
    <2> SUFFICES ASSUME IInv, NEW m \in Months
                 PROVE  Cardinality(Each(outbound, m))
                            <= (RetryCount + 1) * Cardinality(Each(usage, m))
        BY DEF OutboundIsReserved
    <2> DEFINE o == Cardinality(Each(outbound, m))
               u == Cardinality(Each(usage, m))
               s == IF m >= Month(now) THEN Cardinality(Slots) ELSE 0
    <2>1. o + s <= (RetryCount + 1) * u
        BY DEF IInv, ReservedOK
    <2>2. o \in Nat
        BY FS_CardinalityType DEF IInv, ReservedOK
    <2>3. s \in Nat
        <3>1. Slots \subseteq Procs \X (0..RetryCount)
            BY DEF Slots
        <3>2. Cardinality(Slots) \in Nat
            BY <3>1, FiniteCalls
        <3> QED
            BY <3>2
    <2>4. (RetryCount + 1) * u \in Int
        <3>1. u \in Nat
            BY FiniteCalls DEF IInv, WorldOK
        <3> QED
            BY <3>1, GuardAssumption
    <2> HIDE DEF o, u, s
    <2>5. o <= (RetryCount + 1) * u
        BY <2>1, <2>2, <2>3, <2>4
    <2> QED
        BY <2>5 DEF o, u
<1> QED
    BY <1>1, InductiveInvariant, PTL

\* Once the circuit breaker is open, only a process that had passed it by the time of the last
\* failure may still call Google (circuit_open, record_error, record_success).
THEOREM BreakerStops == Spec => []OpenBreakerStopsCalls
<1>1. IInv => OpenBreakerStopsCalls
    BY DEF IInv, BreakerOK
<1> QED
    BY <1>1, InductiveInvariant, PTL

\* The circuit breaker is open only within the cooldown after a failure of Google's that no
\* success has followed (record_error, record_success).
THEOREM BreakerCloses == Spec => []BreakerIsTemporary
<1>1. IInv => BreakerIsTemporary
    <2> SUFFICES ASSUME WorldOK, BreakerOK, circuit > now
                 PROVE  upset # Never /\ now < upset + Cooldown
        BY DEF IInv, BreakerIsTemporary, CircuitOpen
    <2>1. now \in Nat
        BY ClassifierBounds DEF WorldOK
    <2>2. upset \in Nat /\ circuit = upset + Cooldown
        BY <2>1 DEF BreakerOK
    <2> QED
        BY <2>1, <2>2 DEF Never
<1> QED
    BY <1>1, InductiveInvariant, PTL
=============================================================================
