------------------------ MODULE ReputationClassifier ------------------------
(***************************************************************************)
(* The Wazuh integration that classifies navigation alerts                 *)
(* (custom-edge-phishing-classifier, edge_phishing_classifier.py and       *)
(* google_web_risk.py): one process per alert, all sharing one SQLite file *)
(* with the result cache, the monthly usage and the circuit breaker.       *)
(*                                                                         *)
(* Every action is one transaction of that file, one answer of the         *)
(* provider or one message to Wazuh; the processes interleave between any  *)
(* two.  What PhishTank, Google and the URL model answer is a choice; what *)
(* is made of an answer, and of the settings and alerts, is                *)
(* ClassifierInputs.                                                       *)
(***************************************************************************)
EXTENDS ClassifierInputs, FiniteSetsExt

CONSTANTS
    Procs,        \* processes that run at once; each handles one alert after the other
    PositiveTtl,  \* positive_cache_seconds, in ticks
    NegativeTtl,  \* negative_cache_seconds
    Cooldown,     \* web_risk_circuit_breaker_seconds
    Limit,        \* web_risk_monthly_request_limit
    RetryCount,   \* web_risk_retry_count
    MlEnabled,    \* ml_enabled
    MonthLength,  \* ticks in a calendar month
    MaxTime,      \* bound on the clock
    MaxAlerts,    \* bound on the alerts Wazuh hands over
    MaxSwitches,  \* bound on changes of the configured provider
    MaxFaults     \* bound on processes and transactions that fail

ASSUME TtlAssumption == PositiveTtl \in Int /\ NegativeTtl \in Nat
ASSUME GuardAssumption == Cooldown \in Nat \ {0} /\ Limit \in Nat \ {0} /\ RetryCount \in 0..3
ASSUME ClassifierBounds ==
    /\ IsFiniteSet(Procs) /\ MonthLength \in Nat \ {0} /\ MlEnabled \in BOOLEAN
    /\ {MaxTime, MaxAlerts, MaxSwitches, MaxFaults} \subseteq Nat

Month(time) == time \div MonthLength
Months == 0..Month(MaxTime)

VARIABLES
    now,         \* time.time()
    configured,  \* what the settings file is: its provider, or Refused
    cache,       \* reputation_cache: verdict and expires_at, by provider and URL
    usage,       \* reputation_usage.request_count, by month
    circuit,     \* reputation_state.circuit_open_until
    pc,          \* where each process is
    job,         \* the alert each process handles, and what it knows of it
    alerts,      \* how many alerts have been handed over
    switches,    \* how often the provider has been changed
    faults,      \* processes and transactions that have failed
    outbound,    \* history: calls made to Google, by month
    answers,     \* history: what providers have answered, and until when it may be used
    upset        \* history: when Google last failed, Never if it has answered well since

store == <<cache, usage, circuit>>
environment == <<now, configured, alerts, switches, faults>>
history == <<outbound, answers, upset>>
vars == <<environment, store, pc, job, history>>

Never == -1

MlVerdicts == {"suspicious", "review", "unlikely"}
Failures == {"error", "circuit_open", "quota_guard"}

PcStates == {"idle", "lookup", "circuit", "reserve", "query", "failed", "answered", "caching",
             "scoring", "report"}

\* A process at rest; `verdict` is the provider's, `failure` the reason there is none,
\* `status` the classification; `checked` and `asked` remember when the circuit breaker let
\* the process pass, and when it looked the verdict up or received it.
NoJob == [url |-> "", provider |-> "", attempt |-> 0, verdict |-> "", expires |-> 0,
          failure |-> "", status |-> "", checked |-> 0, asked |-> 0]

TypeOK ==
    /\ now \in 0..MaxTime /\ configured \in Providers \cup {Refused}
    /\ DOMAIN cache \subseteq Providers \X Urls
    /\ \A k \in DOMAIN cache : cache[k].verdict \in Verdicts /\ cache[k].expires \in Nat \ {0}
    /\ usage \in [Months -> 0..Limit]
    /\ circuit \in 0..MaxTime + Cooldown
    /\ pc \in [Procs -> PcStates]
    /\ \A p \in Procs :
        /\ pc[p] \notin {"idle", "report"} => job[p].url \in Urls /\ job[p].provider \in Providers
        /\ pc[p] \in {"answered", "caching"} => job[p].verdict \in Verdicts
        /\ pc[p] = "scoring" => (job[p].failure = "" <=> job[p].verdict \in Verdicts)
        /\ job[p].attempt \in 0..RetryCount
    /\ alerts \in 0..MaxAlerts /\ switches \in 0..MaxSwitches /\ faults \in 0..MaxFaults

Init ==
    /\ now = 0
    /\ configured = "google_webrisk"
    /\ cache = [k \in {} |-> NoJob]
    /\ usage = [m \in Months |-> 0]
    /\ circuit = 0
    /\ pc = [p \in Procs |-> "idle"]
    /\ job = [p \in Procs |-> NoJob]
    /\ alerts = 0 /\ switches = 0 /\ faults = 0
    /\ outbound = [m \in Months |-> 0]
    /\ answers = {} /\ upset = Never

Fault == faults < MaxFaults /\ faults' = faults + 1

Go(p, state) == pc' = [pc EXCEPT ![p] = state]

IsGoogle(p) == job[p].provider = "google_webrisk"

\* No verdict, for this reason: the classification goes on with the URL model, if any.
Fails(p, failure) ==
    /\ Go(p, "scoring")
    /\ job' = [job EXCEPT ![p].failure = failure, ![p].attempt = 0, ![p].checked = 0]

-----------------------------------------------------------------------------
(* Mistakes this code could have had.  No specification uses them: each    *)
(* stands in for the definition it resembles when a property is tested.    *)

\* Cached without `expires_at > ?`.
CachedForEver(p) == <<job[p].provider, job[p].url>> \in DOMAIN cache

\* CheckCircuit never looking at the circuit breaker.
CheckCircuitNever(p) ==
    /\ pc[p] = "circuit"
    /\ Go(p, "reserve") /\ job' = [job EXCEPT ![p].checked = now]
    /\ UNCHANGED <<environment, store, history>>

\* Reserve refusing only above the limit.
ReserveOneMore(p) ==
    /\ pc[p] = "reserve"
    /\ IF usage[Month(now)] > Limit
       THEN Fails(p, "quota_guard") /\ UNCHANGED usage
       ELSE /\ usage' = [usage EXCEPT ![Month(now)] = @ + 1]
            /\ Go(p, "query") /\ UNCHANGED job
    /\ UNCHANGED <<environment, cache, circuit, history>>

\* Retry counting its attempts from one too few.
RetryOnceMore(p) ==
    /\ pc[p] = "query" /\ IsGoogle(p)
    /\ job[p].attempt <= RetryCount
    /\ outbound' = [outbound EXCEPT ![Month(now)] = @ + 1]
    /\ job' = [job EXCEPT ![p].attempt = @ + 1]
    /\ UNCHANGED <<environment, store, pc, answers, upset>>

\* RecordSuccess leaving the circuit breaker as it was.
RecordSuccessOnly(p) ==
    /\ pc[p] = "answered"
    /\ Go(p, "caching")
    /\ upset' = IF IsGoogle(p) THEN Never ELSE upset
    /\ UNCHANGED <<environment, store, job, outbound, answers>>

-----------------------------------------------------------------------------
(* The entry point, before it classifies.                                  *)

Tick ==
    /\ now < MaxTime
    /\ now' = now + 1
    /\ UNCHANGED <<configured, alerts, switches, faults, store, pc, job, history>>

\* The installer's provider switch, or an administrator, rewrites the settings file; running
\* processes keep what they have loaded.
SwitchProvider ==
    /\ switches < MaxSwitches
    /\ switches' = switches + 1
    /\ configured' \in Loaded \ {configured}
    /\ UNCHANGED <<now, alerts, faults, store, pc, job, history>>

\* Wazuh starts a process for an alert, which loads the settings and validates the alert; if
\* either is refused, it reports an error event and nothing else.
Start(p) ==
    /\ pc[p] = "idle"
    /\ alerts < MaxAlerts
    /\ alerts' = alerts + 1
    /\ \E u \in Navigations :
        IF Refused \in {configured, u}
        THEN Go(p, "report") /\ job' = [job EXCEPT ![p] = [NoJob EXCEPT !.status = "error"]]
        ELSE /\ Go(p, "lookup")
             /\ job' = [job EXCEPT ![p] = [NoJob EXCEPT !.url = u, !.provider = configured]]
    /\ UNCHANGED <<now, configured, switches, faults, store, history>>

-----------------------------------------------------------------------------
(* classify_navigation: the cache, the circuit breaker and the budget.     *)

Cached(p) ==
    LET key == <<job[p].provider, job[p].url>>
    IN  key \in DOMAIN cache /\ cache[key].expires > now

\* cache.get; only Google's lookups pass the circuit breaker and the monthly limit.
Lookup(p) ==
    /\ pc[p] = "lookup"
    /\ IF Cached(p)
       THEN /\ job' = [job EXCEPT
                   ![p].verdict = cache[<<job[p].provider, job[p].url>>].verdict,
                   ![p].asked = now]
            /\ Go(p, "scoring")
       ELSE Go(p, IF IsGoogle(p) THEN "circuit" ELSE "query") /\ UNCHANGED job
    /\ UNCHANGED <<environment, store, history>>

CircuitOpen == circuit > now

CheckCircuit(p) ==
    /\ pc[p] = "circuit"
    /\ IF CircuitOpen
       THEN Fails(p, "circuit_open")
       ELSE Go(p, "reserve") /\ job' = [job EXCEPT ![p].checked = now]
    /\ UNCHANGED <<environment, store, history>>

\* reserve_request, in one immediate transaction.
Reserve(p) ==
    /\ pc[p] = "reserve"
    /\ IF usage[Month(now)] >= Limit
       THEN Fails(p, "quota_guard") /\ UNCHANGED usage
       ELSE /\ usage' = [usage EXCEPT ![Month(now)] = @ + 1]
            /\ Go(p, "query") /\ UNCHANGED job
    /\ UNCHANGED <<environment, cache, circuit, history>>

-----------------------------------------------------------------------------
(* query_reputation: PhishTank once, Google with retries.                  *)

Outbound(p) == outbound' = [outbound EXCEPT ![Month(now)] = @ + (IF IsGoogle(p) THEN 1 ELSE 0)]

Outcomes(p) == IF IsGoogle(p) THEN GoogleOutcomes ELSE PhishTankOutcomes

\* The provider answers; Google names the time a match expires.
Answer(p) ==
    /\ pc[p] = "query" /\ job[p].provider # "disabled"
    /\ Outbound(p)
    /\ \E o \in Outcomes(p) :
        /\ o.verdict # Refused
        /\ job' = [job EXCEPT ![p].verdict = o.verdict, ![p].asked = now,
               ![p].attempt = 0, ![p].checked = 0,
               ![p].expires = IF o.life > 0 THEN now + o.life ELSE 0]
    /\ Go(p, "answered")
    /\ UNCHANGED <<environment, store, answers, upset>>

\* A failure of Google's that may be passing is retried.
Retry(p) ==
    /\ pc[p] = "query" /\ IsGoogle(p)
    /\ job[p].attempt < RetryCount
    /\ Outbound(p)
    /\ job' = [job EXCEPT ![p].attempt = @ + 1]
    /\ UNCHANGED <<environment, store, pc, answers, upset>>

\* The query fails for good before a call: there is no provider, or the file of Google's key
\* is missing, not root's own, open to others or without a key.
NoQuery(p) ==
    /\ pc[p] = "query" /\ job[p].provider # "phishtank"
    /\ Go(p, "failed")
    /\ UNCHANGED <<environment, store, job, history>>

\* It fails because no attempt is left, or by an error or a reply that no retry would better.
QueryFails(p) ==
    /\ pc[p] = "query" /\ job[p].provider # "disabled"
    /\ Outbound(p)
    /\ Go(p, "failed")
    /\ UNCHANGED <<environment, store, job, answers, upset>>

\* record_error opens the circuit breaker for the cooldown.
RecordError(p) ==
    /\ pc[p] = "failed"
    /\ Fails(p, "error")
    /\ circuit' = IF IsGoogle(p) THEN now + Cooldown ELSE circuit
    /\ upset' = IF IsGoogle(p) THEN now ELSE upset
    /\ UNCHANGED <<environment, cache, usage, outbound, answers>>

\* record_success closes it...
RecordSuccess(p) ==
    /\ pc[p] = "answered"
    /\ Go(p, "caching")
    /\ circuit' = IF IsGoogle(p) THEN 0 ELSE circuit
    /\ upset' = IF IsGoogle(p) THEN Never ELSE upset
    /\ UNCHANGED <<environment, cache, usage, job, outbound, answers>>

\* Until when a verdict is kept: Google's match until it expires, and at least for a tick.
KeptUntil(p) ==
    IF job[p].expires > 0 THEN Max({job[p].expires, now + 1})
    ELSE now + (IF job[p].verdict = "not_found" THEN NegativeTtl ELSE PositiveTtl)

\* ...and then the verdict is cached, unless it may not be kept.
Put(p) ==
    /\ pc[p] = "caching"
    /\ LET key == <<job[p].provider, job[p].url>>
           entry == [verdict |-> job[p].verdict, expires |-> KeptUntil(p)]
       IN  /\ cache' = IF KeptUntil(p) > now
                       THEN [k \in DOMAIN cache \cup {key} |-> IF k = key THEN entry ELSE cache[k]]
                       ELSE cache
           /\ answers' = answers \cup {[key |-> key, verdict |-> job[p].verdict,
                                        from |-> job[p].asked, until |-> KeptUntil(p)]}
    /\ Go(p, "scoring") /\ job' = [job EXCEPT ![p].expires = 0]
    /\ UNCHANGED <<environment, usage, circuit, outbound, upset>>

-----------------------------------------------------------------------------
(* The classification and its message.                                     *)

\* The classification from the provider's verdict, or the lack of one, and the model's.
Status(failed, verdict, ml) ==
    IF failed THEN IF ml \in {"suspicious", "review"} THEN ml ELSE "error"
    ELSE IF verdict # "malicious" /\ MlEnabled THEN ml ELSE verdict

Classify(p) ==
    /\ pc[p] = "scoring"
    /\ \E ml \in (IF MlEnabled THEN MlVerdicts ELSE {"none"}) :
        job' = [job EXCEPT ![p].status = Status(job[p].failure # "", job[p].verdict, ml),
                           ![p].failure = "", ![p].verdict = ""]
    /\ Go(p, "report")
    /\ UNCHANGED <<environment, store, history>>

\* send_event.
Report(p) ==
    /\ pc[p] = "report"
    /\ Go(p, "idle") /\ job' = [job EXCEPT ![p] = NoJob]
    /\ UNCHANGED <<environment, store, history>>

\* A query that is cut off may have called the provider.
CutOff(p) == UNCHANGED outbound \/ (pc[p] = "query" /\ Outbound(p))

\* Anything main catches: a locked or full database, a reply broken off in a way the query
\* does not expect, an unusable model.  The alert is answered with an error event.
Catch(p) ==
    /\ pc[p] \notin {"idle", "report"}
    /\ Fault
    /\ job' = [job EXCEPT ![p] = [NoJob EXCEPT !.url = job[p].url,
                                               !.provider = job[p].provider, !.status = "error"]]
    /\ Go(p, "report")
    /\ CutOff(p)
    /\ UNCHANGED <<now, configured, alerts, switches, store, answers, upset>>

\* The process dies, or Wazuh's queue does not take its message: nothing is reported.
Die(p) ==
    /\ pc[p] # "idle"
    /\ Fault
    /\ Go(p, "idle") /\ job' = [job EXCEPT ![p] = NoJob]
    /\ CutOff(p)
    /\ UNCHANGED <<now, configured, alerts, switches, store, answers, upset>>

-----------------------------------------------------------------------------

GuardStep(p) == Lookup(p) \/ CheckCircuit(p) \/ Reserve(p)
QueryStep(p) == Answer(p) \/ Retry(p) \/ NoQuery(p) \/ QueryFails(p)
RecordStep(p) == RecordError(p) \/ RecordSuccess(p) \/ Put(p)
ResultStep(p) == Classify(p) \/ Report(p)
Step(p) == GuardStep(p) \/ QueryStep(p) \/ RecordStep(p) \/ ResultStep(p)

Next ==
    \/ Tick \/ SwitchProvider
    \/ \E p \in Procs : Start(p) \/ Step(p) \/ Catch(p) \/ Die(p)

Spec == Init /\ [][Next]_vars

-----------------------------------------------------------------------------
(* Properties.                                                             *)

\* A process that is about to report a URL as listed, unlisted or unlikely has this from an
\* answer of the provider it was started with, about that URL, that it looked up or received
\* while the answer could be used: no failure, other provider or expired entry becomes one
\* (classify_navigation, wazuh-server/README.md:369).
VerdictsAreGrounded ==
    \A p \in Procs :
        pc[p] = "report" /\ job[p].status \in Verdicts \cup {"unlikely"} =>
            \E a \in answers :
                /\ a.key = <<job[p].provider, job[p].url>>
                /\ \/ a.verdict = job[p].status
                   \/ a.verdict # "malicious" /\ job[p].status = "unlikely"
                /\ job[p].asked = a.from \/ job[p].asked < a.until

\* What `count` has counted in the months up to m, each with its month and number.
Each(count, m) == UNION {{k} \X (1..count[k]) : k \in 0..m}

\* Google is called only under a reservation, and for each at most RetryCount times more,
\* whatever month the calls fall in (reserve_request, query_url).
OutboundIsReserved ==
    \A m \in Months :
        Cardinality(Each(outbound, m)) <= (RetryCount + 1) * Cardinality(Each(usage, m))

\* While the circuit breaker is open, only a process that had passed it by the time of the
\* last failure still calls Google (circuit_open, record_error, record_success).
OpenBreakerStopsCalls ==
    CircuitOpen => \A p \in Procs :
        IsGoogle(p) /\ pc[p] \in {"reserve", "query"} => job[p].checked <= upset

\* The circuit breaker is never open for longer than the cooldown after a failure that no
\* success has followed: a later event is processed normally again.
BreakerIsTemporary == CircuitOpen => upset # Never /\ now < upset + Cooldown

-----------------------------------------------------------------------------
(* What the repository says and the code does not keep.                    *)

\* docs/google-web-risk-integration-plan.md:292-293: "Count actual outbound requests
\* atomically by UTC calendar month. Refuse additional outbound calls after the application
\* ceiling".  In no month is Google called more often than the limit.
CallsWithinLimit == \A m \in Months : outbound[m] <= Limit
=============================================================================
