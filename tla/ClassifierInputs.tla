-------------------------- MODULE ClassifierInputs --------------------------
(***************************************************************************)
(* What the classifier makes of what it reads: its settings file, the      *)
(* alert it is started for, and the replies of the two providers           *)
(* (edge_phishing_classifier.py, google_web_risk.py).  Each is taken or    *)
(* refused as a whole; what is refused is answered with an error event.    *)
(*                                                                         *)
(* An input is a record of what the code tells apart in it.                *)
(***************************************************************************)
EXTENDS Integers, FiniteSets

CONSTANTS
    Urls,      \* the URLs of the alerts
    MatchLife  \* bound on how long, by Google, a match lasts

ASSUME InputBounds == MatchLife \in Nat /\ "refused" \notin Urls

Refused == "refused"
Providers == {"phishtank", "google_webrisk", "disabled"}
Verdicts == {"malicious", "listed_inactive", "not_found"}

-----------------------------------------------------------------------------
(* The settings.                                                           *)

ALLOWED_THREAT_TYPES == {"SOCIAL_ENGINEERING", "MALWARE", "UNWANTED_SOFTWARE"}

\* Where each number must be; the timeouts in tenths of a second.  A cache time for listed URLs
\* may be any number.
Ranges == [timeout_seconds |-> <<1, 300>>, negative_cache_seconds |-> <<0, 86400>>,
           maximum_response_bytes |-> <<1024, 1048576>>, monthly_request_limit |-> <<1, 10000000>>,
           retry_count |-> <<0, 3>>, circuit_breaker_seconds |-> <<1, 3600>>]
MlRanges == [legacy_timeout_seconds |-> <<1, 300>>, legacy_max_response_bytes |-> <<1024, 10485760>>,
             legacy_max_redirects |-> <<0, 10>>, navigation_rule_id |-> <<100000, 120000>>]

\* `sections`: "reputation" and "ml" are objects, if there; `odd`: the parts in which the
\* endpoint for Google is another than the only one allowed; `absolute`: the path of its key;
\* `model`: mode, flags and thresholds can be read (ModelScoring), and the paths of a model that
\* is enabled are absolute.
PlainSettings ==
    [object |-> TRUE, sections |-> TRUE, provider |-> "none", https |-> TRUE, odd |-> {},
     absolute |-> TRUE, types |-> {"SOCIAL_ENGINEERING"}, model |-> TRUE,
     numbers |-> [timeout_seconds |-> 80, negative_cache_seconds |-> 900,
                  maximum_response_bytes |-> 65536, monthly_request_limit |-> 90000,
                  retry_count |-> 1, circuit_breaker_seconds |-> 300],
     ml |-> [legacy_timeout_seconds |-> 50, legacy_max_response_bytes |-> 1048576,
             legacy_max_redirects |-> 4, navigation_rule_id |-> 100100]]

InRange(numbers, ranges) ==
    \A n \in DOMAIN ranges : ranges[n][1] <= numbers[n] /\ numbers[n] <= ranges[n][2]

validate_endpoint(odd) == odd = {}
validate_threat_types(types) == types # {} /\ types \subseteq ALLOWED_THREAT_TYPES

\* A hyphen in the provider's name is an underscore, and PhishTank is the provider of settings
\* that name none.
Provider(name) ==
    IF name = "none" THEN "phishtank" ELSE IF name = "google-webrisk" THEN "google_webrisk" ELSE name

\* The provider of the settings.  An endpoint matters to its own provider only.
from_mapping(s) ==
    LET provider == Provider(s.provider)
    IN  IF /\ s.sections /\ provider \in Providers
           /\ provider = "phishtank" => s.https
           /\ provider = "google_webrisk" => validate_endpoint(s.odd) /\ s.absolute
           /\ validate_threat_types(s.types)
           /\ s.model /\ InRange(s.numbers, Ranges) /\ InRange(s.ml, MlRanges)
        THEN provider ELSE Refused

load_settings(s) == IF s.object THEN from_mapping(s) ELSE Refused

-----------------------------------------------------------------------------
(* The alert.                                                              *)

\* `fields`: a rule with an identifier, data and an agent; `event`, `source`: its type and
\* origin; `id`: how long the event's identifier is.
PlainAlert(u) ==
    [fields |-> TRUE, rule |-> 100100, event |-> TRUE, source |-> TRUE, url |-> u, length |-> 8192,
     web |-> TRUE, credentials |-> FALSE, id |-> 128]

\* The URL of a navigation the extension has sent, under the rule the settings name.
validate_navigation_alert(a, rule) ==
    IF /\ a.fields /\ a.rule = rule
       /\ a.event /\ a.source
       /\ a.length <= 8192 /\ a.web /\ ~a.credentials
       /\ a.id \in 1..128
    THEN a.url ELSE Refused

-----------------------------------------------------------------------------
(* The replies.                                                            *)

\* `body`: too large, not a JSON object, one without the part that is looked for, or with it; a
\* flag is true, or a text that says so, or anything else, a number too.
Flags == {"true", "text", "other"}
PhishTankReplies ==
    [body : {"large", "garbled", "bare", "results"}, in_database : Flags, verified : Flags, valid : Flags]

truthy(flag) == flag \in {"true", "text"}

\* Only what has been verified and is still there is malicious.
normalize_phishtank_result(r) ==
    IF truthy(r.in_database)
    THEN IF truthy(r.verified) /\ truthy(r.valid) THEN "malicious" ELSE "listed_inactive"
    ELSE "not_found"

query_phishtank(r) == IF r.body = "results" THEN normalize_phishtank_result(r) ELSE Refused

\* `stamp`: the time of expiry can be read; `life`: how much later than now it is.
GoogleReplies ==
    [body : {"large", "garbled", "empty", "bare", "threat"}, types : SUBSET {"SOCIAL_ENGINEERING", "MALWARE"},
     stamp : BOOLEAN, life : -1..MatchLife]

parse_expire_time(r) == r.stamp /\ r.life > 0

\* An empty object says that nothing is known; a match must be of a type that was asked for.
normalize_response(r, configured_types) ==
    IF r.body = "empty" THEN "not_found"
    ELSE IF /\ r.body = "threat"
            /\ r.types # {} /\ r.types \subseteq configured_types
            /\ parse_expire_time(r)
         THEN "malicious" ELSE Refused

-----------------------------------------------------------------------------
(* The inputs that are tried: one part is varied at a time.                *)

Edges(range) == {range[1] - 1, range[1], range[2], range[2] + 1}

Varied == {
    [PlainSettings EXCEPT !.object = FALSE], [PlainSettings EXCEPT !.sections = FALSE],
    [PlainSettings EXCEPT !.https = FALSE], [PlainSettings EXCEPT !.types = {}],
    [PlainSettings EXCEPT !.types = {"OTHER"}], [PlainSettings EXCEPT !.absolute = FALSE],
    [PlainSettings EXCEPT !.model = FALSE]}
    \cup {[PlainSettings EXCEPT !.odd = {part}] :
              part \in {"scheme", "host", "port", "path", "query", "fragment", "user"}}
    \cup UNION {{[PlainSettings EXCEPT !.numbers[n] = i] : i \in Edges(Ranges[n])} : n \in DOMAIN Ranges}
    \cup UNION {{[PlainSettings EXCEPT !.ml[n] = i] : i \in Edges(MlRanges[n])} : n \in DOMAIN MlRanges}

SettingsFiles ==
    {[s EXCEPT !.provider = name] :
        s \in Varied \cup {PlainSettings},
        name \in {"none", "google_webrisk", "google-webrisk", "disabled", "other"}}

Alerts == UNION {
    {PlainAlert(u), [PlainAlert(u) EXCEPT !.fields = FALSE], [PlainAlert(u) EXCEPT !.rule = 100101],
     [PlainAlert(u) EXCEPT !.event = FALSE], [PlainAlert(u) EXCEPT !.source = FALSE],
     [PlainAlert(u) EXCEPT !.length = 8193], [PlainAlert(u) EXCEPT !.web = FALSE],
     [PlainAlert(u) EXCEPT !.credentials = TRUE], [PlainAlert(u) EXCEPT !.id = 0],
     [PlainAlert(u) EXCEPT !.id = 129]} : u \in Urls}

\* What comes of them.
Loaded == {load_settings(s) : s \in SettingsFiles}
Navigations == {validate_navigation_alert(a, PlainSettings.ml.navigation_rule_id) : a \in Alerts}
PhishTankOutcomes == {[verdict |-> query_phishtank(r), life |-> 0] : r \in PhishTankReplies}
GoogleOutcomes ==
    LET Verdict(r) == normalize_response(r, PlainSettings.types)
    IN  {[verdict |-> Verdict(r), life |-> IF Verdict(r) = "malicious" THEN r.life ELSE 0] : r \in GoogleReplies}
=============================================================================
