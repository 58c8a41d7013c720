----------------------------- MODULE UrlFeatures -----------------------------
(***************************************************************************)
(* The features of a URL that the SVR was trained on                       *)
(* (legacy/original-implementation/url_feature_extraction.py), and those   *)
(* the compatibility adapter asks it with now                              *)
(* (wazuh-server/phase4/legacy_url_ml.py).                                 *)
(*                                                                         *)
(* A sample is a URL with what WHOIS, its host and its page answer.  What  *)
(* the two programs make of an answer is modelled; who answers is not.     *)
(***************************************************************************)
EXTENDS Integers, Sequences

CONSTANTS
    TextLength,    \* from how many characters a URL is long
    HalfYear,      \* the days of six months of thirty
    MaxRedirects   \* legacy_max_redirects

ASSUME FeatureBounds == {TextLength, HalfYear} \subseteq Nat \ {0} /\ MaxRedirects \in Nat

\* `form`: HTTP or HTTPS with a host, an address that is nothing else, or any other text; `at`:
\* the "@" of credentials, or elsewhere; `segments`: those of the path that are not empty,
\* before the `last`, which may consist of parameters only ("/a/;x"); `slashes`: where the last
\* "//" is; `token`, `dash`: "https" and "-" in the host; `shortener`: a shortening service is
\* named, in the letters of training's list or in others.
UrlsOf(lengths, counts, positions) ==
    [form : {"web", "address", "other"}, at : {"none", "user", "elsewhere"}, length : lengths,
     segments : counts, last : {"empty", "name", "parameters"}, slashes : positions,
     token : BOOLEAN, dash : BOOLEAN, shortener : {"none", "listed", "otherCase"}]

\* A date as the WHOIS library gives it: none, with or without a timezone, a day or a stamp or
\* anything else as text, a list of dates or of texts; `day` counts from today.
DateForms == {"none", "naive", "aware", "day", "stamp", "words", "dates", "texts"}
Texts == {"day", "stamp", "words"}

\* `answer`: a record, no such domain, or any other exception; `slow`: later than the adapter's
\* timeout.
RecordsOf(creations, expirations) ==
    [answer : {"record", "unregistered", "fault"}, slow : BOOLEAN,
     creation : [form : DateForms, day : creations],
     expiration : [form : DateForms, day : expirations]]

\* `reached`: a page, requests' own exception, or any other; `obstacle`: what the adapter does
\* not pass: a redirect to a private address, a body over its limit, an answer after its
\* timeout, or an error's status; `marks`, `mouse`, `right`: what the three expressions find.
PagesOf(redirects) ==
    [reached : {"page", "refused", "fault"},
     obstacle : {"none", "inward", "large", "late", "error"},
     marks : BOOLEAN, mouse : BOOLEAN, right : BOOLEAN, hops : redirects]

\* What ensure_public_target finds.
Hosts == {"public", "private", "unresolved"}

Inputs == [url : UrlsOf(Nat, Nat, Int), record : RecordsOf(Int, Int), page : PagesOf(Nat),
           host : Hosts]

Raised == <<>>   \* an exception, in the place of a vector
Flag(b) == IF b THEN 1 ELSE 0
Ones(n) == [i \in 1..n |-> 1]
Distance(a, b) == IF a < b THEN b - a ELSE a - b

-----------------------------------------------------------------------------
(* The training data.                                                      *)

havingIP(u) == Flag(u.form = "address")
haveAtSign(u) == Flag(u.at # "none")
getLength(u) == Flag(u.length >= TextLength)
\* urlparse takes the parameters off the last segment.
getDepth(u) == u.segments + Flag(u.last = "name")
redirection(u) == Flag(u.slashes > 7)
httpDomain(u) == Flag(u.token)
tinyURL(u) == Flag(u.shortener = "listed")
prefixSuffix(u) == Flag(u.dash)

\* strptime("%Y-%m-%d") refuses another text with ValueError, which is caught, and what is no
\* text with TypeError, which is not; nor can a date with a timezone be taken from one without.
AgeFails(r) ==
    LET forms == {r.creation.form, r.expiration.form}
    IN  \/ forms \cap Texts # {} /\ r.creation.form \notin Texts
        \/ r.creation.form = "day" /\ r.expiration.form \notin Texts
        \/ forms = {"naive", "aware"}
domainAge(r) ==
    Flag(\/ {r.creation.form, r.expiration.form} \cap {"none", "stamp", "words", "dates", "texts"} # {}
         \/ Distance(r.expiration.day, r.creation.day) < HalfYear)

EndFails(r) == r.expiration.form = "aware"
domainEnd(r) ==
    Flag(r.expiration.form \notin {"naive", "day"} \/ Distance(r.expiration.day, 0) >= HalfYear)

iframe(p) == Flag(p.reached = "refused" \/ ~p.marks)
mouseOver(p) == Flag(p.reached = "refused" \/ p.mouse)
rightClick(p) == Flag(p.reached = "refused" \/ ~p.right)
forwarding(p) == Flag(p.reached = "refused" \/ p.hops > 2)

AddressFeatures(u) ==
    <<havingIP(u), haveAtSign(u), getLength(u), getDepth(u), redirection(u), httpDomain(u),
      tinyURL(u), prefixSuffix(u)>>

DomainFeatures(r) ==
    IF r.answer = "fault" \/ (r.answer = "record" /\ (AgeFails(r) \/ EndFails(r))) THEN Raised
    ELSE IF r.answer = "unregistered" THEN <<1, 1, 1>>
    ELSE <<0, domainAge(r), domainEnd(r)>>

PageFeatures(p) ==
    IF p.reached = "fault" THEN Raised
    ELSE <<iframe(p), mouseOver(p), rightClick(p), forwarding(p)>>

\* Without the domain's name and the label, which are not given to the model.
featureExtraction(s) ==
    IF Raised \in {DomainFeatures(s.record), PageFeatures(s.page)} THEN Raised
    ELSE AddressFeatures(s.url) \o (DomainFeatures(s.record) \o PageFeatures(s.page))

-----------------------------------------------------------------------------
(* The adapter.                                                            *)

\* No HTTP or HTTPS URL with a host, or one with credentials, is refused; urlsplit leaves the
\* parameters in the last segment.
lexical_features(u) ==
    IF u.form # "web" \/ u.at = "user" THEN Raised
    ELSE <<0, Flag(u.at # "none"), Flag(u.length >= TextLength),
           u.segments + Flag(u.last # "empty"), Flag(u.slashes > 7), Flag(u.token),
           Flag(u.shortener # "none"), Flag(u.dash)>>

\* The first date of a list, and a stamp, can be read; a timezone is dropped.
Readable(date) == date.form \in {"naive", "aware", "day", "stamp", "dates"}

\* A mistake the code could have had: an expired domain counted as one that ends soon.
whois_worker_signed(r) ==
    IF r.answer = "record" /\ Readable(r.creation) /\ Readable(r.expiration)
    THEN <<0, Flag(Distance(r.expiration.day, r.creation.day) < HalfYear),
           Flag(r.expiration.day >= HalfYear)>>
    ELSE <<1, 1, 1>>

\* The answer of the child process; anything that goes wrong there is the failure's.
whois_worker(r) ==
    IF r.answer = "record" /\ Readable(r.creation) /\ Readable(r.expiration)
    THEN <<0, Flag(Distance(r.expiration.day, r.creation.day) < HalfYear),
           Flag(Distance(r.expiration.day, 0) >= HalfYear)>>
    ELSE <<1, 1, 1>>

\* The child that is alive after the timeout is ended, whatever it would have answered.
whois_features(r) == IF r.slow THEN <<1, 1, 1>> ELSE whois_worker(r)

\* A redirect beyond the limit, or to a private address, ends the request; so does, for urllib,
\* an answer that is an error.
Opened(p) == p.reached = "page" /\ p.obstacle = "none" /\ p.hops <= MaxRedirects

page_features(p) ==
    IF Opened(p) THEN <<Flag(~p.marks), Flag(p.mouse), Flag(~p.right), Flag(p.hops > 2)>>
    ELSE <<1, 1, 1, 1>>

\* With the features from the network, or with the defaults of their failure, which is also the
\* failure to find a public address.
extract_legacy_features(s, network_features) ==
    IF lexical_features(s.url) = Raised THEN Raised
    ELSE lexical_features(s.url) \o
         (IF network_features /\ s.host = "public"
          THEN whois_features(s.record) \o page_features(s.page)
          ELSE Ones(7))

-----------------------------------------------------------------------------
(* Where the two may differ.                                               *)

\* A page of which training made something other than of one that is not there.
Telling(p) == p.reached = "page" /\ PageFeatures(p) # <<1, 1, 1, 1>>

\* What the adapter is asked to refuse: credentials, destinations that are not public, and
\* what goes over a timeout or a limit (docs/extension-wazuh-integration-plan.md:306).
Guarded(s) ==
    \/ s.url.at = "user"
    \/ s.host = "private" /\ (s.record.answer = "record" \/ Telling(s.page))
    \/ s.record.answer = "record" /\ s.record.slow
    \/ /\ Telling(s.page)
       /\ s.page.obstacle \in {"inward", "large", "late"} \/ s.page.hops > MaxRedirects

\* An address that the two read otherwise.
AddressDrifted(u) == u.form # "web" \/ u.last = "parameters" \/ u.shortener = "otherCase"

\* A record whose dates they do: the adapter does not read them, or it compares dates that
\* training gave up.
DatesDrifted(r) ==
    /\ r.answer = "record"
    /\ \/ ~Readable(r.creation) \/ ~Readable(r.expiration)
       \/ /\ {r.creation.form, r.expiration.form} \cap {"stamp", "dates"} # {}
          /\ Distance(r.expiration.day, r.creation.day) >= HalfYear
       \/ r.expiration.form \in {"stamp", "dates"} /\ Distance(r.expiration.day, 0) < HalfYear

\* What the adapter does otherwise without being asked to: also, what WHOIS says of a host
\* without an address is not used, nor is a page with an error's status.
Drifted(s) ==
    \/ AddressDrifted(s.url) \/ DatesDrifted(s.record)
    \/ s.host = "unresolved" /\ (s.record.answer = "record" \/ Telling(s.page))
    \/ Telling(s.page) /\ s.page.obstacle = "error"

\* WHOIS fails and the page is not there: what training makes of it are the failure defaults.
Unanswered(s) == [s EXCEPT !.record.answer = "unregistered", !.page.reached = "refused"]

\* Of a sample that training has a vector of, the adapter makes another exactly where one of
\* these is the reason; without the network, of what remained unanswered, only for its address.
Explained(s) ==
    /\ featureExtraction(s) # Raised =>
         (extract_legacy_features(s, TRUE) # featureExtraction(s) <=> Guarded(s) \/ Drifted(s))
    /\ extract_legacy_features(s, FALSE) # featureExtraction(Unanswered(s))
         <=> s.url.at = "user" \/ AddressDrifted(s.url)

-----------------------------------------------------------------------------
(* The samples for TLC: one part is varied at a time, because every        *)
(* feature depends on one of them only.                                    *)

\* An http URL has its first "//" at 5 and any other from 8 on, an https URL at 6 and from 9
\* on; only a URL without a host can have the last one at 7 ("https:///x").
Urls ==
    {u \in UrlsOf({TextLength - 1, TextLength}, {0, 2}, {-1, 5, 6, 7, 8}) :
        /\ u.form = "web" => u.slashes \notin {-1, 7}
        /\ u.form # "web" => u.at # "user" /\ ~u.token /\ ~u.dash
        /\ u.form = "address" => u.slashes = -1 /\ u.at = "none" /\ u.segments = 0 /\ u.last = "name"}
Records ==
    RecordsOf({-2 * HalfYear}, {d + s : d \in {-2 * HalfYear, -HalfYear, HalfYear}, s \in {-1, 0, 1}})
Pages == PagesOf({0, 2, 3, MaxRedirects, MaxRedirects + 1})

PlainUrl == [form |-> "web", at |-> "none", length |-> TextLength, segments |-> 2, last |-> "name",
             slashes |-> 6, token |-> FALSE, dash |-> FALSE, shortener |-> "none"]
PlainRecord == [answer |-> "record", slow |-> FALSE,
                creation |-> [form |-> "naive", day |-> -2 * HalfYear],
                expiration |-> [form |-> "naive", day |-> HalfYear]]
PlainPage == [reached |-> "page", obstacle |-> "none", marks |-> TRUE, mouse |-> FALSE,
              right |-> FALSE, hops |-> 0]
PlainSample == [url |-> PlainUrl, record |-> PlainRecord, page |-> PlainPage, host |-> "public"]

\* What is no web address has neither page nor record, and a host without an address no page.
Samples ==
    LET plain == {[PlainSample EXCEPT !.host = h] : h \in Hosts}
        of(s, u) == [IF u.form = "web" THEN s ELSE Unanswered(s) EXCEPT !.url = u]
        all == {of(s, u) : s \in plain, u \in Urls}
               \cup {[s EXCEPT !.record = r] : s \in plain, r \in Records}
               \cup {[s EXCEPT !.page = p] : s \in plain, p \in Pages}
    IN  {[s EXCEPT !.page.reached = IF s.host = "unresolved" THEN "refused" ELSE @] : s \in all}

Unexplained == {s \in Samples : ~Explained(s)}
=============================================================================
