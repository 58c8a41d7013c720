-------------------------- MODULE UrlNormalization --------------------------
(***************************************************************************)
(* What becomes of the URL of a navigation: normalizeUrl of the extension  *)
(* (event-utils.mjs) and normalizeURL of the native host (main.go), which  *)
(* normalizes again what it is sent.  A URL is a record; its host is the   *)
(* sequence of its labels, its query the sequence of its parameters.  Keys *)
(* are a name and whether it is written with capitals.  A path or a        *)
(* parameter is well formed when Go's net/url can read it: a browser also  *)
(* reports URLs with a stray % or a semicolon.  The limit on the length of *)
(* a URL is one of the reasons behind Invalid in ServiceWorker.            *)
(***************************************************************************)
EXTENDS Naturals, SequencesExt

Redacted == "[REDACTED]"
NoUrl    == [scheme |-> "none"]

WebSchemes == {"http", "https"}

KeysOf(query) == {p.key : p \in ToSet(query)}

ValuesOf(query, key) ==
    LET params == SelectSeq(query, LAMBDA p : p.key = key)
    IN  [i \in DOMAIN params |-> params[i].value]

-----------------------------------------------------------------------------
(* The extension.                                                          *)

SENSITIVE_QUERY_PARAMETERS ==
    {"access_token", "api_key", "apikey", "auth", "authorization", "code", "key",
     "password", "session", "session_id", "token"}

SEARCH_QUERY_PARAMETERS == {"p", "pq", "q", "query", "search", "text"}

SEARCH_ENGINE_DOMAINS ==
    {<<"bing", "com">>, <<"google", "com">>, <<"duckduckgo", "com">>,
     <<"search", "yahoo", "com">>}

isSearchEngineHost(host) == \E domain \in SEARCH_ENGINE_DOMAINS : IsSuffix(domain, host)

\* The keys whose value the extension replaces.
Sensitive(key, host) ==
    \/ key.name \in SENSITIVE_QUERY_PARAMETERS
    \/ key.name \in SEARCH_QUERY_PARAMETERS /\ isSearchEngineHost(host)

IsSecret(param, host) == Sensitive(param.key, host)

\* Redact that deletes what it should replace.
RedactDeleting(query, host) == SelectSeq(query, LAMBDA p : ~IsSecret(p, host))

\* searchParams.set leaves a key once, at its first place; the query is then written anew
\* and well formed.  A query without a sensitive key stays as it is.
Redact(query, host) ==
    LET first(i) == \A j \in 1..i - 1 : query[j].key # query[i].key
        kept     == SelectSeq([i \in DOMAIN query |-> i],
                              LAMBDA i : first(i) \/ ~IsSecret(query[i], host))
        secret   == \E i \in DOMAIN query : IsSecret(query[i], host)
        param(p) == [key |-> p.key, wellFormed |-> TRUE,
                     value |-> IF IsSecret(p, host) THEN Redacted ELSE p.value]
    IN  IF secret THEN [i \in DOMAIN kept |-> param(query[kept[i]])] ELSE query

normalizeUrl(url) ==
    IF url.scheme \notin WebSchemes THEN NoUrl
    ELSE [url EXCEPT !.user = "", !.fragment = "", !.query = Redact(@, url.host)]

-----------------------------------------------------------------------------
(* The native host.                                                        *)

sensitiveParameters ==
    {"access_token", "api_key", "apikey", "auth", "authorization", "code", "key",
     "password", "session", "session_id", "token"}

searchParameters == {"p", "pq", "q", "query", "search", "text"}

\* HostSensitive without strings.ToLower(key).
HostSensitiveExact(key, host) ==
    /\ ~key.capital
    /\ \/ key.name \in sensitiveParameters
       \/ key.name \in searchParameters /\ isSearchEngineHost(host)

HostSensitive(key, host) ==
    \/ key.name \in sensitiveParameters
    \/ key.name \in searchParameters /\ isSearchEngineHost(host)

\* url.Values: the values of each key.  Query leaves out what it cannot parse, and Encode
\* writes the keys in an order of its own.
Values(query, host) ==
    LET parsed == SelectSeq(query, LAMBDA p : p.wellFormed)
    IN  [k \in KeysOf(parsed) |->
            IF HostSensitive(k, host) THEN <<Redacted>> ELSE ValuesOf(parsed, k)]

\* What the host logs of a URL, NoUrl when it refuses the event.
normalizeURL(url) ==
    IF url.host = <<>> \/ url.scheme \notin WebSchemes \/ ~url.pathWellFormed THEN NoUrl
    ELSE [scheme |-> url.scheme, host |-> url.host, query |-> Values(url.query, url.host)]

-----------------------------------------------------------------------------
(* What the two together owe a URL.                                        *)

WellFormed(url) == url.pathWellFormed /\ \A p \in ToSet(url.query) : p.wellFormed

\* The host's record of the URL is the same whether the extension has normalized it or not:
\* the lists and the treatments of keys written twice or with capitals agree.
RedactedTwice(url) ==
    WellFormed(url) => normalizeURL(normalizeUrl(url)) = normalizeURL(url)

\* Every parameter name is logged, a sensitive one with the replacement only, any other with
\* all its values in their order; and only a URL with a malformed path is refused.
StructureKept(url) ==
    LET logged == normalizeURL(normalizeUrl(url)) IN
    /\ url.pathWellFormed => logged # NoUrl
    /\ WellFormed(url) =>
         /\ DOMAIN logged.query = KeysOf(url.query)
         /\ \A key \in KeysOf(url.query) :
               logged.query[key] = IF Sensitive(key, url.host) THEN <<Redacted>>
                                   ELSE ValuesOf(url.query, key)
=============================================================================
