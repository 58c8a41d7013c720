# Verification of the Edge phishing pipeline

TLA+ specifications of the pipeline in this repository: an Edge extension reports every
navigation to a native host, the host appends it to a log that a Wazuh agent ships to the
manager, and an integration on the manager classifies each URL with a reputation provider and
a URL model. The modules are checked with TLC on small instances; their safety
properties are proved with TLAPS for every value of the constants.

## The system

| Component | Source | State | Operations |
| --- | --- | --- | --- |
| Event delivery | `edge-extension/service-worker.js` | stored queue, operation chain, pending acknowledgement, port, reconnect timer | capture, enqueue, flush, acknowledgement, timeout, disconnect, alarm, worker start |
| Capture and counters | `edge-extension/event-utils.mjs`, `updateCounter` | recent keys, six stored counters | filter, duplicate test, counting |
| Native host | `native-host/main.go` | lock file, log and rotated logs | read, validate, lock, rotate, write, sync, acknowledge |
| Classifier integration | `wazuh-server/phase4/*.py`, `custom-edge-phishing-classifier` | SQLite cache, monthly usage, circuit breaker; one process per alert | look up, guard, query with retries, record, cache, classify, report |
| Rule configuration | `wazuh-server/configure-rules.py` | rule files, policy manifest, settings, `ossec.conf` | scan, allocate, generate, install, restore |
| Server installer | `wazuh-server/install-wazuh-server.sh`, `install-phase4.sh`, `install-ml-model.py` | snapshot, managed files, manager | snapshot, switch, five stages, rollback |
| URL model | `url_ml.py`, `legacy_url_ml.py` | none | features, inference, thresholds |
| Model installer | `wazuh-server/install-ml-model.py` | model, scaler, settings | validate, back up, replace, enable, restore |
| Evaluation and verification | `tools/evaluate-ml-list.py`, `verification/*` | the settings loaded at the start | score a list, score one URL |
| Original implementation | `legacy/original-implementation/` | lists of threads and rows | collect training data, extract features |
| Windows installers, training | `wazuh-agent/`, `native-host/*.ps1`, `train_url_model.py` | files | sequential copies, fitting |

They interact by messages with answers (worker and host: one event, one acknowledgement), by
files (two hosts share a lock file and a log; integration processes share one SQLite file;
the installer rewrites settings that running processes have loaded), and by processes started
per event. Nothing in the pipeline holds a lock across components.

What is hard here, and why tests do not reach it:

- every `await` of the worker lets another listener run, and the browser may stop the worker
  at any of them; only `chrome.storage` survives;
- the acknowledgement is a promise across two processes, so it can be late, lost, or right and
  unread; the event is then sent again;
- the lock file is taken over by age, found stale by one call and removed by another;
- rotation is a sequence of renames and the write is not atomic: a host can die in between;
- a budget, a circuit breaker and a cache are consulted in separate transactions while other
  processes change them;
- the installer is a sequence of stages with a rollback around it and one inside each of them,
  while the manager goes on serving from whatever is on disk;
- identifiers are allocated among rules of other authors, under options, defaults and a wizard;
- a model, its scaler and the settings that enable it are three files, replaced one by one under
  processes that read them one by one;
- the model was trained on what one program makes of a URL and is asked with what another makes
  of it; nothing but the numbers would show a difference;
- the collection of the training data counts its threads without the lock they report under.

## Modules

| Module | Models | Composes |
| --- | --- | --- |
| `NavigationDelivery` | what delivery promises: at-least-once from a bounded queue | |
| `ServiceWorker` | event delivery, with the host as the state of its connection | implements `NavigationDelivery` |
| `NavigationCapture`, `MCNavigationCapture` | filter, duplicate window, counters | `UrlNormalization` |
| `UrlNormalization` | what the extension and the host make of a URL | |
| `NativeHost` | lock file, rotation, write | |
| `ReputationClassifier`, `MCReputationClassifier` | concurrent classifier processes | `ClassifierInputs` |
| `ClassifierInputs` | which settings, alerts and replies are taken, and as what | |
| `RuleAllocation`, `MCRuleAllocation` | which identifiers the rules get | |
| `ServerInstaller`, `MCServerInstaller` | the complete installer, its three stages, and the manager that serves meanwhile | |
| `ModelInstaller` | installations of a model next to processes that score | `ModelScoring` |
| `ModelScoring` | thresholds and bands of the URL model | |
| `FeatureCollection` | the threads that collect the training data | `UrlFeatures` |
| `UrlFeatures` | the features of training and of the adapter, and why they differ | |

The theorems about `ServiceWorker`, `NavigationCapture`, `NativeHost`, `ReputationClassifier`,
`RuleAllocation`, `ServerInstaller`, `ModelInstaller` and `FeatureCollection` (with `UrlFeatures`)
are in a module of the same name with `_proofs`. An `MC` module gives a module its inputs; the
bounds are in the `.cfg` files. Definitions with a name such as `RollbackRestoreShort` next to
`RollbackRestore` are deliberate mistakes: a run with the one put in the place of the other must
violate the property PROJECT.json names with it.

### ServiceWorker and NavigationDelivery

An action is what runs between two awaits. `chain` is `operationChain` as a sequence: its head
is the operation that runs, an event number stands for `enqueueEvent` of that event and 0 for
`flushQueue`. `pc` is the await the running operation has reached, `local` the queue it has
read. `pending` is `pendingAcknowledgement`, `port` the native port with how far its host has
come: the host is part of this module as the sequence received, logged, accepted (or refused,
or exited). A connection the worker closes leaves its host behind (`orphans`): it may still
write the event it holds. `Stop` clears what the worker keeps in memory.

The `flushing` flag is not modelled: `flushQueue` runs only inside the chain, one at a time, so
the flag is never set when it is tested. Counters are written and never read by this code and are
left to `NavigationCapture`; the delay that `reconnectDelayMs` scales is not bounded in the model,
the timer may fire at any time. Several armed timers are one flag, `timer`: a second one would add
one more flush, as the alarm may at any time. Events are numbers because their identifier is a
fresh UUID. An event is `Invalid` when `parseAndValidateEvent` refuses it and `Oversize` when
`readNativeMessage` does: the two differ in what the worker sees, an answer or a disconnect.

`NavigationDelivery` is the abstract promise: an event joins a bounded queue, which gives up
its oldest entry when full; records are written of events the queue has held, at least once;
the oldest event leaves when its record exists or the host has refused it. The mapping takes
the stored queue for `waiting` and the set of logged events for `written`.

### NavigationCapture

Its clock counts in ticks so that the window can be met exactly. The queue is its length and
the host's answer a choice. `dupUpdates` are the `updateCounter` calls of duplicates, which run
beside the chain; `chainUpdate` is the one of the running operation. Both carry the counters
they have read. `StartEnqueue`, `StoreShortened` and `StartObserve` are an enqueue, which counts a
drop before it stores the queue and an event after; `StartFlush`, `FinishChainUpdate` and
`RemoveHead` are a delivery, which counts the answer before it removes the event. In between, the
operation is `Halfway`: a stop there leaves an event stored and never counted, or counted and still
queued, so that it is counted again.

`EventsAreAccounted` states the sum: what was observed is what was accepted, rejected or dropped
and what is still queued, but for an operation halfway and one event for each stop. It is claimed
until two counter updates have overlapped (`overlapped`). It is false afterwards, and that is a
finding: `updateCounter` writes back all six counters, so that of two overlapping calls the later
undoes the count of the other. Without the condition TLC finds a navigation that is stored and
counted, and whose count is gone when the call of a duplicate returns, which had read the counters
before. What still holds then is that duplicates are never counted too often.

`UrlNormalization` has the two normalizations as operators: `normalizeUrl`, which decides what is
an event and what its key is, and the host's `normalizeURL`. A URL is a record with its query as a
sequence of parameters; Go's `url.Values` is a function from keys to sequences of values. What Go
cannot parse, and JavaScript can, is marked: Go drops such a parameter and refuses such a path.
`RedactedTwice` and `StructureKept` compare what is logged with what should be, and the capture
module states that no navigation is captured for which they fail. Order of keys, percent-encoding
and length are left out, and with them the host's other refusals: a `url_host` that does not match
(`main.go:203`) and a URL that is too long.

### NativeHost

An action is one call to the file system. A line has a number, so that order and loss can be
told, and is partial, unsynced or synced. A host that dies becomes its successor, and leaves
its lock file. Two pairs of calls are one action, because nothing can come between them that
the lock does not exclude and no property tells them apart: the open and the write of the log,
and its sync and close. `OpenFile` and the `Stat` that finds the lock stale are separate
(`CreateLock`, `FindStale`), and so are that `Stat` and the `Remove`. `GiveUp` is one action for an
`OpenFile` that fails, a `Stat` that finds a fresh lock, and the deadline: they change nothing.
`waited` and `age` count ticks up to the first value beyond their limit.

### ReputationClassifier

A process is the state of one integration process: `lookup`, `circuit`, `reserve`, `query`, then
`failed` or `answered`, `caching`, `scoring`, `report`. Each is one SQLite transaction, one call
or one message. The answers of the providers and of the model are choices. `Catch` is `main`'s
handler of every exception, `Die` a process that ends without its message. A cached row that is no
JSON cannot come from `put` and is left out. Nothing keeps two processes that miss the cache for
one URL from querying it both, although a document wants that prevented: a finding.
`SwitchProvider` stands for the installer's switch and for an edit of the settings: running
processes keep the provider they were started with.

`ClassifierInputs` has the parsers as operators: a settings file, an alert or a reply is a record
of what its parser tells apart, and the result is a provider, a URL, a verdict, or `Refused`.
`Start` reports an error event when settings or alert are refused; `Answer` takes what
`normalize_phishtank_result` and `normalize_response` make of the replies. Settings and alerts
vary one part at a time, each number at both ends of its range, because every test is of one part.
The parsers have more detail than the properties can see: to these an input is accepted, with its
provider or verdict, or refused. `configured` keeps of the settings the provider alone: the cache
times, the limit, the retries and the cooldown are constants, which the settings' ranges justify
assuming natural numbers.

### RuleAllocation

One run of `configure-rules.py` is `Start` (options and `apply_installed_policy_defaults`),
`Allocate`, perhaps `Wizard` and `Reallocate`, and `Install` or `Abandon`. The active rules
outside the managed files are the set `used`; a numbering is a function from some of the roles to
identifiers, and the empty one stands for no options, no policy, and a refusal, which the code
distinguishes by type. Of an option the code finds in the command line only what is written as a
word of its own: one given as `--role=value` is `joined`, and the installed value wins over it.
`used` is what `scan_used_ids` finds; a rule file that cannot be read, and a rule its expression
does not match, are outside it. The two search loops of `allocate_ids` are recursive functions,
the properties compare them with what they should find. Between runs an administrator adds rules,
and the installed policy may be one of a version without `NewRole`. The XML that is parsed and
printed is left out.

### ServerInstaller

`disk` maps each managed file, in the order of the script's `managed` list, to the part of its
content that anything depends on: the navigation identifier of the integration block in
`ossec.conf`, provider and identifier of the rules and of the policy, provider, identifier and the
ML switch of the configuration, the provider of the manifest, the run that wrote key, code and
model, the calls counted in the cache. `pc` is the next command. `Write` is a command that
replaces one of these, `Backup` the copy a stage makes first (`saved`), `Restart` the validation
and restart that end it. `Fail` is any failing command, `RestartFails` a restart that leaves the
manager up or down, `Signal` a trapped one, `Kill` an end without a trap. A failing stage with a
backup goes through `Undo` and `UndoRestart`, then the script's rollback removes and restores
file after file (`RollbackRemove`, `RollbackRestore`) and restarts the manager. A stage's `Undo`
copies a few files in one action: the rollback that follows writes them all again. Every write of a
file is one step, also where the script writes in place, and a `cp` or `rm` of the rollback itself
does not fail (`install-wazuh-server.sh:305`, 317); what such a failure leaves is not represented.

The manager holds the block and the rules of its last restart; each classification reads the
configuration on disk. `Serving` says when one can start, `Results` what it may report, and
`FiredRule` which of the generated rules reports that to the operator. A classification reads and
reports in one step: one that is under way during a switch is not represented.

Parsing of options, file modes and owners, the copies into the deployment archive and the
virtual environment are left out. The model stage is one write here; its steps are
`ModelInstaller`. `foreign` is a PhishTank rule or integration the installer does
not manage, found before the snapshot.

### ModelInstaller and ModelScoring

`install-ml-model.py` is `Begin` (options, validation of the model and of the thresholds),
`Backup`, `ReplaceArtifact` for each artifact of its mode, `WriteSettings` and `Complete` (the
second validation and the restart). `Fail` is an exception since the backup; the rollback copies
each file back in place, so each passes through a state in which it is torn, and removes what was
not there. `CutOff` is an end that is no `Exception`, or a rollback that fails itself. The content
of an artifact is the number of the run that brought it. A scoring process loads the settings, the
scaler and the model in three steps, a classification once, an evaluation once for all of its
URLs (`NextSample`). Scores are steps between 0 and 1, and any model may give any URL any of them.
`before`, `outcome`, `cut` and a job's `disturbed` are history.

Both installers are run by hand by one operator: two at once are not modelled.

### FeatureCollection and UrlFeatures

The two loops of `main.py` are one, run for `group` 0 and 1. Actions lie between two points at
which another thread may run: a thread can end before the main thread has listed it, and then dies
in `list.remove` with the lock held. `len(children)` is one action, without the lock.

`UrlFeatures` has the features as operators of a sample: what the code tells apart in a URL, in
what WHOIS answers, in a page, and in what the host's name resolves to. `Raised` stands for an
exception that reaches the caller. Training and adapter do not make the same vector of every
sample, and `Explained` says exactly when: of a sample that training has a vector of, the adapter
makes another if and only if one of these is the reason.

- `Guarded`: what the adapter is asked to refuse (`docs/extension-wazuh-integration-plan.md:306`):
  credentials in the URL, a host or a redirect that is not public, too many redirects, a body over
  the limit, WHOIS or a page later than the timeout.
- `Drifted`: what no document speaks of. An address without a scheme, and any other text that is no
  web URL, is refused. `urlsplit` counts a last segment of parameters only (`/a/;x`), `urlparse` does
  not. A shortening service is known in any letters, not only in those of the list. Dates with a
  time as text, and lists of dates, are read where training gives up, and others not read where
  training does. WHOIS is not used for a host that does not resolve, and a page not with an error's
  status, although training used both.

Without the network the adapter takes its failure defaults: `Explained` also says that these are
what training makes of a site of which neither WHOIS nor the page answers. A sample on which the
two differ and none of these holds, or the other way round, would be in `Unexplained`, and
`SkewIsKnown` says that no extraction meets one. Each listed reason is the only one of some sample,
so none is idle.

Training asks WHOIS with the host and its port, the adapter without the port: the same answer is
assumed. `web_traffic` is left out, its call is commented out. So is the first integration
(`integration-script.py`), whose functions are a copy of the training's with `havingIP` held at 0.

## Runs

| Run | Shows |
| --- | --- |
| `service_worker` | four events, a queue of two, one refused and one oversize event, three failures: type, in-flight event is the queue's head, no silent loss, order, refinement, and under fairness that every event is settled and no flush waits for ever |
| `service_worker_poison` | an oversize event is retried at the head of the queue, until the limit pushes it out (500 later navigations) (finding) |
| `service_worker_refusal` | a valid event the host could not write is dropped as if it were invalid (finding) |
| `navigation_capture` | three reports over two windows with a stop: what is suppressed, how the counters account for every event (finding); and that the two normalizations of its URL agree and keep its query |
| `native_host` | two hosts, five lines, one crash, one failing call: exclusion, order, retention, and that every message is answered |
| `native_host_lines` | a cut-off write corrupts the next, accepted, record (finding) |
| `reputation_classifier` | two processes, three alerts, some refused, two months, a change of the settings, a failure: grounded verdicts, bounded calls (finding: concurrent misses both call), breaker |
| `reputation_calls` | retries are not counted against the monthly limit (finding) |
| `rule_allocation` | every command line of the instance over every set of up to three of used identifiers: what is allocated is free, lowest and complete, a refusal has a reason, and an upgrade renumbers nothing |
| `server_installer` | three runs with every provider request, one failing command or signal and one kill anywhere: a failed run restores, a committed one agrees, no loaded rules face another provider's configuration |
| `feature_collection` | two groups of five URLs and at most three threads: a file is written with one row of each started thread, which is every URL but the last (finding); the collection ends unless an extraction hangs or a thread dies; and what is asked of the model differs from what it was trained on exactly for the listed reasons |
| `model_installer` | two installations of either mode with every choice of thresholds, one failure, one end without rollback, and a process that scores twice: what a failed run restores, and what a score may rely on |

Four findings are runs that must be violated: their property states what a comment or a document of
the repository says, and TLC shows how the code departs from it. Three more come with a run that
passes, because its property states what the code does and the quoted line says otherwise:

- `RowsComplete` has a row of every URL but the last. The loops of `main.py` go on while
  `index + 1 < n`, so 4999 URLs of 5000 are extracted, where the notebook's text counts 5000 of each.
- `EventsAreAccounted` needs `~overlapped`. Without it TLC finds a lost count.
- `OutboundIsReserved` pays for two calls when two processes miss the cache for one URL, where the
  integration plan wants no such stampede.

PROJECT.json quotes the lines.

### Bounds, and why they are enough

- `service_worker`: with four events and a queue of two the queue overflows while an event is in
  flight, an event is refused between two that are not, and the oversize one has both
  predecessors and a successor. Three failures allow a failure of a failure's repair: a crash,
  a timeout on the retry and a stop. `MaxChain` only limits when an alarm adds a flush.
- `navigation_capture`: a window of one tick and a clock of three give times inside, at and
  beyond the window of two captures; three reports are a capture, its duplicate and a third
  that meets either. Many addresses of one document, two of a page without a document identifier, one
  frame and one other scheme are the cases `isDuplicate` and `createNavigationEvent` tell apart. The
  document goes through 65 addresses: on a search engine's host and on another, every query of
  up to two of five parameters (a key twice, a key with capitals, a search term, a secret), one
  of four, and what Go cannot parse.
- `native_host`: files of one line and two rotated files make every write but the first rotate,
  and five lines go round twice; two hosts are the fewest that contend; a stale age of one tick
  lets a live host lose its lock. One crash and one failing call, each at any point.
- `reputation_classifier`: two processes are the fewest that race; three alerts let a third one
  find what two have left; a month of two ticks puts a boundary between a reservation and its
  call; a cooldown of two ticks keeps the breaker open across one. Processes are alike, so
  states are counted up to their exchange.
- `rule_allocation`: three roles of the seven are the fewest with one named, one allocated and one
  that an older policy lacks; six identifiers leave gaps of one and two before a range of three
  fits, a start beyond which nothing fits, and one outside the interval. One identifier is named,
  or two that may be equal; more of them only repeat the same tests.
- `server_installer`: three runs are an installation, one that switches or fails, and one that
  meets what was left; one failure and one kill, each at any command, so that a run starts on
  what a killed one left and then fails itself. Two identifiers let a policy and an option
  differ.
- `feature_collection`: with three threads at once and four started per group, the limit is reached
  and left again, and a thread may end before, while and after the main thread lists another.
  The samples are 16,748, of 1,662 URLs, 3,456 WHOIS records and 600 pages, one of which is varied
  at a time with each of the three hosts, and with the lengths, positions, days and redirects just
  below, at and above each limit.
- `model_installer`: three steps of a score give a review threshold, a suspicious one and a score
  room on each side; the second run meets a first that was complete, restored or cut off, in the
  same mode or the other. The process scores twice, with settings of before and after. One is
  enough: processes that score change nothing.

Every bound on a number of events, failures, ticks or lines is a constant in a guard (`Max...`)
and named where it is declared.

### Fairness

The worker's fairness is that of the event loop and the browser: ready continuations run, replies
and disconnects are delivered, a running host answers, and the one-minute alarm fires. Nothing
that fails is fair. `EventuallySettled` excludes the events behind an oversize one, which is what
`service_worker_poison` shows. A host that hangs without exiting is excluded by this fairness:
against it the code has its ten seconds' timeout, which may fire here and need not. In
`NativeHost` time passes and every host is scheduled; `EveryMessageAnswered` needs no fairness of
arrivals, crashes or failures. There a stale lock whose removal always fails would loop for ever,
and the bound on failures hides it; it is listed among the hazards. In `FeatureCollection` every
thread is scheduled, but an extraction need not end: its requests have no timeout.

## Proofs

A module `..._proofs` holds the theorems about the module it is named after, for every value of
the constants that satisfies the assumptions of that module. Every safety invariant of the passing
runs is proved, with four more of their properties: the refinement, and the action properties
`RetentionKept`, `InstalledIdsAreKept` and `SkewIsKnown`. The argument is the same in each
module: `IInv` holds initially, every action keeps it, one lemma for each action or each part, and
it implies the properties, or with a step of `Next` the action properties. `TypeCorrect` states
the type invariant of each. Where the inductive invariant came from is this:

| Module | Proved | What `IInv` adds, and why |
| --- | --- | --- |
| `ServiceWorker_proofs` | `HeadInFlight`, `NoSilentLoss`, `OrderPreserved`, the refinement | see below |
| `NavigationCapture_proofs` | `SuppressedHasTwin`, `CapturedAreApart`, `EventsAreAccounted` | The map is pruned at every call and lost at a stop: `RecentOK` relates it to what was captured, both ways (a key stands for a capture of this life; a capture within the window has its key). Counters are written from copies: `AloneOK` says that until two updates overlap there is one, and it is that of now; `PendingOK`, `ChainOK`: only the running operation can be halfway, and it has something to remove. `CopiesOK` bounds the duplicates in every copy |
| `NativeHost_proofs` | `LockExcludes`, `FilesInOrder`, `RetentionKept` | `LockOK`: who holds the lock made the lock file. `RotationOK`, `AgeOK`: while files move up, how many full ones are newer than each, less those a cut-off rotation cost. `BudgetOK`: `Receive` leaves room for the lines on their way |
| `ReputationClassifier_proofs` | `VerdictsAreGrounded`, `OutboundIsReserved`, `OpenBreakerStopsCalls`, `BreakerIsTemporary` | `GroundedOK`: every cached row, and every verdict on its way, comes from an answer. `ReservedOK`: reservations also cover the calls processes may still make (`Slots`), which may fall in a later month. `BreakerOK`: a breaker that is open was opened by the last failure |
| `RuleAllocation_proofs` | `AllocatedIdsAreFree`, `LowestIdsFirst`, `RefusesOnlyWithoutRoom`, `InstalledIdsAreKept` | `ChosenOK`, `RefusedOK`: what `allocate_ids` promises still holds when it is installed or refused, because nothing changes its inputs between. That it promises it is a lemma about its loops |
| `ServerInstaller_proofs` | `FailedInstallRestores`, `CommittedAgrees`, `OneProviderServing`, `RetainsProvider` | `ProgressOK`: what each command leaves for those after it. `RollbackOK`: the files the rollback has passed are those of the snapshot. `SettledOK`: what a run starts from, and leaves, is complete. `ProviderOK`: until the last file is written, either no alert reaches the integration, or rules and configuration are of one provider |
| `ModelInstaller_proofs` | `FailedModelInstallRestores`, `UndisturbedScores` | `RunOK`, `FilesOK`: exactly the artifacts that the loop has passed are changed, and the copies are of what was there. `DiskOK`, `ProcsOK`: an installation's files and thresholds fit, and an undisturbed process has seen no other |
| `FeatureCollection_proofs` | `RowsComplete`, `SkewIsKnown` | `ThreadsOK`: of the threads started, exactly those are listed that have not ended. `LoopOK`: after the count the list only shrinks, so a count of zero is final. `RowsOK`: rows are those of the threads that have reported, one each |

`ServiceWorker_proofs`: `NoSilentLoss` alone is not inductive. That the event a flush
removes is logged needs that an acceptance means a record (`AcceptanceOK`), that its removal
takes that event needs that the copy a flush or an enqueue has read is still the stored queue
and the event still its head (`OperationOK`, the reason for the operation chain). Refinement
also needs that what is logged was stored before (`HeldOK`) and that no event enters the queue
twice (`ChainOK`), because `Offer` and `Settle` speak of events that are new and of one place
in the queue. `OrderPreserved`
has a second invariant, `OrderInv`: the queue is in the order of capture, what the chain is still
to enqueue is later than what was stored, and when a
host has an event, the ones stored before it are logged, refused or pushed out. The refinement
theorem is about the safety specification: `NavigationDelivery` has no fairness of its own.

What is assumed of the constants is named in the modules: bounds are natural numbers, limits of
the code are positive where it compares with them, `LockTimeout < StaleAge` as in `main.go`, the
default start is a custom identifier, the roles are distinct, and model values such as `NoHost`
and `None` are none of the values they stand next to. `Hosts` and `Procs` are finite, because
their members are counted. Nothing is assumed of how many there are, of the limits' sizes, or of
which command lines, requests and foreign rules there may be. The bounds on failures, crashes and
ticks may be any numbers, so that none of the theorems depends on how many the runs allow.

The loops of `allocate_ids` are recursive functions. What they compute is proved without an
induction principle, from the least number at which the claim would fail (`LeastNatural`, and
`NatLessThanWellFounded` of the library): `NextFree` finds the lowest free identifier, `FirstRange`
the first range that fits, and `Fill` keeps what is named and takes the lowest for the rest.

`EverySkewIsKnown` is about the features alone: `Explained` holds of every sample, of any length,
depth, position, dates and redirects, for every limit. It compares the three parts of the vectors,
address, domain and page, each of which has its own reasons (`AddressPart`, `DomainPart`,
`PagePart`). `SkewIsKnown` follows, since TLC's samples are some of these.

### Only model-checked

- Liveness: `EventuallySettled`, `ChainMoves`, `EveryMessageAnswered`, `CollectionEnds`. The
  provers have no rules for fairness or ENABLED.
- `RedactionIsRepeated` and `QueryStructureKept`: both say what selections from a query of any
  length return, which takes an induction over sequences. TLC checks them on every query of up to
  two parameters.
- The properties of the runs that must be violated.

### Permitted rather than caught

Some hazards are exempted by the property that meets them, and happen in the model: a lock broken
by age (`LockExcludes`, `FilesInOrder`), a file lost to a cut-off rotation (`RetentionKept`), a
refused event whose record exists, a breaker set by the slower of two answers, a score during an
installation (`UndisturbedScores`), a thread that dies with the lock or hangs (`CollectionEnds`), a
lost count (`EventsAreAccounted`), the rollback of a switch (`OneProviderServing`). There the
property says that nothing else goes wrong; the notes of the hazards in PROJECT.json say which.

## Not modelled

- The text of URLs: percent-encoding, character sets, length.
- The modern model's features, the inference of both models and the training: numerical,
  stateless; a score is a choice.
- The reading of lists and the summary of an evaluation, and the preparation of training rows: one
  process, no state that others read.
- The installer of the virtual environment and the superseded phase 3 scripts: the first writes
  nothing the others read but a directory, the second is removed by the installer.
- Windows and agent installers and the shell verification scripts: sequential scripts of one
  operator. The first integration's flow from alert to message, which the classifier replaces.
- Wazuh, the browser, SQLite and the providers, except as choices of what they answer. SQLite
  transactions are atomic and durable.

## Plan

1. Delivery, capture, URLs, host, classifier with its inputs, allocation, installer, model
   installer, features and collection with their runs: done.
2. Proofs of the safety invariants of every module that keeps state: done.
3. Lemmas about the operators that read data: the thresholds and bands of `ModelScoring`, the
   parsers of `ClassifierInputs`, the keys of `UrlNormalization`; action properties that follow
   from the invariants above, such as that a counter or a reservation never goes back.
4. A bridge between `NativeHost` and the connection of `ServiceWorker`: that the host's sequence
   of answers is the one the worker's module assumes.
