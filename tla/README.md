# Verification of go.microservices.io

The repository is a library of building blocks for Go microservices: an HTTP
server with graceful shutdown, middlewares, messaging, storage, observability
and security helpers. Most are thin layers over an SDK. The parts that are hard
to get right are those where goroutines, signals, timeouts, channels and remote
services meet; this directory models them in TLA+, checks them with TLC and
proves the most important facts with TLAPS.

## 1. Inventory

| Component | State it keeps | Operations | Hard because of | What makes it correct |
|---|---|---|---|---|
| HTTP server (`server/http/http.go`) | `http.Server`, channels `quit` and `shutDownError`, a WaitGroup received by value | `New`, `NewmTLS` | two goroutines, signals at any moment, a 5 s timeout, an unbuffered channel | a signal stops it; nil only after a clean drain; background work waited for |
| Background tasks (`utils/concurrency-threads.go`) | package variable `wg`; a mutex per `BackgroundProcess` | `RunInTheBackground`, `BackgroundProcess` | panics, a WaitGroup nobody can wait on, a mutex nobody shares | a panic is contained; periodic functions exclude each other |
| Concurrency limiter (`middlewares/rate-limit.go`) | `maxConcurrentRequest` under `mut` | `LimitMaxConcurrentRequestPerHour`, `RateLimit` | check-then-increment, early return with a lock, panicking handlers | exact count, limit respected, no spurious 429 |
| SQS queue (`messaging/aws-sqs/sqs.go`) | none of its own; a batch and the caller's channel | `SendMessage`, `ProcessMessages`, `DeleteMessage` | redelivery, back-pressure, crashes, swallowed errors | at-least-once, no loss in the hand-off, bounded prefetch |
| Kafka publisher (`messaging/kafka/sarama.go`) | one producer per call | `Publish` | shadowed `err`, deferred `Close`, retries | nil means published; producers closed |
| Country cache (`utils/user-location.go`) | `countryCache` under an RWMutex | `getCountryName`, `LoadAllCountries` | look-up, fetch and store are not atomic; the map is swapped meanwhile | no name older than the last reload, no miss of a loaded country |
| Search index (`storage/seachindex/elasticsearch`) | daily indices in the cluster | `NewSearchIndex`, `IndexRecord`, `Search`, `CreateIndexWithMapping` | check-then-create, ignored responses, partial answers | a record reported as indexed is stored and found in the end; a complete answer contains what was shown before |
| Object store (`storage/objectstore/s3/s3.go`) | bucket and prefix | `PutObject`, `GetObject`, `GetObjectStream`, path helpers | metadata and content read separately, retried uploads, contexts handed to readers, string surgery on keys and URLs | no two paths share a key; a read sees what was acknowledged before it; contexts end |
| HTTP helpers (`utils/http-helpers*.go`) | none | `HTTPRequest`, `HTTPMultipartRequest`, `HTTPRequestWithTrace`, `MtlsRequest`, `ReadRequestBody`, cookies, context values, responses | timeouts after the effect, broken bodies, connection reuse, header order, nil responses | success means carried out; only complete bodies are acted on; connections are not leaked |
| Logger (`observability/logging/logger.go`) | cores, sampler counters, a log file; per slog handler a slice of attributes | `NewLogger` and its clean-up, `LoggerFromContext`, the slog adapter | slices shared by derived handlers, clean-up while others log, sampling | every record reaches exactly the sinks that want it, with its own attributes |
| Tracing (`observability/tracing`) | the global tracer provider | `InitProviderWithOpenTelemetryCollectorGrpcEndpoint` | a partial error drops the whole resource | a provider without identity is reported |
| RED metrics (`observability/prommetrics`) | counters nobody can read | `StartRequest`, `Success`, `Failure` | both or neither called for a request | one outcome per request |
| Tokens and sessions (`security/iam/authentication`, cookies of `utils/http-helpers.go`) | cookies in the browser, keys at the provider | `GenerateToken`, `GenerateTokenWithCode`, `DecodeToken`, `ValidateAWSCognitoAccessToken`, `SetCookie`, `ClearCookies` | keys change between fetch and verification, responses overtake each other, failures become empty tokens | only a valid token is served, a token good for the check in use is not refused, a sign-out is final |
| Data stores, Redis, SageMaker | SDK clients | single calls | swallowed errors | - |
| `dsa/`, empty and commented-out files | - | - | - | - |

Interactions: an application calls `New` with its router and its WaitGroup,
wraps handlers in the limiter, starts `ProcessMessages` in a goroutine and
reads its channel from workers, and launches work with `RunInTheBackground`. It
passes the token of a cookie or header to `DecodeToken` or
`ValidateAWSCognitoAccessToken` and puts the user into the request's context,
and gives its logger to the set-up of the tracer provider, which reports to it.
Otherwise components share only the process: the signal that drains the server,
the panic of a periodic function that ends it, the crash that loses what the
SQS poller holds. `PROJECT.json` lists every component and every hazard at its
line.

## 2. Modules

| Module | Role |
|---|---|
| `DrainContract` | abstract: admit while open, drain, stop with nil only when idle |
| `GracefulShutdown` | `New`, `NewmTLS`, `RunInTheBackground` and `BackgroundProcess` in one process; implements `DrainContract` |
| `GracefulShutdownProofs` | its theorems |
| `AdmissionControl` | abstract: atomic admission to a limited number of places |
| `ConcurrencyLimiter` | the limiter, one step per statement; implements `AdmissionControl` |
| `ConcurrencyLimiterProofs` | its theorems |
| `AtLeastOnce` | abstract: processed only after accepted, deleted only after processed |
| `SqsQueue` | producer, poller, channel, workers, SQS, crashes; implements `AtLeastOnce` |
| `KafkaPublisher` | concurrent calls of `Publish` against brokers that lose and duplicate |
| `MessagingProofs` | theorems of `SqsQueue` and `KafkaPublisher` |
| `CountryCache` | lookups and reloads sharing `countryCache`; reads, fetches and the swap are separate steps |
| `SearchIndex` | concurrent `IndexRecord`, `Search` and `CreateIndexWithMapping` calls against a cluster that refuses, fails, answers in part and refreshes |
| `SearchIndexProofs` | its theorems |
| `ObjectStore` | uploads with retries, downloads and streams of one S3 backend; keys, prefixes and URLs |
| `ObjectStoreProofs` | its theorems |
| `HttpExchange` | the request helpers with their connections, and a handler using `ReadRequestBody` and `WriteJsonResponse` |
| `UtilsProofs` | theorems of `HttpExchange` and `CountryCache` |
| `Sessions` | a browser, a service that signs it in and out and checks its tokens, and a provider that changes its keys |
| `SessionsProofs` | its theorems |
| `Telemetry` | the logger, its slog handlers and the tracer provider that reports to it |
| `TelemetryProofs` | its theorems |
| `*MC` and `*.cfg` | the instances TLC checks |

Operators whose comment begins with "Fault:" are not part of any specification:
each is a plausible bug in the action or helper below it, and `PROJECT.json`
pairs it with a property that catches it.

### GracefulShutdown

`pc` is the goroutine inside `New` (or `NewmTLS` when `secure`), `sig` the one
it starts. The steps are the points at which the other goroutine or a signal
can intervene: before and after `signal.Notify`, the receive from `quit`
together with the start of `Shutdown`, the polling of `Shutdown`, `wg.Wait`,
and the sends on `shutDownError`, which as rendezvous on an unbuffered channel
move both goroutines at once. A signal ends the process before `Notify` and is
dropped when `quit` is full. A WaitGroup is the set of its outstanding tasks;
`New` copies the set `wg` into `wgCopy`, and nothing ever removes a task from
the copy. `helperWg` is the unexported `utils.wg`. A periodic function sleeps,
runs and sleeps again; its mutex is a variable of the call of
`BackgroundProcess` and so excludes nobody, which is why the model has no
variable for it. A panic in it is not recovered and ends the process
(`killed`), as a signal before `Notify` does. `net/http` is external:
`ListenAndServe` looks for a shutdown, binds, serves; `Shutdown` closes the
listeners, waits for active connections or its context. A request counts as
active from the acceptance of its connection. The certificate file is assumed
not to change between the two times `NewmTLS` reads it.

### ConcurrencyLimiter

Every request is a goroutine with its program counter; `mut` is the set of its
holders. `Check` and `Increment` are separate steps inside one critical
section, the deferred decrement is another, and a handler that panics reaches
it like one that returns. `maxRequest` ranges over a set of limits that
includes negative ones, which the `==` of the code turns into no limit.

### SqsQueue

`store` is what SQS knows of each message, `batch`, `chn` and `held` where its
deliveries are in the process (`finished` marks workers whose handler
returned). The same message can be in several places after its visibility
timeout. A receive whose answer is lost (`ReceiveFails`) may have hidden
messages nobody got. A receipt handle is not modelled: since `DeleteMessage`
tells its caller nothing, a failed call, a stale handle and a success differ
only in whether the message goes, which is a choice. `NewQueue` failing kills
the process, which is started again, hence no change of state. SQS, the workers
and the crash are external. A channel of capacity 0 only hands over, one with
capacity hands over when empty and a worker waits, or buffers.

### KafkaPublisher

Per call: the variable `err` of `publish`, the buffer, the attempts, and the
value that `return err` took before the deferred function ran. An attempt may
append the record without being acknowledged.

### CountryCache

A lookup locates the caller, reads the cache under the read lock, fetches one
name without a lock and stores it under the write lock; a reload fetches the
list and replaces the map. Each critical section contains one access of the map
and is one step. A name is the version of the service's data it was taken from,
so that an old name can be told from a new one. `swapped` and `overlapped` are
history variables: the version of the last reload, and the codes that were
being fetched when it took effect, and `listed` the codes it had an entry for.
A list may leave out any country, or have it without a name, and may differ
from the one before; its names are stored unchecked, so that an empty one is a
hit from then on (`Nameless`).

### SearchIndex

A call of `IndexRecord` is at one of its four requests: the existence check,
the creation, the document, the refresh. Each is answered, refused with an
error status, or unreachable (in which case the cluster may have acted anyway);
the code treats refusal as "does not exist", as success, as an error and as
success, in that order. `indexName` keeps the day the call began on. An index
is "mapped" with the caller's properties, "fixed" with those of
`CreateIndexWithMapping`, or "dynamic" when the cluster created it by itself
for a document. A search is asked at one moment and answered at another, over
the indices of all days, in full, in part (the status is 200 all the same) or
cut at `Size`. A parameter of a query is the type of its value, which chooses
its clause, and the set of records that satisfy it. A "terms" clause on an
index without the caller's mapping finds what it may (`Unsure`). `troubled`,
`shown` and `promised` are history variables: whether any request failed, what
a call returned nil for after an accepted refresh, and what was shown when a
search began.

### ObjectStore

Names are sequences of the pieces between their slashes (the constants `Pieces`
and, for the one before a leading slash, `Empty`), and hosts of the labels
between their dots (`Labels`), so that `objectPath`, `cleanPrefix`, the
validity check, the test for a URL and `parseS3URL` are modelled by what they
do. A path that begins with `https://` is a path to `PutObject` and a URL to
the others (`ByURL`). URLs are well formed, and have no port, query or escapes.
An upload is one request that the client retries (`MaxAttempts`, 3 in the code,
2 in the run); an attempt without an answer is `adrift` and may take effect at
any later time, also after the call returned. `GetObject` reads metadata and
content in two steps; `GetObjectStream` reads both at once and leaves its
context `live` with the reader. The context's expiry during a request is one of
the ways a request fails. `since` is a history variable: the uploads of the
object acknowledged before a call began. Objects of several parts, and the
contents of other buckets, are not modelled. `Ping` changes nothing.

### HttpExchange

The four helpers differ in who owns the client, whether it has a timeout, and
what they make of the status. Each call is at its dial, at sending, at waiting
for the header, or at reading the body; `conn` follows the connection it
dialed, which the two helpers that make their own client cannot use again. The
handler of a call reads what arrived (`stream`), acts (`applied`), and answers,
whether or not the caller is still there; or it gave `ReadRequestBody` nothing
to decode into, which panics. A body is a sequence of JSON values, of which the
handler's destination accepts some. The transport's own resending of requests
without body over a stale connection is left out: what it would send again is
refused by `ReadRequestBody`. Redirects and header values are left out too.
`MtlsRequest` makes a client without a timeout and hands its caller the
response unread.

### Sessions

A token is what signed it and its claim `exp`, which is missing ({}), 0, or a
time; the JWT library takes 0 for no expiration time, where
`ValidateAWSCognitoAccessToken` takes it for one. `NoToken` is the empty string
that `GenerateToken` returns for every failure. The secret of `DecodeToken` is
taken to be configured (`Secret`). A response is the set of its cookies;
responses reach the browser in any order, and a cookie goes when it is past.
`DecodeToken` verifies with the public key, loses that result, verifies with
the secret, and panics where the code dereferences nil.
`ValidateAWSCognitoAccessToken` is two steps, the fetch of the keys (`keySet`)
and the verification, between which the provider may change its keys. A visit
that has been answered returns to `idle` and can be made again. The handlers
that call the helpers belong to the application; the model has one that sets
two cookies, one that clears them, and a route with the check forgotten.
`arrival`, `seen`, `kept` and `past` are history variables: when a visit
arrived, which keys were published at some or at every moment since, and the
sign-ins answered before a sign-out was.

### Telemetry

A Go slice is an array and a length, so that handlers derived from one parent
may share an array: `WithAttrs` copies, `WithGroup` shares. A record's level is
converted, compared with the level of each core, counted by the sampler once
for all of them, and written to one core after another; the clean-up may come
between any two of these. The tracer's set-up either has the whole resource or
none of it, and in the second case logs a warning before it goes on. A logger's
name, times and encodings are left out, as is the rotation of files
(lumberjack). `given` is a history variable: the attributes given along the way
to a handler. A record's own attributes, which follow its handler's, are one
value, the record.

## 3. Runs

| Run | Checks | Shows |
|---|---|---|
| `shutdown` | `TypeOK`, `NilMeansCleanStop`, `SignalStopsServer`, `ImplementsDrainContract` | the lifecycle is correct for callers whose WaitGroup is empty at the call |
| `shutdown_wait` (violation) | `WaitCoversBackgroundTasks` | a task started after `New` is running when `wg.Wait()` returns, and so may be one of `RunInTheBackground` |
| `limiter` | `TypeOK`, `SlotsAccounted`, `LimitRespected`, `NoSpuriousReject`, `EveryRequestEnds`, `ImplementsAdmissionControl` | the limiter is exact and live |
| `sqs` | `TypeOK`, `HandOffKeepsOrder`, `AckedIsProcessed`, `ImplementsAtLeastOnce` | at-least-once through crashes, timeouts, failing handlers and deletes |
| `kafka` | `TypeOK`, `EmptyRecordReported` | an encoding error is reported although the record is sent |
| `kafka_nil` (violation) | `NilMeansPublished` | `Publish` returns nil when every send failed |
| `country_cache` | `TypeOK`, `FreshUnlessOverlapping`, `ListedStayCached` | a stale name needs a fetch overlapping a reload; a country the last reload listed never misses |
| `search_index` | `TypeOK`, `ReportedIsStored`, `RaceIsHarmless`, `SearchFindsReported`, `ReportedBecomesSearchable` | the creation race alone is harmless; nil means stored, and found in the end; a complete answer has what was shown before the search |
| `object_store` | `TypeOK`, `PathsAreDistinct`, `ReadsAcknowledged`, `ContextsEnd` | reads agree with acknowledged uploads through retries and late effects; contexts end |
| `http_exchange` | `TypeOK`, `OkMeansApplied`, `AppliedAsSent`, `NoConnectionLeft`, `ConnectionsEnd` | success is real, broken and oversized bodies are never acted on, connections end |
| `sessions` | `TypeOK`, `SignedOutStaysOut`, `ServedIsAuthentic`, `GoodTokenServed` | only a valid token is served, one good for the check in use is not refused, a sign-out clears every earlier sign-in |
| `telemetry` | `TypeOK`, `WrittenAsLogged`, `IdentityLossIsLogged` | each sink gets exactly its records with their attributes; a lost identity is reported |

Bounds. `shutdown`: two requests (one can hang while another ends), one task of
each kind (running before the call, started after it, ended), one periodic
function (nothing excludes a second), two signals (one to drain, one during the
drain or into a full buffer). `limiter`: three requests, limits -1, 0, 1, 2 and
4: unlimited, closed, reached by one and by two, out of reach. `sqs`: two
messages (a full batch), two workers (both can hold the same message), channels
of capacity 0 and 1, one crash (`MaxCrashes`). `kafka`: two calls, two retries
(the code has five: each beyond the first repeats the same step).
`country_cache`: two lookups (both can miss the same code), two reloads (which
can finish out of order), two codes, each of which a list has with a name,
without one, or not at all, two versions (`MaxVersion`: before and after a
change of the data, between any two steps). `search_index`: two calls (they
race, or one finds the index, or one begins after midnight), two records, two
days (`MaxDay`), one search of one hit (two records are then too many) with no
condition, with conditions that one record meets, and with a value of a wrong
type. `object_store`: two uploads (of one path or of two that look alike), one
reader (readers do not affect each other), two attempts (each beyond the second
repeats the same step), a prefix with superfluous slashes and none, an invalid
path, a path that is also the URL of an object of the bucket, URLs of another
bucket and of a foreign host. `http_exchange`: two calls (the second can reuse
the first's connection), bodies of no, one good, one bad and two values, and
one that passes the limit after its first value. `sessions`: two requests to
sign in or out (their responses overtake each other), visits one after another
(they do not affect each other), two keys (one replaces the other), time to 3
(`MaxTime`) with tokens that live 1 and cookies that live 1 or 2: a token
expires in a living cookie, and during a visit. `telemetry`: three handlers
(two derived from one), two attributes, two levels of derivation (`Depth`), two
records with the same message (one is sampled away), levels on both sides of
every threshold, six configurations (two outputs, one, none; with sampler,
without, with half of one; two levels that cannot be parsed). `MaxSignals`,
`MaxCrashes`, `MaxVersion`, `MaxDay` and `MaxTime` bound counters that exist
only for that.

Deadlock is checked, except in `shutdown` (a signal before `Notify` or a panic
ends the process), `kafka`, `search_index`, `object_store`, `http_exchange`,
`sessions` and `telemetry` (every call has returned, or time has run out).
`country_cache`, `sessions` and `telemetry` use symmetry, and check safety
only.

Fairness. Goroutines that can run are run (weak fairness of `CallerProceeds`,
of `SignalGoroutine`, of `Proceed`, of the poller and the workers); the 5 s
context expires. `CallerProceeds` leaves out the failure of a server that
serves, which nothing obliges to come: such a server need return only once the
signal goroutine called `Shutdown`. `sync.Mutex` hands itself to a
goroutine that has waited for 1 ms, so whoever keeps asking gets it: strong
fairness of `Acquire`. Handlers of the limiter are assumed to return or panic.
SQS is assumed to deliver a message that stays visible and to end every
visibility timeout, and no handler to fail on the same message for ever. The
cluster refreshes its indices periodically. Requests to S3 end because their
context does, which also expires under an open reader; nothing makes a caller
close one. The clients of `HTTPRequest` and `HTTPMultipartRequest` have a
timeout, and their idle connections `IdleConnTimeout`; the client given to
`HTTPRequestWithTrace` and the one of `MtlsRequest` need have neither, for
which `ConnectionsEnd` claims nothing, and handlers owe no answer in
`HttpExchange`. Requests, background tasks and signals owe nothing in
`GracefulShutdown`: they may hang or never come.

## 4. Proofs

All theorems hold for every value of the constants under the named assumptions
of the modules (finite `Requests`, integer `Limits`, natural `MaxSignals`;
names without an empty list of pieces). They state every invariant and every
action property the runs check. `MessagingProofs` and `UtilsProofs` each hold
the proofs of two components of one package that share no state; the second
component's names carry a prefix (`Publisher`, `Cache`).

`GracefulShutdownProofs`: `TypeCorrect`, `NilIsClean`, `ServingHasCA` and
`Refinement` (`Spec => ImplementsDrainContract`). `NilMeansCleanStop` is not
inductive: nil is delivered long after `Shutdown` succeeded, and the goroutine
also gets to that send after an error. The strengthening `IInv` says what the
goroutine knows at each step, that a caller still waiting has not been sent an
error (`NilAfterErrorIsLate`), and that a successful `Shutdown` leaves the
server empty for good (`DrainedForGood`).

`ConcurrencyLimiterProofs`: `TypeCorrect`, `CounterIsAccurate`, `LimitHolds`,
`RejectsOnlyWhenFull` and `Refinement` (`Spec => ImplementsAdmissionControl`).
The limit is not inductive: `Increment` keeps it only because what `Check`
found is still true, which mutual exclusion protects (`NotFullWhenAdmitting`,
`FullWhenRejecting`). Lemmas say how each kind of step changes the cardinality
of `Holding`.

`UtilsProofs` on `CountryCache`: `CacheTypeCorrect`, `Freshness` and `ListedAlwaysHit`.
Freshness is not inductive: a name about to be stored is in no map yet. The
strengthening says that such a name, unless its fetch overlapped the last
reload, is as recent as that reload (`StoresFresh`), which holds because the
service's data never goes backwards (`NothingFromTheFuture`).

`UtilsProofs` on `HttpExchange`: `TypeCorrect`, `SuccessIsReal`,
`OnlySentIsApplied` and `NothingLeftOpen`. That only complete bodies are acted on follows from what a
handler can find to read, the body or a proper beginning of it with its mark
(`StreamsAreSent`), and from a lemma about `ReadRequestBody`
(`OnlyOneValuePasses`): what passes is one good value and the end. Success is
real because the status tells what the handler did (`StatusIsTrue`), and
connections are not forgotten because one in use belongs to a call that has not
returned (`ConnectionsInUse`).

`MessagingProofs` on `SqsQueue`: `TypeCorrect`, `PrefetchIsBounded`,
`OrderIsKept`, `AckedIsKept` and `Refinement` (`Spec =>
ImplementsAtLeastOnce`). The contract needs to know, when a worker processes or
deletes a message, what happened long before: that everything in memory was
sent (`SentOnly`) and that a worker whose handler returned has processed what
it holds (`DeletesProcessed`). One lemma follows a message from the batch into
the channel, another from there to a worker. Order follows from lemmas on
concatenation: the pipeline `chn \o batch` is the same sequence before and after
a message moves from one part to the other, and loses its head when a worker
gets one. `AckedIsKept` is the safety half of `AckedIsProcessed`: an acknowledged
message that was not processed is still in the queue.

`MessagingProofs` on `KafkaPublisher`: `PublisherTypeCorrect` and
`EmptyIsReported`. An encoding error stays in `err` until the return statement
takes it (`EmptyIsKnown`), and a call that sends has a retry left (`Progress`),
hence the bound on copies.

`SearchIndexProofs`: `TypeCorrect`, `NilIsStored`, `HarmlessRace` and
`SearchIsComplete`. All rest on the cluster forgetting nothing (`Grows`): each
request is shown to keep what is stored and searchable and the mapping of an
index that exists, and growth to keep the invariants of calls and searches. The
strengthening says that a call at its refresh has stored its record, and, while
nothing failed, that a call stores only where there is an index (`NoTrouble`).

`SessionsProofs`: `TypeCorrect`, `SignOutIsFinal`, `OnlyAuthentic` and
`GoodIsServed`. The answer under way to a sign-out clears every cookie whatever
the browser has by then (`AnswersAreOwn`); fetched keys lie between those that
were published all the while and those that ever were (`KeysAreCurrent`); and
what a request carries of a user was checked (`UserIsChecked`).

`ObjectStoreProofs`: `TypeCorrect`, `DistinctPaths`, `ReadsSeeAcknowledged` and
`NoContextLeft`. That the bucket holds no more versions than there were attempts
needs a count: `Landings` pairs every upload with its attempts that reached the
bucket, and its cardinality is the length of the bucket (`AttemptsCounted`). No
two paths share a key because `cleanPrefix` leaves no empty piece in front
(`CleanPrefixIsClean`), so that trimming a slash only ever removes the one that
an empty prefix put there (`ObjectPathIs`, `ObjectPathIsInjective`); a path with
a leading slash, for which this would be wrong, never gets past the validity
check (`NamesChecked`). A read sees what was acknowledged because an upload's
version is one of its object (`OwnVersions`), the current version is the last
(`CurrentIsLast`), and the bucket only grows (`Kept`); between `HeadObject` and
`Download` the invariant remembers that the metadata was already that recent
(`SeenSince`). A call's steps disturb no other call's invariant
(`OthersStaySound`), so each action proves only its own.

`TelemetryProofs`: `TypeCorrect`, `RecordsAreWritten` and `LossIsLogged`. What a
handler sees is what it was given because its array was allocated by a handler
that is made, and only a handler being made writes to an array, its own
(`SeesGiven`). Of an entry the strengthening says, for every sink, that it is
due there, or written there once with its fields, or not meant for it
(`OnItsWay`). The warning about a lost identity passes the sampler because it is
the first entry of its level and message: their counter is zero until it is
logged (`WarningIsFirst`), and a sampler that exists lets at least one pass.

Only model-checked: the liveness properties (`SignalStopsServer`,
`EveryRequestEnds`, `AckedIsProcessed`, `ReportedBecomesSearchable`,
`ContextsEnd`, `ConnectionsEnd`), which are beyond the prover. `AckedIsKept`,
`NoContextLeft` and `NothingLeftOpen` prove what their counterparts rest on.

## 5. Findings

* `http.go:24, 86`: the WaitGroup is passed by value. Tasks started later are
  not waited for (`shutdown_wait`).
* `sarama.go:104`: `:=` declares a second `err`, so a failed send is reported
  as success (`kafka_nil`).

Noted while modelling, without a run of their own:

* A task that is counted in the WaitGroup at the call of `New` blocks the
  shutdown for ever, since no `Done` reaches the copy (`http.go:62`).
* `BackgroundProcess` declares its mutex inside the function, so it excludes no
  other call (`concurrency-threads.go:35`).
* The refresh's response is discarded: a refused refresh is reported as success
  and the record is found only after the cluster's own refresh
  (`aws-opensearch.go:130`).
* `NewSearchIndex` and `Search` panic on an error body without the members they
  expect; an answer some shards did not contribute to is returned as whole.
* `DecodeToken` overwrites the result of verifying with the public key, so it
  never accepts a token signed with one; it panics on a string that is no token
  and on a token without `exp` or with 0 (`jwt-token.go:81, 92`). Configured with
  a public key only, it verifies with an empty secret (`jwt-token.go:81-83`),
  which the model leaves out by assuming a secret.
* `ValidateAWSCognitoAccessToken` accepts a token whose `exp` is 0, which never
  expires (`jwt-token.go:244`).
* A list of countries whose names are empty is cached as it is, and lookups
  return the empty name until the next reload (`user-location.go:126`).
* What `PutObject` stores under a path that begins with `https://` cannot be
  read by that path, which `GetObject` and `GetObjectStream` take for a URL
  (`s3.go:213`).
* `Compress` defaults to true only when all three sizes are zero, where
  `logger.go:38` says "Default: true"; `WithGroup` names the logger but does
  not qualify attributes; logging after the clean-up reopens a file nobody
  closes.
* The message about a "best-effort resource" notwithstanding, a partial error
  drops the whole resource (`otel-sdk-manual-instrument.go:114`).
* The key `PutObject` returns is prefixed and cannot be given to `GetObject`
  under a prefix (`s3.go:111`); the size `GetObject` reports belongs to its
  metadata, not its content (`s3.go:157`); the bucket of a path-style URL is
  taken to be the first label of its host (`s3.go:251`).
* `WriteJsonResponse` sets headers after it has sent them
  (`http-helpers.go:261`).
* `MtlsRequest` makes a client without a timeout (`http-helpers.go:291`).

## 6. Not modelled

* RED and USE metrics: the counters are unexported and never registered, so
  nothing outside their methods can read them and there is nothing to state.
* `shouldRetry` and `drainBody`: nothing calls them.
* `RateLimit`, CORS, client information, query strings, basic authentication,
  identifiers, environment variables: single expressions, or the configuration
  of a library.
* DynamoDB, PostgreSQL, Redis, SageMaker: single calls of a driver, nothing
  kept between them.
* The other Kafka clients, generation and refresh of tokens, authorization,
  `basic-auth.go`, `createIndexTemplate` and the algorithms: commented out,
  empty, or called by nothing.
* The SCRAM conversation, the sampling ratios of `getSampler`, log rotation,
  and the AWS, Kafka, zap and OpenTelemetry clients: libraries, or values no
  property tells apart. What the models assume of them is said in section 2.
