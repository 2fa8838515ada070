# Verification of the AGY identity bridge

TLA+ models of the CLIProxyAPI (CPA) plugin in `src/src/`, the TLC runs that
check them and proofs checked by TLAPS. Paths in this file are relative to the
repository: `executor.go` is `src/executor.go`.

    tlasany M.tla                        parse a module
    tlc -config MCExecuteStream.cfg MCExecuteStream
    tlapm ExecuteStreamProofs.tla

`PROJECT.json` lists the runs, the hazards, the theorems, the lines each
definition models, and for every property a plausible bug (a *mutant*, kept
beside the definition it changes and commented `Mutation:`) that the property
catches.

## 1. The system

The plugin is a shared library loaded by CPA. CPA calls it through one C entry
point (`cliproxyPluginCall`, `main.go`) from any number of threads; the plugin
calls back through `hostCall` (`hostcalls.go`). It mirrors one
OpenAI-compatible provider of CPA's configuration: CPA routes the provider's
models to the plugin's *executor*, which adds headers that say which client is
asking and forwards the request to the provider.

| Component | State it keeps | Operations | Talks to |
|---|---|---|---|
| streaming execution (`executor.go:914-1174`) | per call only: upstream and bridge stream ids, usage buffer, `closeOnce` | `executor.execute_stream`, error body drain, batched answer, pump goroutine | host HTTP streams, host stream bridge, usage store |
| SSE framing (`executor.go:432-532`) | `sseStreamParser.pending`, `streamUsageBuffer` | `feed`, `flush` | pump |
| configuration (`config.go`, `dispatch.go`, `models.go`, `providerspec.go`) | `pluginSettings`, `pluginConfigYAML`, `providerSpecCache` (a lock each) | register, reconfigure, resolve, declare capabilities | config file, every other component reads it |
| auth record (`executor.go:20-96`) | `executorAuthRecordState` and a mutex held across the host call | `ensureAuthRecord`, reset | `host.auth.save` |
| provider editor (`management.go`) | none of its own; the page in the browser keeps rows, and what it was loaded from | load, save, test keys, fetch models | config file, configuration, provider, model cache |
| usage store (`usage.go:44-141`, `main.go:115`) | `usageState.records`, the usage file | record, load, save, shutdown | file system; filled by execution |
| usage parsing (`usage.go:141-336`) | none | totals from JSON, stream text, headers | execution |
| usage report (`usage.go:407-814`) | none | filter, sums, buckets, groups, shares | usage store |
| request path (`executor.go:534-839`) | none | endpoint, URL, headers, model and effort rewriting | configuration, identity |
| identity (`identity.go`, `executor.go:198-279`) | none | principal, application, signature | request headers, environment |
| interception and matching (`dispatch.go:365-414`, `config.go:682-820`, `providers.go`) | matched records, settings | scan providers, intercept after auth | configuration, host auth list |
| non-streaming execution, `count_tokens` (`executor.go:841-912, 1176-1207`) | none | one host call and its answer | provider |
| model catalogue (`modelcache.go`, `providerspec.go`) | model cache file | read, save, probe, publish | provider, editor |
| pages, events, ABI, packaging | counters and a bounded event list | rendering, C memory, build | - |

### What is hard here

* **Handler and pump overlap.** A bridged stream is answered by the handler
  while a goroutine already reads, emits and closes. The pump has five ways
  out, each with its own record-and-close, on top of three deferred calls.
* **Reads split anything.** A host read may end inside a field, between the
  two line feeds that end a frame, or inside CR LF.
* **Every step of a configuration change has its own lock.** Settings, YAML,
  cache and auth record are updated one after the other, while other
  lifecycle calls, saves and executor calls read and fill them.
* **The usage file is read and written outside the lock of the list** by
  overlapping calls, and the process may end at any point.
* **The host may refuse**: a stream that does not open, a read that fails, an
  event that is not taken, an auth record that is not saved.
* **A request reads the configuration piece by piece.** The interceptor and
  the executor each read settings, matched records and provider where they
  need them; lifecycle calls and scans change them in between.
* **The client's identity is derived twice**, by interceptor and executor, and
  signed twice, over a path each works out for itself.
* **A page of the editor is old when it comes back.** It never learns a key and
  names blocks and keys by what they looked like and where they stood.
* **Tokens come in many shapes**, nested, in lists, in lines, in headers, and
  under two sets of names of which one stands in for the other.

### What makes each component correct

| Component | Properties |
|---|---|
| streaming | events arrive in order, complete and once; both streams closed exactly once; the announced end is the real one; usage settled before it; the error body is bounded; nothing hangs |
| framing | the events of the stream whatever the reads; none held back; usage neither invented nor lost |
| configuration | what is derived ends up following the file; the capability declared is the one the collision guard allows; a reconfiguration does not use what it dropped; a save does not undo other edits |
| auth record | what the plugin believes the host keeps is what it keeps |
| usage store | records in order and bounded; not lost by reloads or restarts once saved with no other call under way, and not by a crash either unless a later save has emptied the file |
| request path, identity | the signature covers the path and identity that go on the wire; a key goes to its own provider only; header and body name one model; the client's effort stands and images get none; executor and interceptor agree on identity, and clients are told apart |
| matching | a request is attributed to the provider with the longest prefix it carries, and to no other |
| catalogue | what is read is one answer of the upstream, entire, or nothing |
| editor | a save lays the page over the block it was loaded from and touches no other; keys survive; an unedited page saves what `RoundTrip` names and comes back as it was; a test tries what a save would write |
| usage report | records carry the tokens of their answers; every page adds up, its buckets in order of time |

## 2. Modules

    StreamDelivery <--implements-- ExecuteStream <- ExecuteStreamProofs
    SseFraming <- SseFramingProofs
    ConfigLifecycle <- ConfigLifecycleProofs
    ProviderMatching <- Routing <- Identity <- RequestPath
                     RequestPath <- RequestPathProofs <- RequestModelProofs
    ProviderMatching <- ModelCatalog
    Identity <- PluginConfig
    PluginConfig, ModelCatalog <- ProviderEditor <- ProviderEditorProofs
    UsageStore <- UsageStoreProofs
    UsageStore <- UsageReport
    UsageReport, UsageStoreProofs <- UsageReportProofs
    MCExecuteStream, MCSseFraming, MCConfigLifecycle, MCRequestPath,
    MCProviderEditor, MCUsageStore: constants for TLC

(`<-` is EXTENDS.) Three machines share the configuration, each at the grain
its questions need: `ConfigLifecycle` takes a lifecycle call apart into its
critical sections; `RequestPath` and `ProviderEditor` let whole configurations
be applied between any two steps of a request or of work on a page.

### StreamDelivery, ExecuteStream

`ExecuteStream` is one `executor.execute_stream` call. `hpc` is where the
handler (`handleExecutorExecuteStream`) stands, `ppc` where
`pumpExecutorStreamToBridge` stands; both move independently once
`OpenSuccess` has started the goroutine. One action is one host call together
with the plugin code up to the next one. `Reject`, `OpenFails`,
`OpenNonSuccess` and `OpenSuccess` are the ways the first half of the handler
ends. `DrainRead`, `DrainFails` and `DrainClose` are
`drainHostHTTPStreamBodyWithReader`; `CollectRead`, `CollectFails` and
`CollectClose` are `executorStreamBatched`; the `Pump...` actions are the loop
of the pump and its exits, and `DeferCloseUpstream`, `DeferCloseBridge` and
`DeferRecover` its deferred calls in the order Go runs them. `PumpPanic` is a
panic of the plugin's own code between two host calls of the loop.

The upstream answer is a sequence of pieces. A read hands out up to `MaxRead`
of them, none included, and completes all but perhaps the last: the parser
still waits for its blank line, which a later read or the flush supplies. How
bytes become events is `SseFraming`'s business. `CloseBridge` is `closeBridge`
with its `sync.Once`. `usage` holds, per usage record, how much of the answer
it was computed from; whether totals were found in it is left out.

`StreamDelivery` is the promise to the client: events one at a time and in
order, one end, nothing behind it, and a complete end only after everything
was delivered. `ImplementsDelivery` is the refinement; under its mapping a
stream whose pump panicked counts as broken whatever the close says.

### SseFraming

`sseStreamParser` and the usage buffer over byte strings of tokens.
`sseEventPayload`, `Drain` and `Feed` follow the code, `UsageLines` is the line
scan of `parseUsageTotalsFromStreamText`. What a stream means is said without
them by a reader that takes it byte by byte and keeps no text (`ReadUpTo`,
`Events`, `UsageCarried`): it has the line and the data of the frame it is in,
and neither searches nor splits nor trims. `Read` cuts the stream anywhere;
`SplitLineEnds` says whether also inside CR LF. `EventsFaithful` measures the
parser against the reader at every moment, `CutsUnseen` against itself: what was
read in pieces against all of it at once. The loops are recursive functions
(`Normalise`, `Drain`, `SplitLines`, `FieldsOf`, `JoinLines`, `CountOf`), so
that they can be reasoned about.

### ConfigLifecycle

One state of what the plugin knows about its configuration and any number of
host threads, each with a program counter `pc` and a `stage` that names the
call it serves. Every critical section of a lock is an action of its own, and
so is each host call: between any two of them other threads may run. The
stages are a lifecycle call (`configurePlugin`, which ends with
`registrationCapabilities`), a save of the editor
(`handleProviderEditorSave`), a model registration (`currentModelResponse`)
and a call that only resolves the provider (executor calls and pages).
`CacheHit`, `CacheMiss`, `ReadYaml` and `StoreSpec` are `resolveProviderSpec`,
`EnsureSkips` to `AuthSaved` are `ensureAuthRecord`.

A configuration is three parts: the plugin's settings as far as they decide
anything here (executor on or off, a model namespace or none), the provider
block that is mirrored (its base URL, `NoUrl` when URL or key is missing, and
whether it is live or switched off in CPA) and the rest of the file.
`NoProvider` stands for a configuration without a matching block, and in the
cache for `found = false`.

### UsageStore

The list of usage records and the file they are kept in. A record is the
number of its observation. `Observe` is `recordUsageObservation` up to the
unlock, the actions of `Save` are `saveUsageState` with `os.WriteFile` taken
apart into the truncation and the write, those of `Load` are
`loadUsageState`. `Overwritten` is what two writes of one file may leave:
both begin at its start, so the longer content shows behind the shorter.
`Exit` ends the process anywhere; `Register` starts the next one.

### ProviderMatching, Routing, Identity

Operators that follow the code function by function: the selectors and the
glob matcher, scans and the records they leave, the block that is mirrored
(`ProviderMatching`); route, URL, signed path, model and effort (`Routing`);
principal, secret and signed message (`Identity`). A text is the sequence of
the pieces that matter, a slash one of them, so that prefixes, suffixes and
globs are what they are in the code without spelling names out. Hashes are
injective: a principal is its seed, a signature its message and secret. Where
the code walks a map (`firstHeaderValue`, the records of a scan) the operator
is the set of what it may find, or a choice.

### RequestPath

One request: `Arrive`, the interceptor (`Intercept` reads the settings,
`Match` completes the candidate and derives the identity, `Sign` resolves the
provider for the path), then the executor (`Resolve`, `Normalize`, `Identify`,
`Build`, `CallFails`, `Respond`), each a step because each reads the
configuration again. `Reconfigure` applies any configuration between any two
of them; `ScanStores` and `OtherResolves` leave the records and the cached
provider of any configuration, since scans and resolutions of other calls may
have read an older one. What CPA does is external: it routes model and body
with or without the prefix of the auth it selected (`Routed`) and puts the
interceptor's headers over the client's (`Overlaid`). All three operations are
one request with `op`; a stream goes on in `ExecuteStream`.

### PluginConfig, ModelCatalog, ProviderEditor

`PluginConfig` is the plugin's section of the configuration (where it is
found, how it goes over the defaults), `ModelCatalog` what is known of a model
in blocks, in answers of `/models` and in the cache file. `ProviderEditor` is
the page (`page`), what it was loaded from (`page.orig`; `origin` and the
field `of` of a key row are for the properties) and `Save`, `TestedKeys`,
`Fetch`. The steps of a save are in `ConfigLifecycle` and are one here, but for
`resolveProviderSpec`, on which tests and loads depend: it looks into the cache,
reads the YAML and stores under separate locks, so a caller (`Resolves`) either
finds or stores the provider at once, or holds what it read in `reading` and
stores it whenever it goes on (`Stores`), over whatever was applied and cached
by then. The cache file is written in two steps (`CatalogOpen`, `CatalogWrite`)
by several fetchers.

### UsageReport

`UsageStore` with records that are read out of answers
(`parseUsageObservation`) and pages that are made of them
(`usageDashboardData`). A JSON value is an object with numbers, a flag and
nested values, or a list; the values of an answer are numbered, each after
those it holds, so that `usageTotalsFromValue` is a function over the numbers.
The loops that add up are `Sum`, `sort.Slice` is `Sorted`: some order of all
items in which none stands in front of one it belongs behind. Time is in hours,
with months of thirty days. The pages over a list are constants, so the
invariants only ask whether the list in memory is one that a page shows wrongly.

## 3. Runs

| Run | Expect | What it asks |
|---|---|---|
| `execute_stream` | pass | every interleaving, cut and failure of one streamed call: the safety properties, release of every stream, refinement of `StreamDelivery` |
| `pump_panic` | violation | is a panic reported to the client? |
| `sse_framing` | pass | does the parser find the stream's events however reads cut it? |
| `sse_crlf` | violation | ... also inside CR LF? |
| `request_path` | pass | does a request go out signed as it is, to its own provider, with the identity and model it came with, whatever the configuration does meanwhile? is it intercepted in the name of the provider it is for, when that is selected by name, URL or discovery? do globs match what they say? |
| `image_effort` | violation | are models for images sent without an effort? |
| `keys_apart` | violation | are clients told apart by their keys when they may not name themselves? |
| `config_lifecycle` | pass | does the remembered auth record equal the host's, and does everything derived follow the file in the end, when lifecycle calls, saves, executor calls and registrations overlap? |
| `provider_editor` | pass | does a save lay the page over the block it belongs to, and keep keys and what is not shown? does a test try what a save would write? is the cache file one answer or nothing? |
| `editor_keys` | violation | does a row that is left empty keep its key? |
| `usage_store` | pass | order, bound and durability of records under overlapping saves, reloads and crashes; the tokens they carry and the pages made of them |
| `usage_lost` | violation | does a reload keep the records it finds? |

### Bounds

* `execute_stream`: four events, reads of none to three, a body limit of two.
  Both sides of every comparison occur: reads shorter and longer than what is
  left, several events of one read of which a later one is refused, a body
  below, at and above the limit, an end with and without a waiting event. The
  theorems cover every answer and limit.
* `sse_framing`: all streams of two frames out of six kinds (plain, two data
  lines, event line, comment with empty data, `[DONE]`, a usage object), with
  both line ends, the last frame with or without its blank line, in at most
  three non-empty reads. Two cuts can fall on both sides of one line end or
  one frame; the parser has no memory but `pending`. `sse_crlf` uses two-event
  streams.
* `config_lifecycle`: two threads, one that brings lifecycle calls and one that
  brings saves, executor calls and registrations, and two configurations that
  differ in settings and provider, one served and one refused by the collision
  guard. Each lock is contended, and each step of a lifecycle call meets every
  state of the others, a save among them, which applies a configuration in the
  same steps. Two lifecycle calls do not overlap each other here (a liveness
  check with two such threads that also save and resolve does not finish), so
  the premise `OneAtATime` of `EventuallyDeclared` always holds in this run;
  `AuthRecordHonestHolds` covers any threads bringing any calls.
* `request_path`: five configurations that disagree on whatever a request
  reads twice (two blocks, the prefix of one inside the prefix of the other,
  one with two keys; all selectors, none, or any of a URL, the second key of a
  block and a model pattern, so that one block is matched by its URL and another
  by a key that only one of its two records has; a namespace of their own; no
  keys and no identity; the plugin off) and four requests that between them take
  every route, operation, kind of model (prefixed twice, with an effort, for
  images, bare) and kind of client. Configurations change without limit. One
  request is under way at a time: requests share nothing but what the
  configuration actions already change. `keys_apart` has one configuration,
  `image_effort` the four without selectors of single kinds.
* `provider_editor`: three configurations (the provider as it is, with three
  keys; moved to another URL, without models and with one key; gone, with no file
  to write to), up to four key rows, one change made by hand to the page, and one
  call that holds what it read. Saves, loads, resolutions and reconfigurations
  are not bounded, so the provider in the cache may be as old as can be, and a
  page may be loaded from it. The change stands at any place: with a row above
  and one below, before and after other saves. A fetch takes the place of the
  change: one fetcher with three answers, whose write is seen by everybody
  between truncation and end, and whose models are picked, saved and cached.
  Fetches that overlap are not in the run (with a provider that is still to be
  stored they are too many states); `CatalogWholeHolds` covers any number of
  them. `editor_keys` has two changes and no fetcher.
* `usage_store`: three kept records, four observations, three threads: the
  trim drops records, two saves and a reload overlap. The records are of five
  answers, each in another shape and one without usage, by a clock that is set
  back once, a day, a week and a year apart; pages for every period, bucket
  and source at three times. Its threads are symmetric; no other run uses
  symmetry.

Deadlock is checked in every run. A finished stream stutters (`Terminating`,
and the last disjunct of `SseFraming!Next`).

### Fairness

* Handler and pump, and every call once it has begun, keep running: the Go
  runtime schedules every goroutine, and a host call returns.
* Reads make progress again and again (strong fairness on reads that hand out
  something or report the end): the upstream caps every stream in time
  (`.docs/streaming-and-errors.md`, "Timeout chain"). The plugin has no timeout
  of its own, and without that cap the pump really never ends.
* A waiter gets a mutex that is free again and again (`sync.Mutex` switches to
  starvation mode after a millisecond).
* CPA reconfigures again and again ("many times per minute",
  `dispatch.go:17-20`). Nothing else brings a derived value back in line.
* The host saves an auth record it is asked to save again and again.

Nothing is assumed of edits, saves of the editor, executor calls, failures or
panics: they happen or not.

## 4. Where code and description differ

With a run each:

1. `pump_panic`: `defer closeBridge("")` (`executor.go:1128`) was deferred
   after the recovery handler and runs before it. After a panic the client is
   told of a clean end; "plugin stream panic" never reaches the host.
2. `sse_crlf`: CR LF is replaced within one read (`executor.go:443`). When a
   read ends between the two, the blank line is not seen and two events arrive
   as one.
3. `keys_apart`: with explicit identity off, the executor derives the principal
   anew without the client's token (`executor.go:235`); clients that differ in
   their keys only become one.
4. `editor_keys`: a blank key row is given the key at its own place in the list
   (`management.go:1625`), but removing a row moves the others up.
5. `usage_lost`: a reconfiguration reads the usage file and puts it over the
   list; observations in between are gone (`dispatch.go:171`, `usage.go:115`).
6. `image_effort`: the image lane is judged by the name with the effort suffix
   still on (`executor.go:737`, `executor.go:778`). A model that only its block
   declares to be for images, asked for as `draw(high)`, is not recognised: the
   suffix is cut and the effort put into the body, although `README.md:148-150`
   and `.docs/provider-model-routing.md:127-132` say both are left alone.
   `EffortRespected` therefore says nothing of images asked for with a suffix.

Met while modelling, without a run of their own:

* Streams: a line feed is added to the usage buffer after every read
  (`executor.go:1152`), which tears apart a usage object that two reads share;
  `UsageAccounted` therefore asks for exact counts only when reads end at line
  ends. A stream whose opening answer does not decode is left open.
* Stale provider: a call that read the old YAML may store its provider after a
  reconfiguration or a save dropped the cache (`models.go:20-33`); requests, the
  page and tests then use its URL and keys until the cache is dropped again,
  although that is done because the record "can change when CPA config changes"
  (`dispatch.go:173`). In the models this is `OtherResolves`, `StoreSpec` and
  `Stores`. `EventuallySettled` says that it ends, `KeyStaysWithProvider` that a
  key meanwhile goes where it belongs; `TestsWhatIsSaved` has the premise that it
  is not so.
* Configuration: while lifecycle calls overlap, one may look into
  the cache in the window in which another has dropped it and declare no
  executor (`dispatch.go:352`); hence the premise of `EventuallyDeclared`. The
  editor patches the YAML in memory and writes all of it over the file
  (`management.go:1071-1079`). A spec completed from the model cache has no
  base URL and so is never found (`providerspec.go:257`).
* Matching: a scan shows the selectors a block with its prefix in the place of
  the format (`providers.go:731-735`), and so matches one by a name selector
  that equals the prefix; a live request has no prefix among its names
  (`config.go:686`) and goes out without an identity, although the comment there
  says an operator can match on it. A scan knows no models, so a selector for models never matches a
  block and with "all" keeps every block from matching. Of several keys of one
  prefix the record that comes first changes from scan to scan, and with it
  whether a selector for one of the keys matches a request.
  `MatchedIsIntercepted` is therefore about providers that their name, their URL
  or discovery is enough to match. Header and body may lose different prefixes,
  since the namespace is read once more for the body (`executor.go:611`);
  `ModelAgrees` allows that. Of `X-AGY-Session-ID` and `X-Session-ID`, and of
  `X-AGY-Client-App` and `X-AGY-Device`, the one the map walk meets first
  counts; `IdentityCarried` leaves out clients that send a device.
* Routing: executor and interceptor sign the same path only if the host passes
  `request_path` on: the interceptor has no `alt` and does not strip a
  namespace override (`executor.go:602`). The body's prefix is stripped twice.
  `count_tokens` takes any status for success. A provider's own headers are
  not sent. The test of the editor signs the route, not the path on the wire
  (`management.go:1388`).
* Editor: a save keeps an image flag, thinking and a list of models that the page
  has unticked, cleared or emptied (`management.go:1643`,
  `management.go:1832-1850`). Thinking is shown by its levels and written back
  without its budget even if nobody touched it (`management.go:1845-1849`), and
  thinking with a budget only is shown as "none", and saved so. `SavedOverBlock`
  says exactly what becomes of page and block; `RoundTrip` leaves thinking out.
* Editor: fields of models and of entries of `api-key-entries` that the plugin
  does not know are dropped by a save (`management.go:1637`,
  `management.go:1821`); the model has no such fields. The first save creates
  the section that is looked for first, which then masks one elsewhere. Rows
  left blank above others make a test leave keys out, and lose a key on a second
  save without a reload; so does one key that is typed into two rows, since a
  test completes the rows twice (`management.go:1253` and `management.go:1108`),
  the second time by the keys of the first, which have moved up.
  `TestsWhatIsSaved` says under which rows test and save agree, as long as the
  provider that resolves has the keys of the block; and that for any rows
  nothing is tested that would not be saved. Removing every row keeps every key.
  The source shown for the secret is the one that signs, and a save writes it
  over the one configured.
* Catalogue: a fetch does not drop the cached provider; its models are served
  after the next reconfiguration. A reader between truncation and write, or
  after two overlapping writes, finds no models, and that is then cached.
* Usage store: `usageDataPath` returns its first candidate whether or not that is
  a directory (`usage.go:90-100`), so neither `CPA_CONFIG_PATH` nor the working
  directory its comment speaks of is ever taken; the model has one file. A crash
  between the truncation and the write of a later save loses what was saved
  before. In the model an observation is made by a running process only; a pump
  may in fact record after `cliproxyPluginShutdown`.
* Usage page: labels of hours and minutes have no year, so records a year
  apart share a bucket. Answers with input and output tokens only leave the
  prompt and completion columns of groups at zero. Of two cache-hit headers
  the one walked last counts. Sources are offered from the records already
  filtered.

## 5. Proofs

All proofs are for every value of the constants under the named assumptions.

`ExecuteStreamProofs` (`StreamAssumption`: the answer is a sequence of pieces,
a read may hold at least one, the limit is a natural number). None of the
properties is inductive. `IInv` adds to the types
* `ControlInv`: before the stream is open nothing has happened, and without a
  pump nothing was parsed or emitted;
* `BatchInv`: delivered and waiting events are adjacent stretches of the
  answer, and nothing waits while the pump reads: this is why a refused event
  or an early close cannot leave a gap;
* `ReadInv`: the end flag comes with the end of the answer, and flushing leaves
  nothing unparsed: this is why a clean close means everything was delivered;
* `CloseInv`: how far the pump is in its exit tells whether it failed and
  whether the bridge is closed, which makes the `sync.Once` decide only after a
  panic;
* `UpstreamInv`: each of the three closers of the host stream holds it open
  until its turn.

There is one lemma per part of `IInv`, with one step per action. From it follow
`TypeCorrect`, `OrderedDeliveryHolds`, `ClosedOnceHolds`, `HonestEndHolds`,
`NoEmitAfterCloseHolds` and `RefinesDelivery`, the safety part of the
refinement.

Two more invariants are inductive
together with `IInv`: `AnswerInv` (the body kept so far is an initial
part of the answer of the length the reads and the limit allow, and where the
handler stands tells whether it has closed the stream) and `UsageInv` (there is
a usage record exactly from the step that makes it on, and it covers what was
read). From these follow `ErrorBodyBoundedHolds`, `AnswerAfterReleaseHolds` and
`UsageSettledAtEndHolds`: all safety properties of the run are proved.

`ConfigLifecycleProofs` (`ConfigAssumption`): `IInv` adds to the types what
each call has at hand (`LocalInv`) and that the mutex of the auth record is
held exactly by the call that saves, that outside a save the remembered record
is the host's or none, and that a call about to remember a record has just
written that one (`LockInv`). `TypeCorrect` and `AuthRecordHonestHolds` follow
for any number of threads and configurations.

`SseFramingProofs` (`FramingAssumption`: streams are strings of the tokens). As
long as no read ends inside CR LF, the parser does not notice the cuts
(`CutsUnseenHolds`); without that hypothesis it is false, which `sse_crlf`
shows. Two strings of which the first does not end with "cr" can be normalised
one by one (`NormaliseJoins`, byte by byte), and draining a string and then its
rest with more bytes behind is draining it all (`DrainJoins`): a first blank
line stays the first, and what is in front of it the same, whatever follows
(`FirstBlockStays`). That `Drain` and `Normalise` are the functions their
equations describe is proved first (`DrainIs`, `KeptRuns`; for the other loops
`LoopRuns`, once, of any loop). The invariant is `CutsUnseen` and that the last
byte read is no "cr".

That what is emitted is what the stream means (`EventsFaithfulHolds`) needs the
parser and the reader side by side on the bytes read so far. They agree
(`Agrees`) if the events drained are the reader's, the data fields of what is
left over are the reader's data, and the last line left over is the reader's
line; `AgreesOn` takes them over one more byte, which completes a frame, ends a
line or neither, and `FlushReads` over the end. The hypothesis is that the
streams are `Plain` once CR LF is LF and the last line has its end: white space
only singly and between other bytes, or behind the name of a field without a
value. It is not idle: the parser trims lines and the reader does not, so they
differ on `data: x ` or on an indented field. A CR that is no part of a line end
is text to the parser and nothing to the reader.

`BatchedReplyHolds` needs no hypothesis: as long as reads end at frame ends, a
reader of the buffer and one of the stream have come to the same events with
nothing half read (`BatchedInvariant`), and go on alike over the same bytes
(`ReadOnAlike`); a line feed more is then an empty line without data.

`UsageAccountedHolds` holds wherever reads end. Of any string at all, one more
byte adds at most one object, and only if it is the end of one (`NoMoreThan`);
of a `Whole` stream every such byte adds one (`TalliedOn`), so the buffer is
never ahead, and `WholeCounts` makes the count that of the reader. With reads at
line ends buffer and stream have the same last line and so the same count
(`Level`). `Whole` says that usage objects are each the value of a data line,
and a "cr" stands in front of "lf" only. Without it the claim is false: of
`data: x {..}` a read may begin at the brace, and the rest then counts. That the
streams of the runs are `Plain` and `Whole` is checked with them
(`StreamsArePlain`, `StreamsAreWhole` in `MCSseFraming`).

`UsageStoreProofs` (`UsageAssumption`: bounds are natural numbers, and a torn
file is no list). `TypeCorrect` and `OrderKept` are inductive as they stand:
appending the newest, trimming at the front and reading back keep a list in
order. `SavedStays` needs `SavingInv` (a call that saves undisturbed has at
hand what memory holds) and `SavedInv` (once it is saved, every call that reads
has at hand what the file holds).

`RequestPathProofs` (`RequestAssumption`: blocks and keys are lists, a base URL
is a host and a path, headers have every name that is looked for). `IInv` says
that the executor works for one configured block from the moment it resolved it
(`SpecInv`), has the client's body unless that is JSON (`CallInv`), that what
was sent is at hand only while the answer is awaited (`SentInv`), and that what
the interceptor answers with was derived from the request and settings at hand
and is what the executor's headers carry (`IdentityInv`). `MirrorsABlock` makes
the first of them inductive: whatever configuration is read, and whenever, what
resolves is a block of it. With it `KeyStaysHolds`, `SignatureHolds`,
`RouteFollowsHolds`, `IdentityCarriedHolds` and `IdentitiesApartHolds` follow
for any number of configurations, applied and scanned at any time, and for any
requests.

`RequestModelProofs` goes on from it. A name that is cut at prefixes which end
with a slash, in whatever order and by whatever configurations, is cut at one
place (`CutOfCut`), and of two such cuts one ends with the other (`CutsAgree`):
`ModelInv` says that model and body are such cuts from the resolution to what
is sent, and which effort goes with them. `ModelAgreesHolds` and
`EffortRespectedHolds` follow, the latter with its three parts: the body's own
effort, that of a suffix for all but images, and none for images that were named
without a suffix. `TypeCorrect` is inductive as it stands.
`GlobFaithfulHolds` is about the matcher alone: its table is a recursive
function over pairs, and the proof goes through the table cell by cell in the
order it is filled, each cell saying whether that much of the text can be
divided among that much of the pattern.

`ProviderEditorProofs` (`EditorAssumption`: blocks and keys are lists, and a
declaration of thinking is not taken for none). `IInv` says that blocks, keys
and key rows are lists, that a block has only keys that were configured or typed
in at some time and a row only what was typed (`ConfigOK`, `PageOK`), that what
is cached, and what a call has read and is still to store, is the provider of
*some* configuration of that kind, but for models it may have from the cache
file (`Mirrored`; not of the one there is, see section 4), that the cache file
is what it was at first, broken, or one answer (`CatalogInv`), and that a
fetcher writes one answer (`WritingInv`). The loop of
`uniqueStrings` is reasoned about turn by turn (`LoopRuns`): it yields nothing
but values that are no blanks (`UniqueFromValues`), keeps all of those
(`UniqueKeepsAll`), and distinct values that stand in front as they are
(`UniqueFromDistinct`). `CatalogWholeHolds` needs besides that an answer is read
back as it was written (`AnswerIsRead`); `KeysSurviveHolds` that a save hits a
block there is (`HitIsBlock`) and what its rows say (`RowValuesAre`), and holds
however old the page and the cached provider are. `TestsWhatIsSavedHolds` has the
hypothesis of its property, that the provider that resolves has the keys of the
block: rows completed by keys of their own name no key that the first completion
did not (`CompletedNamesNoMore`), and tidy rows the same ones again
(`CompletedTwice`).

`SavedOverBlockHolds` has two hypotheses. `NoneApart` says that the value for
nothing is neither a declaration, a model, a list of models nor a section.
`NamesApart` is about what comes from outside: every model of a configured
block, of the first cache file and of an answer is called something, no two of
one list go by the same (their name, or their alias when they have no name), and
two that share a name or an alias go by the same. The code needs it: a row is
completed by whichever model has the row's id as its name or alias, and a row
known by its alias alone would be renamed by another model with that alias. TLC
checks that the configurations of `provider_editor` meet it. `ModelsStayApart`
shows that it is then so of every block, page and provider there ever is, cached
or still to be stored (`ModelsInv`), since what is written for a row goes by
what the row goes by (`WrittenAsShown`). The settings follow from the section
the editor writes being the first one that is looked for (`FirstPlace`,
`SavedSettings`). Both directions are proved: what page and block say goes in,
and nothing else.

`UsageReportProofs` (`UsageAssumption`; `AnswersAssumption`: times and counts
are natural numbers and no value holds itself; `ReportAssumption`: there are as
many answers with usage as observations). What is read out of an answer is
total counts and a flag, whatever is nested in it: value by value, since each
depends on those it holds only (`TurnLocal`, `ValuesAreTotals`), and so is every
record (`ObservationsSound`). Parts that share nothing and leave nothing out
have together the sum of the whole (`PartsAddUp`, by adding one record after
the other to both sides: `SumRises`). Any finite set with an order that does
not go round can be sorted (`OrderExists`), so the items of a page are all
there, each once (`OrderOnce`), by time (`BucketsAre`) or by tokens and
requests (`GroupsAre`). With it every page adds up (`PageAddsUp`). Buckets are
in order of time (`PageInTime`) because the place of a bucket is that of one of
its records, and two records of one year with the same label are of the same
day, week or month, or at the same time (`LabelsInTime`). That the records in
memory are a list of the kind the pages are made for is `TypeCorrect` and
`OrderKept` of `UsageStoreProofs`. `TotalsAddUpHolds` and `BucketsInTimeHolds`
hold for any answers, questions and times, where the run has five answers.

`TokensAsCarriedHolds` is under the hypothesis that every answer is `Orderly`,
which is about answers and not about what is read out of them: no value is in
two places (JSON is a tree); usage is said once, in the body, in lines or in
the headers, and by an object in itself or under one key of those the code
follows (`SaidOnce`); each object has one set of names, or both with the same
numbers, and its total is the sum or absent (`ByOneName`); and the answer says
what its objects and headers carry together (`Carried`). The assumption
`AnswersAreOrderly` of `MCUsageStore` has TLC check that the answers of the run
are. Without it the code's choices show: tokens in the headers are dropped
beside a body that has some, an object within one with tokens is not looked at,
and `prompt_tokens` beside `output_tokens` without a total has the prompt alone
as its total. The proof is by conservation (`Conserved`). A value is worth what
it carries itself and what those it holds are worth (`TurnFlows`: a list adds
them up, and of an object all but one are worth nothing). As nothing is held
twice, what is not held, which is the body and the lines as far as they have
usage, is worth what all values carry (`RootsHaveAll`), and one of body, lines
and headers has all of it (`ParsedTells`).

The library's induction theorems cannot be instantiated here, so these proofs
take the place of induction by the least counterexample: a set of numbers that
has 0 and with each number the next has all (`AllUpTo`), and likewise a set of
strings that has the empty one and with each string those one byte longer
(`AllStrings`).

Only model-checked:
* everything temporal beyond `[]` (`EveryStreamReleased`, the fairness of
  `StreamDelivery`, `EventuallySettled`, `EventuallyDeclared`), since the
  prover has neither fairness with ENABLED nor induction over data;
* of `RequestPath`, `MatchedIsIntercepted`: it needs that blocks have names and
  that no request is for the native format, which may be excluded from discovery;
* of `ProviderEditor`, `RoundTrip` and `SaveHitsItsBlock`. They hold of the
  configurations of the run and not of all: two blocks may be told apart by
  nothing the page sends back, a new name may be another block's, and a
  provider may be matched by the end of a URL that a save writes without its
  slash. That names and URLs are apart is not kept by the steps either: two
  providers may be given the new name one after the other.

## 6. Left out, and why

* A panic while usage is recorded on the way out of the pump, and panics in
  handlers (which are the host's business).
* `json.Marshal` failures of strings and byte slices, which cannot happen.
* `host.auth.save` that fails leaves the host's record as it was; nobody but
  the plugin writes the record.
* The write of the config file is one step. A crash in the middle of it, and
  a reader that sees it half written, are not modelled; in `UsageStore`, where
  the file is written all the time, they are, and in `ProviderEditor` for the
  model cache.
* Case, surrounding spaces, the spelling of numbers, and the alternative names
  of configuration keys and metadata fields: the helpers that read them
  (`mapValueByNormalizedKey`, `stringValue`, `boolValue`) have no state.
* Auth files of the host (`discoverRuntimeAuths`): they are matched for the
  diagnostics and leave no record.
* Priority, cooling flag and custom headers of a block, which the editor copies
  and the executor does not use.
* The model a test picks and the request it sends: it changes nothing.
* The dashboard's events and counters (an append and a trim under one lock),
  HTML and JSON pages beyond the numbers of the usage page, the C ABI,
  packaging.
* The orphan of a `do_stream` whose answer cannot be used: the model reaches
  it (`upstream = "orphan"`), and no property of the plugin can rule it out.

## 7. Plan

Done: the modules of section 2 with their runs, and the proofs of section 5.
What is left, the most useful first:

1. `RoundTrip` and `SaveHitsItsBlock` of `ProviderEditor`, from assumptions on
   configurations that tell blocks apart and keep a saved provider matched.
2. `MatchedIsIntercepted` of `RequestPath`, for blocks with names and requests
   that are not for the native format.
3. The runtime auths of a scan and the test request of the editor, should they
   come to change state.
