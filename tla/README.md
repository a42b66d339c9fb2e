# PII Security Proxy: a TLA+ model

The program is a proxy between consumers and a language model. `POST /process`
receives a text and a `payload_id`; the first time it answers the text with
personal data masked and keeps what is needed to restore it; when the mask is
sent back under the same id it answers the original. All state that matters is
the mapping kept in between, in a store shared by the threads of one process
(in memory) or by several processes (Redis).

This project models that core: the two stores with their locks, transactions,
expiry and faults, the service on top of them with concurrent requests, and the
contract clients rely on; the way from a text to its mask, from the entities
the detectors found to the characters of the masked text and, through a language
model, back; the way of a request through rate limiter, middleware, routes and
error handlers; and the load runner that decides whether a build is fast and
correct enough. TLC checks small instances; for every instance TLAPS proves the
stores' invariants, that the service on each store keeps the contract, that masking
replaces what it should and nothing else, the accounting of requests and the verdict of
the load runner.

## Inventory

| Component | Code | State | Operations | Hard behaviour |
|---|---|---|---|---|
| Process service | `app/processing/process_service.py` | none of its own; a request's local `prepared` | `process`: lookup, prepare, `transition` with callback `_transition`, outcome | decisions taken from a lookup outside the transition; a callback that may run several times and prepares nondeterministic masks |
| In-memory store | `app/restoration/memory.py` | ordered dictionary of (expiry, encrypted state), one data lock, 256 stripe locks, the clock | `get`, `save`, `delete`, `transition`, `_evict_expired_locked` | `transition` is three sections with the lock released in between; expiry at any moment; capacity |
| Redis store | `app/restoration/redis_store.py` | the server's keyspace; per call the attempt and the WATCH | `get`, `save`, `delete`, `transition` | optimistic transactions, bounded retries, lost acknowledgements, dead workers |
| State codec | `app/restoration/models.py` | - | `to_json`, `from_json` | records of an older release |
| Composition root | `app/api/dependencies.py` | `lru_cache` of each factory | `get_*` | first requests resolve the factories in several threads |
| HTTP pipeline | `app/main.py`, `app/api/*` | request id context, in-flight gauge | middlewares, handlers, error handlers | order of the middlewares, every response path counted once |
| Rate limiter | `app/core/ratelimit.py` | a deque of hit times per key | `allow` | window boundary |
| Detection | `app/detection/*` | - | detectors, `resolve_spans`, validators | overlaps in chains, a detector that fails |
| Masking | `app/masking/*` | - | `mask`, `_select_spans`, context rules, strategies | overlaps, offsets, random tokens |
| Secure LLM pipeline | `app/processing/secure_llm_pipeline.py` | - | `run` | sequential restoration |
| Policies | `app/policies/*` | policies loaded once | `get_policy` | a restart with another policy over states kept in Redis |
| Metrics, logging | `app/observability/*` | counters | `record_*`, `track_inflight` | counts on error paths |
| Load runner | `scripts/run_performance.py`, `tests/performance/locustfile.py` | the files of each step's directory, lists shared with three sampling threads, the counters of the users | reset, launch, wait, join, reduce, judge, report; the listeners at the end of a test | threads that outlive their join, a process that dies between two files, files of an earlier run |
| Other tools | `scripts/`, `benchmarks/` | - | packaging, scoring | pure I/O |

Requests run in the threads of FastAPI's pool (`process` is a plain `def`), so
every component below the route is called concurrently. The service calls the
store twice: `get` to decide whether to prepare, then `transition` with a
callback that the store runs between its read and its write.

What makes each component correct:

- store: the read-modify-write of `transition` is atomic per key; no live
  mapping is given up; capacity and expiry order hold; a lock is released on
  every path;
- service: from one mapping, clients see one mask for one original, and that
  original back; a consumer sees nothing of a state that is not its own;
  demasking only where the policy allows it; every request is answered;
- pipeline: every response carries its request's id and is counted once; the
  limiter lets through what it should and refuses nothing else;
- detection and masking: every detected span of an enabled type is masked, its
  mask shows no more than the strategy says, and it can be restored;
- load runner: a step passes only on what its own Locust did and wrote; what is
  reported does not change afterwards; the script ends.

`PROJECT.json` lists under `hazards` where each of these can go wrong.

## Modules

| Module | Models |
|---|---|
| `RestorationBase` | the vocabulary of the `RestorationStore` interface: keys, states, None |
| `InMemoryStore` | `InMemoryRestorationStore` |
| `RedisStore` | `RedisRestorationStore` and the server as it uses it |
| `ProcessService` | the decisions of `ProcessService` and the state codec, as operators |
| `RestorationLifecycle` | abstract specification: what `/process` promises for each key |
| `ProcessMemory` | composition: requests on `InMemoryStore`, shown to implement `RestorationLifecycle` |
| `ProcessRedis` | composition: requests on `RedisStore`, shown to implement `RestorationLifecycle` |
| `Wiring` | the cached factories of the composition root |
| `SpanResolution` | entities and the rules that choose between overlapping ones, as operators |
| `MaskPipeline` | `DetectionEngine.detect`, the policy's type filter and `MaskingEngine.mask` |
| `RateLimiter` | `SlidingWindowRateLimiter` |
| `HttpPipeline` | composition: a request through the limiter, the observing middleware, the routes and the error handlers, with the metrics |
| `Characters` | texts as sequences of characters, Python's slices |
| `MaskStrategies` | `masking/strategies/impl.py`, as operators on texts |
| `RegexDetector` | what `RegexDetector.detect` makes of a match, as operators on texts |
| `SecureLLM` | composition: `SecureLLMPipeline.run` over `MaskPipeline`, `MaskStrategies` and `RegexDetector` |
| `LoadReport` | the counters of a load test and `build_result`, as operators |
| `LoadRun` | `run_performance.py`: runner, sampling threads, Locust and the files between them |
| `MC*` | the instances TLC checks |
| `*_proofs` | the theorems |

Definitions named `X_Something` marked "Mutant" are faulty variants of the `X`
that follows them. They are in no specification; each shows that the property
named with it in `PROJECT.json` would notice the fault.

### InMemoryStore

`data` is `_data` front first, a sequence of (key, expiry, state). Code under
`_lock` is one action. Where it reads the clock more than once, the second
reading is a choice of a later time, so an entry can expire between the two.
`transition` is `TransitionAcquire` (the stripe), `TransitionRead`,
`TransitionCallback` or `TransitionRaise` (the callback runs with no data lock),
then `TransitionWrite`, `TransitionDelete` or `TransitionOverload`; every way
out releases the stripe (`Leave`). `save` and `delete` take only the data lock.
`StoreSpec` has the whole interface, `LifecycleSpec` only the calls that
`ProcessService` makes. A state is stored as it is: Fernet and JSON give back
what this process wrote. Two reads of one dictionary under one lock are atomic
as in the code.

### RedisStore

`db` is the keyspace. A key may expire at any step after it was written: no
order of events depends on how long the TTL is, so there is no clock. `watch[c]`
says whether the caller's EXEC would succeed; any SET, effective DEL or expiry of
the key makes it dirty (`Flag`). `transition` is `TransitionStart`, then for each
attempt `Watch`, `Read`, `Callback` or `CallbackRaise`, and `ExecCommit` or
`ExecAbort`; `Exhausted` is the 429 after the last attempt. The backoff is the
time other steps take in between. `StoreSpec` has the whole interface, with `save` and
`delete` of any caller at any time; `ProcessRedis` takes the calls `ProcessService` makes.

Faults: the client library raises `WatchError` when the connection is lost while
a key is watched, so the store's handler retries (`ConnectionLost`); before WATCH
has succeeded the error leaves `transition` (`WatchLost`); a worker may die
anywhere (`Crash`). A transaction already sent becomes the caller's `orphan`, which
the server executes, if its WATCH still allows, or drops, at any later step. The
model keeps one orphan for each caller: with a bound of one fault per run that is
all there can be; for more faults, a second transaction in flight of the same
caller counts as dropped.

### ProcessService, ProcessMemory, ProcessRedis

`Transition` is the set of states the callback may return, empty when it raises;
`TransitionError` is then the status code. Detection and masking are
`MaskResults[c][t]`, the masks that may come out for a text under a consumer's
policy: several, because `TOKENIZE` draws random tokens and an LLM detector may
fail. `StateKey` is the pair itself, since the hash of the two with a separator
is injective up to collisions; blake2b and sha256 are taken to be collision free.

A worker's request is `Receive`, `RefuseEmpty` or `Lookup`, `Prepare` (or
`PrepareRaises`), `EnterTransition`, the steps of the store with the service's
callback in it, and one of the ways to end. `answers[k]` is a history variable:
the 200 answers given from the latest mapping of key `k`. `prepares[w]` counts
how often the request has run detection and masking. Answering is part of the
write step: what a request answers is fixed by it, and nothing after it fails.

The empty payload is refused before the store is reached; `ProcessMemory` has it,
`ProcessRedis` leaves it out.

`demasking` in `ProcessRedis` is the policy switch as the running workers loaded it.
`Redeploy` is the restart after which a changed policy applies (root `README.md:423`):
no request is under way, but the states in Redis and transactions the server has yet
to execute stay. In memory a restart loses all mappings, so `ProcessMemory` has a
constant policy. `DisabledOpensNothing` is what the code does promise then: a mapping
demasked before the switch is still answered (`process_service.py:148-150` does not
ask the policy), one still MASKED is not.

### RestorationLifecycle

Per key no mapping, a MASKED one or a DEMASKED one, and the answers given from
it. Steps: mask, retry, demask, expire, and mask or demask with an answer that
never arrives. The refinement mapping of `ProcessRedis` reads the mapping off
`db` (a record of another owner is no mapping). That of `ProcessMemory` must take
the state a transition has in hand before the entry of the dictionary: an entry
may expire between the read and the write section and be written again, which to
clients is the same mapping.

### Wiring

`lru_cache` looks the result up, runs the factory on a miss without a lock, keeps
the first result and returns to each caller what it computed itself. The model
takes two factories, the store's and the service's, and one action for each
lookup and each construction.

### SpanResolution, MaskPipeline

A text is its length. An entity is a type, a span, a confidence and `matches`, which
says whether its value is the text of its span. Two ways lead to masking: the
pipeline, in which detectors add candidates (`Detect`; one that fails adds none, an
LLM detector may name the empty string), and a direct call of `mask` with any
entities (`Give`), valid or not. The loops of `resolve_spans`, `_select_spans` and
`mask` are taken turn by turn (`ResolveTurn`, `SelectTurn`, `MaskTurn`); the sorts
before them (`Resolve`, `Select`) leave equal keys in the order of discovery, which
may be any. `Mask` picks the policy's context rules and resolves them once, as the
code does before its loop. `pieces` is the masked text: parts of the original,
copied or replaced.

### Characters, MaskStrategies, RegexDetector, SecureLLM

`SecureLLM` gives the text of `MaskPipeline` its characters. `DetectMatch` is a match of
a rule: any span that is `Shaped` as the rule's pattern demands, cleaned as `detect`
does (`Strip`, `CleanIssuer`) and dropped where it does (`Reports`); `MaskPipeline`'s
`Detect` adds what the language model names. One letter stands for each word looked for
in a window: a marker, a bank, a person. The tests on a value alone (check digits,
dates, countries, full addresses, the phrase for a year) are the set `Dismissed`.
`_clean_issuer` takes one fragment off the end and not two, as in the code.

When the pieces are joined, `Generate` applies the policy's strategy (`Replacement`),
sends `MaskedText` and gets back the prompt, the prompt twice or the prompt without one
character; the adapter in the repository is the first of them. `RestoreTurn` is one turn
of the loop over the mappings, with `Replace` being Python's `str.replace`: one pass from
left to right (`Rewrite`) with a single pair. A token is two characters, its type and its
random part, so that an LLM can cut it in half. `secrets.token_hex` does not repeat itself,
so its draws are a one-to-one function of the place where a span begins (`Random`), and no
text holds one of the two halves.

### LoadReport, LoadRun

The script is sequential, but three daemon threads share lists with it and are joined
with time limits, and the files it judges are written by another process. `pc` follows
`main`, `run_step` or `run_organizer_profile`, which differ in the directory, in the
gate on the time measured and in what they start Locust with. A list of samples is kept
as what its reduction reads (sum, length, maximum): `samples` is reduced while its thread
may still append, so each of the four reads is a step (`ReduceProcess`); the Docker and
connection lists are reduced after `FinalizeDocker` and `FinalizeConnections`.

What a Locust process did is the number of its tasks with each outcome (`Works`). The
counters are sums over the tasks whatever the order, so users need not be modelled one
by one; a task stopped with the test between its mask and its demask is the outcome
`cut`. Locust may die at any point, its listeners may fail with the exit code still 0
(`WriteCustomMetrics`, `WriteFinalStats`), and it may stop before the profile's time.

The counters are the users' and the statistics Locust's, which is external. Where a
request has an answer they agree; a request may be lost in three ways. The client raises
(`Raised`): the exception leaves the block of `catch_response` before Locust has reported
the request, and `_post` counts a transport error. The client gives a response of status
0 without headers (`NoStatus`), as `FastHttpUser` does for a refused connection: `_post`
counts it under `http_other` and `functional_errors`, asks for a header, and counts the
`AttributeError` as a transport error as well; it too is never reported. Or Locust has
reported a failure when the client raises (`Torn`, a body that breaks off), which is the
one case the reconciliation at `run_performance.py:1167-1169` counts on. Thus a single
request that was not reported fails its step whatever `--max-error-rate` allows, as the
test at `tests/performance/test_performance_qa.py:457-492` expects of its own numbers, and
nothing else makes the two sides disagree: `MismatchesExplained`.

Latency, rate and peak gates are one Boolean of the statistics (`fast`). A file carries
the number of the step that wrote it, which the code does not see and the properties do.

### RateLimiter, HttpPipeline

`allow` is called by an ASGI middleware on the event loop and awaits nothing, so
reading the clock and deciding are one step (`Allow` or `Deny`); the clock may
advance or stand still between two calls. `granted` is a history variable, the
times of all requests let through; the code keeps only `hits`.

The layers, from outside: the handler of unexpected exceptions, the limiter, the
observing middleware, the handlers of domain errors, the router. A request is
`Refuse`d by the limiter or `Enter`s; it then gets a response (`NoRoute`,
`ValidationFails`, `ServiceReturns`, `Probe`) or raises (`DependencyFails`,
`PolicyRefuses`, `ServiceRaises`). A domain error becomes a response inside the
middleware (`HandleDomainError`), which then `Leave`s with it; any other exception
passes it (`LeaveByException`, only the `finally` clauses) and is answered outside
(`HandleUnexpected`). What the service does is `ProcessMemory` and `ProcessRedis`;
here it returns or raises any of its errors. `rid` is `request.state.request_id`;
the id generated for a request is the request itself, so that two never agree. The
counters are those by path and status, by error type and of operations; labels for
the method, and histograms, are left out. Pages that FastAPI adds by itself
(`/docs`, redirects of slashes) are left out.

## Runs

| Run | Instance | Shows |
|---|---|---|
| `store` | 2 threads, 3 keys on 2 stripes, 2 entries, TTL 2, clock to 4 | types, `OrderMatchesExpiry`, `CapacityRespected`, `EvictionComplete` with all calls interleaved |
| `store_overload` | the same, lifecycle calls only | violation: a new mapping is rejected although an expired one fills the store |
| `memory` | 2 threads, 2 consumers with one id, 3 texts, 3 requests, 1 entry, TTL 1, clock to 2 | `AtomicTransition`, `LiveNeverEvicted`, `RoundTrip`, `PrepareOnce`, `DisabledNeverDemasked`, refinement, `RequestsAnswered` |
| `redis_safe` | 2 workers, 1 key with a record of an older release, 3 texts, 3 requests, 2 attempts, 1 fault, 1 change of the policy | `AtomicTransition`, `AtomicOrphan`, `RoundTrip`, refinement, `LegacyNeverExposed`, `DisabledOpensNothing` under faults |
| `redis_store` | 2 callers, 1 key, 2 values, 2 attempts, 1 fault, any number of plain writes | `TransitionEnds` |
| `redis_prepare` | as `redis_safe`, one policy | violation: detection and masking run twice in one request |
| `wiring` | 2 threads, 2 stores | violation: two handlers work on different stores |
| `secure_llm` | 5 texts of 4 characters, up to 3 entities of 5 types and 2 confidences, 4 rule lists, PARTIAL_MASK and TOKENIZE | `KeptDisjoint`, `LostOnlyToBetter`, `MaskedExactly`, `MatchesSurvive`, `DigitsHidden`, `TokensRestored` |
| `secure_restore` | the same with FULL_MASK | violation: an LLM that echoes does not give the text back |
| `http` | 3 requests of 9 kinds, limit 2 in a window of 2, clock to 3 | `RateBounded`, `RefusedOnlyAtLimit`, `MetricsMatchAnswers`, `AnswersKeepId`, `RetryAfterOn429` |
| `http_ids` | the same | violation: the limiter's 429 has no request id |
| `load_run` | 2 steps in one directory or the organizer profile, old files or none, 2 CPU samples, 3 loads | `GreenIsEarned`, `ReportedSettled`, `CpuReportSane`, `MismatchesExplained`, `RunnerFinishes` |

Why the bounds suffice. The conflicts are between two transitions on one key, a
transition and one other writer, and a transition and expiry: two threads and one
key have them all, and a third key is needed only so that a full store of two has
a newcomer. Three requests are enough for mask, demask and a third party's retry
or rival original in any overlap. TTL 1 with a clock to 2 lets a mapping expire in
each gap of a request and a second mapping be made; the store run goes to 4 with
TTL 2 so that entries of different age coexist. Two attempts have a first, a
second and an exhausted loop. The texts are two originals with the same mask, one
of which may also stay unmasked, and the mask itself, which as a new text is
masked to itself: the cases in which an original, a mask and another request's
mask could be confused. Three entities make a chain in which the outer two do not
overlap, where comparing with the last one only could go wrong; in a text of 4 a
short span can overlap a longer one that begins after it. Of the types two are
preferred to the others, one is not enabled, and one has a context rule. The five
texts hold a number with a separator, an issuer with a fragment of a date, a mail
address with a full stop behind it, and a bank, a marker and a person's word at each
side of a window's edge; their characters differ, so that a value is found where it
was read. As texts have four characters the visible edges are 1 digit and not 2, the
least number of digits 2 and not 4, and the windows 1 and 2 characters and not 40 and
80. The record of an older release may expire at once, so `redis_safe`
has every run that starts with an empty key as well; three requests are enough to mask,
demask and ask again with the switch of the policy in any gap. Two steps with the same target share a directory, which with
files of an earlier run are the two ways to meet stale files; two CPU samples are a
first and one that comes late; `RequiredUsers` is 0, the default, and the gate on
connections 1. One load may pass, in one two requests of two hundred are missing from the
statistics, too few for the limit on errors to notice, and one has wrong and refused answers
and a failure that Locust did report. In `redis_store` a second caller and plain writes
without end can spoil every attempt, so only the count of attempts ends the loop. A
limit of two is the smallest for which some hits of a full window are outdated and
others are not; three requests reach it and one beyond, and a clock to 3 lets the
third come before, at and after the end of the window. The nine kinds of request
reach every route and every way out. Clock, requests and faults are the bounds `MaxTime`,
`MaxRequests`, `MaxFaults`, `MaxRedeploys` and `MaxSamples`; at the end of the requests the system may only
stutter (`Finished`, `AllAnswered`), so deadlock is checked everywhere else.

Fairness. `FairSpec` of `ProcessMemory` asks for weak fairness of each worker's own steps: the
interpreter runs every thread that can run, and a worker that is alive goes on.
Nothing is assumed of requests, expiry, faults or orphans. The locks are not fair
in the code; as requests are finitely many, a thread waiting for a stripe
eventually finds it free for good, and weak fairness is enough. With an endless
stream of requests on one stripe a thread could starve, which the model does not
exclude and the code does not either. `StoreFairSpec` of `RedisStore` asks the same of
a caller inside `transition` and nothing of anyone else: the others may write, or be
silent, for ever. There is no lock to wait for, and the bound on attempts has to end
the call. In `LoadRun` the runner goes on when it can (a
join with a time limit always returns) and Locust takes its next step, as `-t` makes it
stop; the samplers, which call `docker` and `psutil`, may hang for ever.

### Where the code and its documentation disagree

- `store_overload`: `transition` evicts in its read section only. An entry that
  expires while the callback runs still counts at the capacity check of the write
  section, and the request gets 429, against `docs/qa-report.md:17-18`.
- `redis_prepare`: `_transition` keeps what it prepares in its own parameter, so
  the next compare-and-set attempt prepares again, against the comments at
  `process_service.py:77-79` and `:132-133`. It is cost, not corruption:
  `RoundTrip` holds.
- `wiring`: with the in-memory store two first requests arriving together can get
  two stores, against `dependencies.py:3-4`; a mask kept in the one that is
  forgotten cannot be restored.
- `secure_restore`: `SecureLLMPipeline.run` restores by replacing every occurrence of
  a mask. With FULL_MASK, which `configs/consumers/default.yaml` uses, or PARTIAL_MASK,
  values of one shape have one mask and all come back as the first of them, although
  the class says it "restores the response" (`secure_llm_pipeline.py:20`). With tokens
  restoration is right, also when the LLM repeats or drops them: `TokensRestored`.
- `http_ids`: the limiter is added last and therefore runs outermost; its 429 has no
  `X-Request-ID`, against `docs/security.md:55`, and is not in the metrics, against
  the docstring at `main.py:41`. `AnswersKeepId` and `MetricsMatchAnswers` say what
  does hold: of every request the limiter lets through.

Without a run of their own: `_select_spans` sorts by start and then by length, so
length decides only between spans with the same start, while the docstring at
`masking/engine.py:57-59` says that overlapping spans "keep the longest one" (detection
resolves overlaps before, so only direct callers see it); and a demask answered 200
with a wrong text breaks the counters' "MASK == DEMASK + incomplete_roundtrips"
(`locustfile.py:381`), which is why `MismatchesExplained` excepts it;
and `app/masking/README.md:78-82` names a default context rule from PIN to BANK_CARD that
the code no longer has (`masking/engine.py:26`), and the model neither.

## Proofs

`InMemoryStore_proofs`, for every set of threads, keys, values and stripes and
every TTL, capacity and clock bound:

- `StoreInvariance`: the inductive invariant `StoreInv` is `DataInv` (the keys in
  the dictionary are distinct, expiries are in order and none is later than the
  clock plus the TTL, capacity) and `ControlInv` (types, and a caller inside
  `transition` holds the stripe of its key). Order alone is not inductive: that a
  write goes to the end keeps order only because no entry expires later than the
  new one, and moving an entry leaves order intact only because its key is there
  once. The lemmas `PopProps`, `PutProps`, `EvictedProps` and `EvictsProps` say what
  the dictionary operations keep.
- from it `MemoryTypeCorrect`, `MemoryOrderMatchesExpiry`,
  `MemoryCapacityRespected`, and `MemoryEvictionComplete` through the lemma
  `ReadSection`;
- `MemoryTransitionAtomic` and `MemoryLiveNeverEvicted`, for the lifecycle's calls
  (a direct `save` does overwrite what a transition read, so they are false of the
  whole interface). The invariant is `StoreInv` with `AtomicTransition`; the step
  that matters is a write by another caller, excluded because it holds another
  stripe (`StripesExclude`).

`RedisStore_proofs`, for every set of callers, keys, states and records and every
bound on retries and faults, with `save` and `delete` among the steps (which the service
never calls): `RedisTypeCorrect`, `RedisTransitionAtomic` and
`RedisOrphanAtomic`. The
invariant adds that a caller past `Watch` has attempts left (so that the retry
stays in the bound) and takes `AtomicTransition` and `AtomicOrphan` together, since
a transaction becomes an orphan with what its caller had read.

`RestorationLifecycle_proofs`: `LifecycleRoundTrip`. `RoundTrip` needs
`AnswersFromMapping`: the answers given so far are among the two the mapping gives,
and demasking changes neither.

It is proved of any initial mappings, since Redis may hold some before the first
request. Both compositions instantiate this module (`Promise`) to carry the theorem over.

`ProcessMemory_proofs`, for every set of threads, consumers, ids and texts and every
choice of masks: `MemoryServiceTypeCorrect`, `MemoryPrepareOnce`,
`MemoryDisabledNeverDemasked`, `MemoryImplementsLifecycle` and `MemoryRoundTrip`. The
invariant `ServiceInv` is that of the store (`AtomicInv`, proved in
`InMemoryStore_proofs` and kept because every step of the service is a store step or
none), the types, `RequestInv` (what a request has prepared, and what its callback
returned, are things `_prepare_mask` and `_transition` can make of it), and `DataGood` and
`HandGood`: every state, in the dictionary or in the hands of a transition, was made for
the consumer of its key, has the hash of its original and, where demasking is disabled,
is MASKED. Without the hash a retry with another text could be answered; without
`HandGood` a state that expires between read and write and is written again would come
from nowhere. Since `StateOf` prefers the state in hand, the refinement needs
that at most one transition has a key in hand (the stripes) and that it agrees with the
entry if there is one (`OneState`); then every step either keeps or drops mappings
(`DwindleRefines`) or is a commit, which masks, retries or demasks (`CommitRefines`).

`ProcessRedis_proofs`, likewise, for every number of workers, faults and redeployments:
`RedisServiceTypeCorrect`, `RedisLegacyNeverExposed`, `RedisDisabledOpensNothing`,
`RedisImplementsLifecycle` and `RedisRoundTrip`. The invariant has in addition
`OrphanFollows` (a transaction left behind is one its worker might have committed) and
`StoredMade` (a state of the key's own consumer has the hash of its original; records of
others may have any). A commit and the late execution of an orphan write only what
follows from the state they replace, because `StoreInv` says that their read is still
true; so the one is a mask, retry or demask of the lifecycle and the other an unanswered
one. `DisabledOpensNothing` is an action property: only a commit adds an answer
(`OnlyCommitAnswers`), and what it answers is decided by the policy now in force.

`SecureLLM_proofs`, for every text length, every set of texts, matches and findings,
every policy and every number of entities: `PipelineTypeCorrect`, `SpansDisjoint`,
`LosersBeaten`, `MaskExact`, `MatchesAllSurvive`, `TokensComeBack` and `DigitsStayHidden`.
`PipelineInv` follows the phases.
`KeptDisjoint` alone is not inductive, as a turn of `resolve_spans` compares with the last
entity kept and may replace it with a longer one: `ResolveInv` adds that all that is still
to do comes after all that is kept in the order of the sort, and so begins no earlier. An
entity replaced may itself have beaten others; `LostOnlyToBetter` survives because what
replaces it is among the entities still, and preference is judged between entities and not
against what is kept. `LoopInv` says that `mask()` is never past the beginning of the next
span, `PiecesInv` that the pieces are the text up to `cursor`, `ReplacedInv` that of the
spans looked at exactly those allowed are replaced. `DetectInv` is `MatchesSurvive` with
the types of what can be detected: a match shortened by `Strip` and `CleanIssuer` is still a
non-empty part of the text, and an end moved to the left leaves its value equal to its
span.

For the last two `SecureInv` adds what holds of `run()` after the mask. `PairsInv`: copied
and replaced pieces take turns, so the mappings are the pieces with even numbers.
`StageInv`: an answer is there only with a complete mask. `RestoreInv`: when the first k
mappings are done, the answer is what one pass of `Rewrite` with those k pairs makes of the
LLM's output. This is what the loop keeps and the property does not say: a turn rewrites an
answer in which values stand already, and in general a second pass might find its token in
such a value or across the end of one. `RewriteAfter` shows that it cannot: a token begins
with a type and ends with a random part, values hold neither (`TokenPairs`), so what begins
with a random part after a pass did so before it (`FirstOf`). `RewriteToken`,
`RewriteCharacter` and `RewritePlain` say what a pass does to the beginning of a text;
that the recursive definitions of `Rewrite` and `FlattenSeq` have the function they describe
is shown by sets of lengths (`RewritingExists`, `Flattened`, `AllNaturals`). An echo gives
the text back piece by piece (`PieceRestored`, `PromptRestored`), as the pieces are the
text in order (`MaskedExactly`). Of digits, those up to the rank e are among the digits before
the last of them, and those above the rank total - e are the first of them and what follows it:
each set has at most e members (`FirstDigits`, `LastDigits`), and twice the visible edge is no
more than the number of digits from which on a number shows any (`NumericEdges`).

`LoadRun_proofs`, for every list of targets, every set of possible loads and all readings
of the samplers: `LoadTypeCorrect`, `PassIsEarned`, `ReportsSettled`, `CpuAverageSane` and
`MismatchTruthful`. In `LoadInv`, `LocustInv` ties the state of the process to the place of
the runner; `FilesInv` says that from the reset of its directory on, a file of the step is
missing or was written by the step's own Locust with the counters of its load (so the
files judged cannot be old ones); `PassInv` counts the verdicts; `SettledInv` says that a
sampler that outlived its join has no list that is still read; `CpuInv` bounds the sum of the
samples by number and maximum at each of the four reads, each of which may be older than
the next. For `MismatchTruthful` the counters and the statistics are compared for every
number of tasks: both are written as sums over single outcomes (`Counts`); the failures the
users counted then exceed Locust's by the unreported tasks, those with status 0 twice, so they
agree only when there are none, and the totals agree when there are none (`Reconciles`,
`MismatchTells`). They are sums taken with the fold of the community modules, about
which there is no theorem to cite; that such a sum is additive (`TasksAdd`) is
shown with sets in place of predicates: the naturals, or the subsets of a finite set, for
which a claim holds are all of them, since there is no least one for which it does not
(`AllNaturals`, `AllSubsets`, `SummingExists`, `SummingProps`, `SummingAgrees`).

`HttpPipeline_proofs`, first the limiter by itself, for every set of keys, limit and
window: `LimiterRateBounded`.
The limiter forgets hits, so the bound on all requests let through does not follow
from the length of `hits`. The invariant `LimiterInv` says that `hits` is the end of
`granted` (`Remembers`): what was dropped was outdated and stays so, and with a
full deque the next request comes a window after the one `MaxHits` before it.

Then the pipeline, for every finite set of requests and every kind of arrival:
the types, `MetricsMatchAnswers`, `AnswersKeepId`, `RetryAfterOn429`, `RateBounded` and
`RefusedOnlyAtLimit`. `MetricsMatchAnswers` speaks of the counters only when nothing is
under way, so it is not inductive. `PipelineInv` is `LimiterInv`, `RequestsInv` (what
each stage of a request implies for its id, exception and answer) and `MetricsInv`
(the gauge is the number of requests inside, and each counter the number of requests
past the step that counts them). A step changes each of these sets by at most the
one request (`SizeStep`), as it changes the counter. `RefusedOnlyAtLimit` follows from
`LimiterInv` by the lemma `DenyAtLimit`.

TLC has checked the inductive invariants on the instances of the runs as well.

Assumptions used: `StoreConstants`, `RedisConstants`, `NoneIsNoState`,
`LimiterConstants`, `HttpConstants`, `ServiceConstants`, `RedisServiceConstants`,
`SpanConstants`, `PipelineConstants`, `StrategyConstants`, `SecureConstants`,
`ReportConstants` and `LoadConstants`, which TLC evaluates in the runs. They are types and facts of the code: that
the records there at the start which belong to a key's own consumer were written by the
same code (`RedisServiceConstants`), that regular expressions report the confidence 1.0 and
the language model none as high, that tokens are drawn without repetition and no text
holds half of one (`SecureConstants`), that no type has two formats and two edges of a
number are no more digits than are hidden entirely (`StrategyConstants`; 2 and 4 in the
code). The instances' own restriction (`MCBounds`: texts of distinct characters) is in no
proof.

Only model-checked: liveness (`RequestsAnswered`, `TransitionEnds`, `RunnerFinishes`), which is out of the
prover's reach, and the counterexamples of the runs that expect a violation.

## Not modelled

- Which spans a regular expression matches, and the check digits and calendar dates of
  the validators: character matching and arithmetic on single values, covered by the
  repository's tables of examples; the model takes any outcome of them.
- Of the metrics, histograms and stage timings; the formatting of logs.
- Reading policies and settings, which happens once: their values are constants.
- Decryption failures (a changed `MASKING_KEY`) and memory exhaustion.
- The cache of the LLM detector: it returns what the model answered before, one of the
  answers the model may give. Values that occur twice in a text.
- Of the load test, scenarios other than `roundtrip`, the pacing of users, and two
  runners at once in one directory (an interrupted runner leaves its Locust behind).
- `package_submission.py`, `benchmark.py` and `benchmarks/score.py`: sequential, without
  shared state.

## Plan

1. Done: stores, service, lifecycle, policy change, wiring, span resolution, masking,
   strategies, restoration of an LLM's answer, rate limiter, HTTP pipeline, load
   runner.
2. Proved: types, order, capacity, atomicity, the contract and that the service on each
   store implements it, what policies forbid, disjointness and exactness of masking, the
   limiter's bound and the accounting of requests, the verdicts of the load runner, what
   masks show of digits and that tokens are restored: every safety property of the passing
   runs.
