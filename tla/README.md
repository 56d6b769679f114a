# go-mesi in TLA+

TLA+ models of go-mesi, an ESI (Edge Side Includes) processor: a Go library
(`mesi/`), a C bridge (`libgomesi/`) and integrations for web servers. The
modules are translated from the Go and C source; `PROJECT.json` says, definition
by definition, which lines. TLC checks the modules on small instances
(`*.cfg`), TLAPS proves the theorems of the `*Proofs` modules for every value of
the constants.

    tlc -config SingleFetchLocks.cfg MCSingleFetch     # a run
    tlapm FetchProofs.tla                              # proofs

## 1. Inventory

### The library

| Part | State | Operations | Hard behaviour | What makes it correct |
| --- | --- | --- | --- | --- |
| Include fetch path, `fetch.go` | `inflightLocks` (process wide, `inflightMu`), per lock a channel of capacity 1 and a reference count; `fetchSem` of the page | `singleFetchUrlWithContext`, `acquireInflightLock`, `releaseInflightLock` | goroutines of one page and of other pages on one cache key; a deadline on every wait; six early returns, each with its own set of things to give back | single flight per key, no leaked token, slot or table entry, no fetch that never returns |
| Memory cache, `cache_memory.go` | map, recency list, expiry times, `mu` | `Get`, `Set`, `Delete`, `evictLRU`, `removeEntry` | long sequences of calls; expiry, overwriting and eviction on the same entry; ttl 0 and negative | map and list agree, size bound, LRU, readers see the latest body |
| Redis and Memcached caches | connection; Memcached: a goroutine per call | `Get`, `Set`, `Delete` | a call abandoned at its deadline goes on | the same contract |
| `MESIParse` worker pool, `parser.go` | results, two channels, a wait group | scan, feed, work, collect, assemble | arrival order, cancellation while workers hold jobs, wait after abandoning the channel | page complete and in document order, no goroutine left, always returns |
| Render recursion, `parser.go`, `config.go`, `include.go` | config per call: `MaxDepth`, `Timeout`, start time | `OverrideConfig`, `DecreaseMaxDepth`, `WithElapsedTime`, `CanGoDeeper`, `toString` | fragments that include each other; budgets handed down, twice reduced, clamped | recursion ends, a fetch stays within every enclosing budget |
| Fetch modes, `fetch_mode.go`, `ab_ratio.go` | channel and child context of a concurrent include | `fetchFallback`, `fetchAB`, `fetchConcurrent` | two goroutines racing with a cancellation; boundary of the random draw | an include fails only if everything it may try failed; the loser ends |
| Tokenizer and tag matching | none | `esiTokenizer`, `find*Close`, `extract*Blocks` | nesting, unclosed tags | every byte of the page in one token, matching end tags |
| Variables, `vars.go` | `Variables` map of the config | `evaluateExpression`, `parseVarsBlock`, `evaluateTest` | one map for a page and all that is nested in it | a page's assignments reach what follows them |
| SSRF policy, `ssrf.go`, `ssrf_dialer.go` | none | `isURLSafe`, `safeDialer`, `hostInAllowedHosts`, fingerprint in the cache key | redirects, one address per dial attempt | every hop is validated; policies do not share cache entries |
| Limits, `max_depth.go`, `max_response_size.go` | none | parsing, clamping | overflow at the upper bound | rejected or clamped, never wrapped |
| Cache key template, logger | none | string building, diagnostics | | |

### Around the library

| Part | State | Operations | Hard behaviour |
| --- | --- | --- | --- |
| `middleware.ResponseWriter` | buffer, status, `decided`, `watch`, `oversize`, `committed` | `Write`, `WriteHeader`, `Flush`, `Hijack`, `HandleOversize` | decision at the first write, held-back part, informational responses |
| Proxy, Caddy, Traefik, RoadRunner | configuration, cache, shared transport | provisioning, request handler, close | the answer depends on headers, limit, method and status together |
| libgomesi | `sharedCache`, `sharedCacheTTL`, `sharedClient`, `sharedTransport`, without a lock | `InitCache`, `InitCacheWithConfig`, `FreeCache`, `InitHTTPClient`, `FreeHTTPClient`, `Parse*` | replaced while parses run; failed initialisation |
| nginx module | `cache_initialized`, `cache_last_backend`, symbols of libgomesi; per request a buffer; per location its settings | header and body filter, `parse`, setters, merge | response in pieces; locations with different backends in one worker; numbers of any length; inheritance; libraries older than the module |
| Apache module | `cache_initialized`, `http_client_initialized`, symbols; per request a brigade; per virtual host its settings | output filter, lazy initialisation, setters, merge | memory lent by the handler, end-of-stream bucket; threads of one child; the same for settings |
| PHP extension | `g_cache_state`, `g_http_shared_client`, `g_http_block_private_ips` | `parse`, `parse_with_config` with 22 options, module init and shutdown | state remembered across calls; options that depend on each other |
| Command line tool, FrankenPHP image | none | one parse; packaging | |

### How the parts interact

An integration buffers a response (`ResponseBuffer`) and calls `MESIParse`. The
scan renders static text and blocks itself and leaves includes to a pool
(`ParsePool`). A worker derives the include's configuration (`Render`), runs its
fetch mode (`FetchModes`), each request of which is one
`singleFetchUrlWithContext` (`SingleFetch`), which reads and fills a `Cache`
(`CacheContract`, `MemoryCache`). Fetched content re-enters `MESIParse` one
level deeper. Goroutines of all pages of a process meet in the lock table and in
the cache; goroutines of one page also in `fetchSem`.

The C integrations hold back a response in a filter (`NginxFilter`,
`ApacheFilter`, both promising what `PageFilter` says) or get it as a string
(PHP), set up the cache and client of the process (`Worker`, on `LibGomesi`) and
hand their settings to the entry point of libgomesi that can take them
(`Settings`, from `NginxSettings`, `ApacheSettings` and `PhpSettings`).

## 2. Modules

| Module | Models | Abstraction |
| --- | --- | --- |
| `SingleFlight` | what the lock protocol promises: at most one leader per key, and only a leader fills the cache | leaders and cached body per key |
| `SingleFetch` | `singleFetchUrlWithContext` with the two inflight-lock functions | a goroutine's position is the statement it is about to run; one step per statement that touches shared state; URL validation and the request with its redirects have one outcome each |
| `CacheContract` | what the fetch path relies on in a `Cache` | body of the latest `Set`, visible or gone |
| `MemoryCache` | `MemoryCache` | one step per method, since each holds `mu`; the list is a sequence of keys |
| `ParsePool` | one `MESIParse` call | a token is its index, a response the index of its token |
| `Render` | the recursion of `MESIParse` and the configurations on the way down | one path of the call tree as a stack; siblings only let time pass |
| `FetchModes` | `fetchFallback`, `fetchAB`, `fetchConcurrent` | a request ends with content or an error |
| `ResponseBuffer` | `middleware.ResponseWriter` and the request handlers of the four Go integrations | bytes are numbered in the order written; `MESIParse` returns a page that is shorter, the same or longer |
| `PageFilter` | what a server module promises of a response: the body, one page in its place, or nothing | the bytes let through, and whether the answer has ended |
| `NginxFilter` | header and body filter of the nginx module | a byte is its number, a buffer the number of its last byte; the upstream module with its proxy buffers and the write filter with `ngx_http_writer` are modelled from how the filter relies on them |
| `ApacheFilter` | the output filter of the Apache module and its installation | a byte is its number, a bucket the number of its last byte; the handler and the filters below are modelled from how the filter relies on them |
| `LibGomesi` | the shared cache and client of libgomesi as operators on its state | a cache is its backend, a number for its settings, and whether it has been used |
| `Worker` | one nginx worker, prefork Apache child or PHP process on top of `LibGomesi` | a request is its configuration; what comes before the parse (filters, option checks) has been passed |
| `Arguments` | the directives the C modules share, the form of arguments and values, fixed-width arithmetic, what libgomesi accepts | a number, and the port of an address, is its sequence of characters; another argument is one of a few words, each for a class of texts |
| `NginxSettings`, `ApacheSettings`, `PhpSettings` | every setter or option check, inheritance and defaults, the settings that go into the ParseJson blob and into the cache's | a setter yields the set of values it may store, empty when it refuses |
| `Settings` | a configuration from its lines to the arguments of a parse, composed of the three | the text of the blobs and its escaping are left out |
| `MemoryCacheProofs`, `ParsePoolProofs`, `NginxFilterProofs`, `ApacheFilterProofs`, `WorkerProofs`, `SettingsProofs` | theorems about the module each is named after | |
| `FetchProofs` | theorems about `SingleFetch` and `FetchModes`, an include from its attributes to the request; the specification of `FetchModes` is called `IncludeSpec` because both modules are extended here | |
| `PageProofs` | theorems about `Render` and `ResponseBuffer`, a page on its way down and up; the specification of `ResponseBuffer` is called `BufferSpec` because both modules are extended here | |
| `MCSingleFetch`, `MCMemoryCache`, `MCWorker`, `MCSettings` | constants for TLC | |

### SingleFetch and the code

`pc[f]` is where goroutine `f` is in `singleFetchUrlWithContext`: `admit` (the
`select` on `fetchSem`), `validate`, `get` (first cache lookup), `ref`
(`acquireInflightLock`), `wait` (the `select` on `lock.ch` and `ctx.Done()`),
`held` (the deadline check after the send), `recheck` (second lookup), `dial`
and `fetch` (outside the cache path and inside it: request under way), `set`,
`unslot` and `unref` (the two deferred functions, in their order) and `unsem`
(the deferred receive from `fetchSem`). `inflightLocks` maps a key to its lock,
`refCount` and `held` are the fields of a lock object, `sem` is the number of
tokens in each page's `fetchSem`. `Expire` is a deadline passing, at any moment;
`Drop` a cache entry disappearing, for whatever reason the cache has. A
goroutine that is `idle` may start over with another key, so runs contain
unbounded sequences of fetches.

The model takes a cache `Set` to have happened, or not, when it returns. That is
so for the memory and Redis caches. A Memcached `Set` that was abandoned at the
deadline may still take effect later; nothing here says anything about that.

### NginxFilter and Worker and the code

In `NginxFilter` every call of the body filter is one step, `BodyFilter(chain,
last)` or `BodyFilterNull`, with the disjuncts of its early returns: `Forward`
(module off, no context, or passthrough), `Accumulate`, `ParseAndSend` (the last
buffer is in the chain), `GiveUp` and `Abort` (limit crossed, `mesi_on_oversize`
`pass` and `error`), `NoMemory`. `busy` are the proxy buffers handed down and not
drained; the upstream module hands down only free ones, so a filter that does
not mark its buffers consumed starves it. The write filter sends at most `Chunk`
bytes in one pass; `Wake` is `ngx_http_writer` calling the filters without a
chain. The model has subrequests (`rsp.main` false), whose buffers never carry
`last_buf` and whose page is therefore held back for ever by line 691; the
properties are about main requests.

In `Worker` a request runs from the set-up of cache and client to the return of
the parse in one step, since these processes have one thread. `memo` is what the
integration remembers: `cache_initialized` and `cache_last_backend` of nginx,
`cache_initialized` and `http_client_initialized` of Apache, `g_cache_state`,
`g_http_shared_client` and `g_http_block_private_ips` of PHP. `symbols` are the
optional functions of the library found by `dlsym`. Apache's first request with a
cache decides for the child, nginx sets up anew when the *name* of the backend
changes, PHP when any setting does; the properties say for each what follows.

### ApacheFilter and Settings and the code

In `ApacheFilter` every call of `mesi_response_filter` is one step, with the
disjuncts of its early returns: `PassOn`, `Skip` (the filter removes itself),
`Refuse` and `GiveUp` (limit crossed, `MesiOnOversize` `error` and `pass`),
`Hold` (no end-of-stream bucket yet), and the ways a complete page goes:
`EndRaw`, `EndParsed`, `EndFailed`. `ctx.bb` is the filter's brigade; a byte in
`ctx.lent` is in memory the handler has taken back, and reads as `Garbage`. The
code leaves none there, because it sets every data bucket aside; that the
handler does reuse its memory is what makes the copy matter. `PassBrigade` makes
the header final with the first brigade. `conf.unenforceable` covers both ways
of not parsing a page for lack of a library function.

In `Settings` an operator writes a file line by line (`Line`); the line's setter
stores a value in `conf` or stops the server. `EndOfFile` is the merge, `Serve`
a request in one of the scopes. For PHP the lines are the entries of the options
array, and `Call` checks them all. `handed` is what then reaches libgomesi:
arguments of the entry point, of the calls that set up the cache, and the
settings the module applies itself; `warned` are the settings the request's log
says are ignored. What the properties compare them with is stated over the text
that was written, independently of the setters: `DocumentedBounds` are the
ranges that the READMEs name, `Documented` the defaults, `Meaning` and `Wanted`
what lines and scopes mean. Where the code does otherwise the definitions say
so: `Bounds`, which `RefusedExactly` uses, differs from `DocumentedBounds` in
nginx's `redisDb` and PHP's `cacheSize`, `IsNumber` has Apache's limit of digits,
and `Meaning` its `EnableMesi Off`; section 3 lists them.

## 3. Runs

Every run is exhaustive for its constants. A violation run shows that the code
differs from what its documentation or comments say; its property is that text
as a formula.

| Run | Instance | Shows |
| --- | --- | --- |
| `fetch_one_page` | three goroutines of one page, semaphore of 2 | `AdmissionBound`: every return path gives back exactly the token it took; `FetchReturns` |
| `fetch_single_flight` | goroutines of two pages, one key, two lock objects | `UpstreamExclusive`, `LockTableExact`, `SlotNeverLost`, `NoRedundantTrip`, and `SingleFetch` implements `SingleFlight` |
| `memory_cache` | three keys, two places, ttl negative, 0 and 2, clock to 4 | `ListMatchesMap`, `SizeBound`, `TtlHonoured` (an entry is served for as long as its latest `Set` asked), `EvictsLeastRecent`, and `MemoryCache` implements `CacheContract` |
| `parse_pool` | all pages of four tokens, two workers | `PageInOrder`, `SendsNeverBlock` (also after the loop gave up), `ParseReturns` |
| `render_recursion` | depth 2, timeout 4, attributes 2 resp. 0 and 1 | `DepthHonoured`, `BudgetNests` |
| `fetch_modes` | all attributes, sides of a ratio up to 4 with a maximum of 3 | `FailureIsTotal`, `ShareMatchesRatio`, `IncludeEnds` (which includes that the loser is cancelled) |
| `response_buffer` | bodies up to 4 bytes in any chunks, limit 2 or none, four integrations | `LimitedExactly`, `AnswerFaithful` |
| `nginx_filter` | bodies up to 4 bytes, pages up to 2, two proxy buffers, limit 3 or none, two bytes per pass | `LengthHonest`, `BufferWithinLimit`, `LimitExact`, `OthersUntouched`, `ResponseCompletes`, and `NginxFilter` implements `PageFilter` |
| `apache_filter` | bodies up to 4 bytes in any buckets and brigades, pages up to 2, limit 2 or none | `LengthHonest`, `LimitExact`, `ResponseCompletes`, and `ApacheFilter` implements `PageFilter` |
| `worker_state` | three kinds of process, five libraries, all request configurations | `FailsClosed`, `CacheAsAsked`, `ClientAsAsked`, `CacheStable` |
| `worker_cache_off` | same | violation: `OffIsOff` |
| `settings` | three servers, four libraries, two scopes; every text of up to four characters for every number, short files about each directive and about pairs of them | `RefusedExactly`, `AsWritten`, `LossWarned` |

`SingleFetch` also checks its `TypeOK`, because a bound in it can be broken by
the code (two tokens in a lock channel); in the other modules `TypeOK` documents
the state, and the proofs rest on it.

### Where the code and its documentation differ

The `off` backend is a violation run; the others were met while modelling and can be
read off the lines named.

- A nested page gets its include's timeout reduced twice by the time between the
  start of the enclosing parse and the start of the include (`parser.go:196` and
  `:200`), where `README.md:64` speaks of one reduction.
- An include's own timeout is reduced by the age of the enclosing parse even if
  the page has more time left than the attribute asks for (`parser.go:196`
  against `README.md:65`).
- `fetch-mode="concurrent"` without `alt` makes one request
  (`fetch_mode.go:11`); `README.md:126` announces two.
- An invalid `ab-ratio` fails the include (`ab_ratio.go:168`); `README.md:133`
  announces 50:50. `docs/features.md` describes the code's behaviour.
- Caddy and RoadRunner answer a HEAD request for a response they do not parse
  with `Content-Length: 0` (`caddy/mesi.go:409`), where the comment at
  `caddy/mesi.go:402` says the response is copied through unchanged.
- An nginx location without `mesi_cache_backend`, or with `off`, uses the cache
  another location of the worker has set up (`ngx_http_mesi_module.c:1666-1721`);
  `servers/nginx/README.md:642-643` lists `off` as a value and as the default.
  `off` also makes the worker forget which backend is set up, so that the next
  request of a `memory` location starts with an empty cache.
- `EnableMesi Off` in an Apache virtual host does not undo `On` of the main
  server: `enable_mesi` does not tell `Off` from unset (`mod_mesi.c:309`).
  `AsWritten` counts it as nothing said.
- `mesi_cache_redis_db` takes any number up to the largest `ngx_int_t`
  (`ngx_http_mesi_module.c:393`) and hands it over (`:889`);
  `servers/nginx/README.md:696` and the comment at `ngx_http_mesi_module.c:164`
  name 0 to 15. `Bounds` departs from `DocumentedBounds` here: `RefusedExactly`
  says that nginx takes these numbers, not that it should.
- PHP refuses a `cache_size` of 0 (`mesi.c:1125`); `php-ext/README.md:161` says that
  0 is treated as "use default 10000". This is the other departure of `Bounds`.
  `php-ext/README.md:150` and `docs/features.md:101` describe the code's behaviour.
- Apache refuses a number of more than nine digits even if it is in range,
  leading zeros included (`mod_mesi.c:964`); `servers/apache/README.md` names the
  ranges, and the guard only as what bounds the counts (`:230`). `IsNumber` has the
  limit.
- nginx reads `mesi_cache_size` and `mesi_cache_ttl` with its own number slot too.
  Its README names no range for them; above an int they wrap where they are handed
  over as C ints (`ngx_http_mesi_module.c:1689`), and `AsWritten` leaves these
  numbers out. Apache and PHP refuse more than a million and a day.
- nginx compares backend names only: a second location with the same backend and
  other servers, size or ttl uses the first one's cache, and a backend whose
  set-up failed is not tried again until another backend was asked for.
- `InitCacheWithConfig` drops the previous cache when it fails and a comment
  (`libgomesi.go:103`) says that this "matches InitCache semantics"; `InitCache`
  keeps it (`libgomesi.go:77`).
- A comment in `php-ext/mesi.c:146` and `docs/features.md:104` say that the legacy
  `parse()` does not use the cache; `Parse` does apply the shared configuration, and
  `parse()` after a `parse_with_config()` uses its cache and client.
  `php-ext/README.md:183` describes the code's behaviour.

### Bounds, and why they suffice

- Goroutines: the lock protocol needs one holder, one waiter and one newcomer
  for a stale lock to be possible, and the semaphore one goroutine more than its
  capacity. A second and third lock object for one key are what a wrong pruning
  would produce; the run that also checks liveness does with one object, since
  the other run shows that a key never has two.
- Memory cache: three keys for two places force an eviction with a choice; ttl
  and clock let entries expire before, at and after a use.
- Pool: four tokens and two workers give a worker more than one job, both
  channels more than one element, and inline content before, between and after
  jobs.
- Render: four nested calls reach below the depth limit through every kind of
  block; the clock exceeds the timeout.
- Response buffer: four bytes and a limit of two allow chunks that end below, at
  and beyond the limit.
- nginx filter: a body of four bytes through two buffers needs several chains; a
  limit of three is crossed by the first, a middle or the last buffer of a chain;
  capacities 1, 2, 4 make the cut to the limit happen; two bytes per pass leave
  something in the write filter of most answers.
- Apache filter: four bytes and a limit of two let a page be crossed by a bucket
  of the first or of a later brigade, and be held over several calls.
- Settings: widths are scaled down so that every text of four characters can be
  tried. An int holds 127, a long 1023, Apache reads two digits into an int, and
  the maxima (12 for a depth, 20 for a timeout and a ttl, 99 for counts, 31 for a
  cache size, 12 for a database, 92 for a port) keep the relations the comments of
  the parsers rely on (`WidthAssumption`): MaxDigits digits fit an int, and ten
  times a bound fits a long. Four digits overflow a long many times over. The
  characters are the digits 0, 1, 2, 3, 9, any other one, and a blank. Three lines
  are one per scope and one repeated; two directives at a time are one that leads
  to ParseJson and any other, or a backend and a setting of a cache. The default
  cache size 10000 is 10 here, nginx's default ttl 30 is 3.
- Worker: three backends, two settings of one of them and the ones that are
  refused let every request find the state left by any other.

`SingleFetch` and `Worker` have no bound in their guards. `MaxTime`,
`MaxNesting`, `MaxBytes`, `MaxPage` and the number of lines of a topic are the
bounds of the others.

### Fairness

`FetchReturns` assumes that a goroutine that can run does (the Go scheduler),
and that deadlines pass (timers). It assumes nothing of upstream servers, which
may never answer, nor that a goroutine waiting for the semaphore or the slot
ever gets it: the deadline ends the wait. `ParseReturns` and `IncludeEnds`
assume scheduling and that a rendering, or a request, ends, which is
`FetchReturns`; a cancellation is never assumed.

`ResponseCompletes` assumes that the upstream server delivers its response, that
nginx calls the filters while it has something for them, and that a client takes
bytes while some are waiting. It does not assume that a pass takes all of them.
In `ApacheFilter` it assumes that the handler goes on to the end of its response.

Deadlock is not checked where a run models one call, response or process that
ends (`ParsePool`, `FetchModes`, `ResponseBuffer`, `NginxFilter`, `ApacheFilter`,
`Settings`, `Worker`).

## 4. Proofs

Every theorem holds for all values of the constants that satisfy the module's
`ASSUME`; the bounds of the runs are among the constants. An invariant is proved
from an inductive one, named `IInv` (`RenderInv` and `BufferInv` in
`PageProofs`, `IncludeInv` for `FetchModes`, `Inv` in `SettingsProofs`): one
lemma or step per action, and under it one per conjunct that the action can
disturb. The sections below say what has to be added to the
invariants of the runs to make them inductive, and why.

| Module | Invariants and action properties proved | Refinement |
| --- | --- | --- |
| `FetchProofs`, `SingleFetch` | `TypeOK`, `UpstreamExclusive`, `LockTableExact`, `SlotNeverLost`, `AdmissionBound`, `NoRedundantTrip` | `SingleFlight` |
| `MemoryCacheProofs` | `TypeOK`, `ListMatchesMap`, `SizeBound`, `TtlHonoured`, `EvictsLeastRecent` (a step) | `CacheContract` |
| `ParsePoolProofs` | `TypeOK`, `PageInOrder`, `EveryJobOnce`, `SendsNeverBlock` | |
| `PageProofs`, `Render` | `TypeOK`, `DepthHonoured`, `BudgetNests` | |
| `PageProofs`, `ResponseBuffer` | `LimitedExactly`, `AnswerFaithful` | |
| `FetchProofs`, `FetchModes` | `IncludeTypeOK`, `FailureIsTotal`, `ShareMatchesRatio` | |
| `NginxFilterProofs` | `TypeOK`, `LengthHonest`, `LimitExact`, `OthersUntouched`, `BufferWithinLimit` | `PageFilter` |
| `ApacheFilterProofs` | `TypeOK`, `LengthHonest`, `LimitExact` | `PageFilter` |
| `WorkerProofs` | `TypeOK`, `FailsClosed`, `CacheAsAsked`, `ClientAsAsked`, `CacheStable` (a step) | |
| `SettingsProofs` | `RefusedExactly`, `AsWritten`, `LossWarned` | |

These are all invariants and action properties of the runs that hold, and all
refinements. What is left to TLC is at the end of this section.

### SingleFetch

`FetchAssumption`: the set of goroutines is finite, capacities are natural
numbers, and the markers for "no key", "no lock" and "no body" are none of the
keys, locks and bodies.

None of the invariants is inductive alone. `UpstreamExclusive` speaks of keys,
but exclusion is between goroutines holding the same lock *object*; it carries
over because a key has one object as long as anyone refers to it. That needs the
exact reference counts (`LockTableExact`), which need that distinct keys have
distinct objects (`LocksDistinct`), that only a goroutine with a key has a lock
(`LockNeedsKey`) and that it has a key at all on that path (`KeyKnown`). With
these, at most one goroutine owns an object (`OneOwner`) and a full channel has
an owner (`SlotNeverLost`). `NoRedundantTrip` follows from exclusion: between the
second lookup and the fill nobody else can fill the entry. `BodyRead` says that
what is stored was fetched. `IInv` is their conjunction; it is preserved conjunct
by conjunct, each from those before it, with one step per action.

### MemoryCache

`CacheAssumption`: the size and the times to live are integers, of any sign, and
"no body" is not a body. `maxSize` 0 or less is the code's "no limit".

`ListMatchesMap` says that the list holds each key with an entry, once; it is
inductive given the types. That `evictLRU` takes the least recently used key is a
fact about the order of the list, so `ListInv` adds that a key further back was
used before the ones in front of it. It also bounds the length of the list by
`maxSize`; with `ListMatchesMap`, and because a list without repetitions is as
long as the set of its elements, that is `SizeBound`. The operations on the list
are lemmas about sequences without repetitions: what removing an element, or the
last one, or putting one in front leaves, and in which order. `TtlHonoured` compares
an entry's absolute expiry time with a history that counts down the time the
latest `Set` asked for; `TtlInv` says that the two differ by the clock. The
refinement maps
the entry of a key to its body while it can still be read: the body goes from the
contract when the time of the entry is up, and the `Get` that then drops the entry
is a stutter.

### ParsePool

`PoolAssumption`: any number of tokens, at least one worker.

A job is a token that has been left for the pool. `OnceEach` counts the places
in which each token is (still to be fed, in the job channel, with a worker, in
the result channel, in the results) and finds exactly one for what has been
scanned and none for the rest; that is `EveryJobOnce` made inductive. `Accounted`
is the same for the numbers: unfed, queued, worked on, answered and received add
up to the jobs there are. The collecting loop counts, so this is what makes
`WaitInv` true: who waits for the workers without a cancellation has all results.
It also gives `SendsNeverBlock`: a job still to be fed or with a worker is one of
those that fit into the channel it goes to, but is not in it yet.
`ScanInv`, `FeedInv` and `PoolInv` say what the pool can be doing while the
calling goroutine is at each of its statements; a worker has exited only after
the channel is closed and empty. `PageInOrder` then rests on a lemma about the
sort in `assembleResults`: a stable order of results with different indices
exists and there is only one, the ascending one.

### Render

`RenderAssumption`: depth, timeout and attributes are natural numbers, or absent.

`DepthHonoured` bounds the number of includes above one that is fetched. What is
inductive is a sum: in every frame, the depth left plus the number of includes
on the path is at most what the page and the `max-depth` attributes allow
(`FrameInv`). `BudgetNests` needs that the budget of every frame ends within
that of each one around it, up to the innermost `choose` or `except` branch,
where the code starts over (`Nested`). `IncludeInv` carries both facts through
the derivation of an include's configuration, which takes several steps during
which time passes.

### ResponseBuffer

`BufferAssumption`: any number of bytes, any limit, 0 being none.

`AnswerFaithful` speaks of the answer when the handler has returned. `StateInv`
describes wrapper and client before that: nothing decided and nothing sent
(`Idle`), the connection hijacked (`Hijacked`), the whole body held and within
the limit (`Holding`), or the limit crossed, or announced to be, and the client in
possession of all bytes so far, or of none in error mode (`Crossed`). Every
call of the wrapper keeps to one of these or moves to a later one. The lemmas are
one for each function of the wrapper, and the last step is one for each of the four
integrations.

### FetchModes

`RatioAssumption`: the largest ratio is at least 1. The theorems are about
`IncludeSpec`, which includes fairness; the proofs use only its steps.

`FailureIsTotal` says that an include fails only when everything it may try has
failed. In the fallback mode that is remembered in the request under way
(`FetchInv`), in the concurrent mode in the channel: `RaceInv` says that a result
in the channel is that of a goroutine that has ended, that there is one of each at
most, and that the one received already was an error. `FailedInv` says that a
failed include left no goroutine behind unless it was cancelled.
`ShareMatchesRatio` is a statement about the random draw: the draws that choose
`src` are as many as the ratio says, for every ratio.

### NginxFilter and ApacheFilter

`FilterAssumption`: any number of bytes in a body and in a page, any limit; for
nginx also any number of proxy buffers and of bytes per pass, at least 1.

Both filters are in one of two modes, and each mode has its conservation law
(`BytesInv`): while a page is being held back, every byte read is in the context,
in order, and the client has nothing; once it is not, every byte read is with the
client, in order. For nginx "with the client" includes what waits in the write
filter, so the law is about `sent \o out`, and the write filter moves bytes from
one to the other. `RouteInv` says which responses are in which mode and what has
become of their header; from both follows `LengthHonest`. `LimitExact` needs that
the bytes held never exceed the limit (`LimitInv`; `FitsInv` for Apache): it is a
chain or a brigade that crosses it, in its first, a middle or the last buffer, and
the lemmas about `GiveUp` say that the bytes before it and the chain itself make
up the body without a gap. For Apache `EndedInv` adds that nothing is left in
memory that the handler has taken back.

`BufferWithinLimit` is about two recursions, the rounds of doubling for one buffer
and the buffers of a chain, and is proved apart from the rest (`HeldInv`, given
`IInv`). The provers have no rule of induction for this, but the theorem that `<` is
well founded on the natural numbers speaks of sets only: `LeastNumber` and
`CountUp` get the least-number principle and induction over `0..n` from it, and
`RunExists` that a recursion over `0..n` defines a function. Doubling reaches every
length in at most that many rounds (`EnoughIsEnough`), the cut to the limit leaves
room for a length within it (`GrownFacts`), and so for each buffer of a chain
(`CapacityFacts`).

`KeepsPromise` is `Spec => ImplementsPageFilter` for both: every call of the filter
lets through a further part of the body, or puts one page in its place, or ends the
answer, as `PageFilter` allows.

### Worker

`LibraryAssumption`: the libraries are sets of the optional functions.

What a request gets depends on the state left by all earlier ones; the invariant
is that what the integration remembers describes the library. `NginxMemo`: the
backend noted is the one in use, or was refused. `ApacheMemo`: before the set-up
there is no cache. `PhpMemo`: `g_cache_state` describes the cache, and the two
flags describe the client. `CacheShape`: a cache without a backend is no cache.
`CacheStable`, that a cache in use is not replaced for a request that asks for the
same, follows from these for each step.

### Settings

`WidthAssumption`, which the real widths satisfy: `MaxDigits` digits, nine in the
code, fit an int, and are enough to write every bound; ten times a bound and a
digit fit a long where a parser looks at the value after each digit; PHP's port keeps the margin its parser leaves (`LONG_MAX / 10 - 10`); the
default depth is a depth. `TopicAssumption`: an argument is a sequence of
characters, of any length. The files may have any number of lines about any
directives. The two defaults that are scaled down, cache size and ttl, are
literals of the model.

The argument has three parts.

*Numbers.* `Decimal` says what a text of digits means. The parsers are loops
that stop when the value is too large, each testing that in its own way: after
the step (`EarlyExitReads`), by the room that is left (`GuardedLoopReads`,
`OffReads`), with a margin (`UintReads`), or by the number of digits before the
loop begins (`IntReads`). `Kept` is what such a loop should have after each
character: the number so far while it is within the bound, and nothing once it
is beyond. That a longer text never means less (`ValuesGrow`) is why a loop may
stop early. `KeptLoop` is the induction over the characters, with `CountUp` as
for `BufferWithinLimit`. So a number is accepted exactly when it is in range,
however long it is written, and no overflow on the way changes that.

*A file.* From there each setter of a server stores what its line means or
refuses it (`NginxLine`, `ApacheLine`, `PhpOption`). `LoadInv` says of a
scope that it holds what its lines together leave: the last one, or for Apache's
lists all of them. For nginx and PHP this needs that a directive is said once
(`OnceInv`). `FailInv` says that a refused file has a fault and `FitInv` that an
accepted one has none; with `LoadInv` they give `RefusedExactly`. A fault is
measured by `Bounds`, so the theorem says that the code keeps to the documented
ranges except where `Bounds` departs from them, and is exact about the departures.

*A request.* At the end of the file the merge and the defaults turn what is
stored into what a request finds, which stands for the wanted setting (`Stands`,
`ServeInv`): it is the value itself, or one of the ways to store "nothing said".
`ServedInv` says that what has been handed over was made of that. What remains of
`AsWritten` and `LossWarned` has one lemma per way a setting takes: into the blob
of ParseJson (`JsonIs`), as an argument of the entry point (`EntryIs`,
`TemplateIs`, `HandedIs`), to the cache (`CacheIs`).

### Left to TLC

- Liveness: `FetchReturns`, `ParseReturns`, `IncludeEnds`, `ResponseCompletes`. The
  prover does not handle fairness.
- `OffIsOff`, which does not hold.

## 5. Not modelled, and the plan

Reasons for leaving a part out are with the components in `PROJECT.json`. Of the
C modules these are left out:

- the text of the JSON blobs: escaping, the measuring pass and the buffer sizes.
  `Settings` takes a blob for the set of keys and values in it;
- the content of the request context (headers and cookies for a cache key
  template), except whether it is handed over;
- bodies with NUL bytes, which end a C string: `mod_mesi.c:2147` and `:2258`
  send such a page on only up to the NUL, and so do all parses;
- the limit `max_body_size` of a PHP call, which is one comparison with the length
  of a string, and `test-libgomesi.c`, a test program.

What could be modelled next, in this order:

1. Threads: `Worker` for Apache's worker and event MPMs, where the test and the
   setting of `cache_initialized` and the library's set-up are steps of their
   own, and the cache may be replaced under a running parse.
2. `SsrfPolicy`: validation of every redirect hop and of the address dialled,
   over classes of hosts and addresses; fingerprint and cache key.
3. `MemcachedCache`: calls abandoned at the deadline, against `CacheContract`.
4. `PageVariables`: the variables map shared by the workers of a page.
5. `TagMatching`: tokenizer and tag matching against a reference definition
   (recursive functions, in a module of their own).
6. The options of the Go servers, as `Settings` does for the C modules.

Proofs planned: `ResponseBuffer` as an implementation of `PageFilter`, which needs
the answer of the wrapper and that of the server apart.
Composition planned: `SingleFetch` over `CacheContract`, so that `MemoryCache`
can replace its cache.
