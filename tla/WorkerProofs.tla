---------------------------- MODULE WorkerProofs ----------------------------
(***************************************************************************)
(* Proofs about Worker for every set of libraries: what an integration     *)
(* remembers of the library keeps describing the library, so that what a   *)
(* request is parsed with is what its configuration asks for.  The         *)
(* inductive invariant is IInv.                                            *)
(***************************************************************************)
EXTENDS Worker, TLAPS

(* There is no cache, or one with a name; only a cache that exists is warm. *)
CacheShape == lib.cache.backend = NoBackend => lib.cache = NoCache

(* nginx: the backend noted is the one the library uses, unless it was     *)
(* refused: mesi_cache_backend off, or memcached without servers.  What    *)
(* was noted last is what the last request that was parsed had asked for.  *)
NginxMemo ==
    server = "nginx" /\ up =>
        /\ /\ memo.initialized
           /\ {"InitCache", "InitCacheWithConfig"} \subseteq symbols
           /\ memo.backend \in {"memory", "redis", "memcached"}
           => \/ lib.cache.backend = memo.backend
              \/ lib.cache = NoCache /\ memo.backend = "memcached"
        /\ Parsed /\ last.request.cache[1] # NoBackend =>
              memo.initialized /\ memo.backend = last.request.cache[1]

(* Apache: as long as the flag is down there is no cache.                  *)
ApacheMemo ==
    server = "apache" /\ up /\ ~memo.initialized => lib.cache = NoCache

(* PHP: g_cache_state describes the cache, g_http_shared_client and        *)
(* g_http_block_private_ips the client.                                    *)
PhpMemo ==
    server = "php" /\ up =>
        /\ lib.client = IF ~memo.shared THEN "none"
                        ELSE IF memo.block THEN "blocking" ELSE "open"
        /\ memo.conf = -1 => lib.cache = NoCache
        /\ memo.conf # -1 =>
             /\ lib.cache.backend = memo.backend
             /\ memo.backend # NoBackend => lib.cache.conf = memo.conf

MemoInv == CacheShape /\ NginxMemo /\ ApacheMemo /\ PhpMemo

IInv == TypeOK /\ MemoInv /\ FailsClosed /\ CacheAsAsked /\ ClientAsAsked

----------------------------------------------------------------------------
(* A request is a record, never the empty sequence that stands for parse() *)
(* without a configuration, and its parts have the types given.            *)
LEMMA RequestType ==
    ASSUME NEW q \in Requests
    PROVE  /\ q # <<>>
           /\ q.cache[1] \in {NoBackend, "memory", "redis", "memcached", "off"}
           /\ q.cache[2] \in Confs
           /\ q.hosts \in BOOLEAN /\ q.bypass \in BOOLEAN /\ q.shared \in BOOLEAN
           /\ q.block \in {"unset", "on", "off"}
           /\ q.route \in {"plain", "template", "json"}
<1>1. q \in [cache : Caches \union {<<"off", 1>>}, hosts : BOOLEAN,
             block : {"unset", "on", "off"}, bypass : BOOLEAN, shared : BOOLEAN,
             route : {"plain", "template", "json"}]
  BY DEF Requests
<1>2. q # <<>>
  BY <1>1
<1>3. q.cache \in Caches \union {<<"off", 1>>}
  BY <1>1
<1>4. \A c \in Caches \union {<<"off", 1>>} :
        c[1] \in {NoBackend, "memory", "redis", "memcached", "off"} /\ c[2] \in Confs
  <2> SUFFICES ASSUME NEW c,
                      \/ c = <<NoBackend, 1>> \/ c = <<"memory", 1>> \/ c = <<"memory", 2>>
                      \/ c = <<"redis", 1>> \/ c = <<"memcached", 1>>
                      \/ c = <<"memcached", 0>> \/ c = <<"off", 1>>
               PROVE  /\ c[1] \in {NoBackend, "memory", "redis", "memcached", "off"}
                      /\ c[2] \in Confs
    BY DEF Caches, NoServers
  <2> QED
    BY DEF Confs
<1> QED
  BY <1>1, <1>2, <1>3, <1>4

(* The empty name is none of the names of caches.                          *)
LEMMA NoBackendApart ==
    NoBackend \notin {"memory", "redis", "memcached", "off"}
  BY Zenon DEF NoBackend

(* What the library's entry points do to its cache: it is replaced, kept   *)
(* or dropped, and the client is left alone.                               *)
LEMMA CacheOperations ==
    ASSUME NEW l \in LibStates, NEW b, NEW c \in Confs
    PROVE  /\ InitCache(l, b, c) \in LibStates
           /\ InitCache(l, b, c).client = l.client
           /\ InitCache(l, b, c).cache =
                IF b = "memory" THEN Cold(b, c)
                ELSE IF b = NoBackend THEN NoCache ELSE l.cache
           /\ InitCacheWithConfig(l, b, c) \in LibStates
           /\ InitCacheWithConfig(l, b, c).client = l.client
           /\ InitCacheWithConfig(l, b, c).cache =
                IF \/ b \in {"memory", "redis"}
                   \/ b = "memcached" /\ c # NoServers
                THEN Cold(b, c) ELSE NoCache
<1> USE NoBackendApart DEF LibStates
<1>1. /\ l.cache \in CacheStates
      /\ NoCache \in CacheStates
      /\ b \in Backends => Cold(b, c) \in CacheStates
  BY DEF CacheStates, NoCache, Cold, Backends, Confs
<1>2. \A x \in CacheStates :
        /\ [l EXCEPT !.cache = x] \in LibStates
        /\ [l EXCEPT !.cache = x].cache = x
        /\ [l EXCEPT !.cache = x].client = l.client
  OBVIOUS
<1>3. /\ InitCache(l, b, c) \in LibStates
      /\ InitCache(l, b, c).client = l.client
      /\ InitCache(l, b, c).cache =
           IF b = "memory" THEN Cold(b, c)
           ELSE IF b = NoBackend THEN NoCache ELSE l.cache
  BY <1>1, <1>2 DEF InitCache, InitCacheRc, Backends
<1>4. /\ InitCacheWithConfig(l, b, c) \in LibStates
      /\ InitCacheWithConfig(l, b, c).client = l.client
      /\ InitCacheWithConfig(l, b, c).cache =
           IF b \in {"memory", "redis"} \/ (b = "memcached" /\ c # NoServers)
           THEN Cold(b, c) ELSE NoCache
  BY <1>1, <1>2 DEF InitCacheWithConfig, InitCacheWithConfigRc, Backends
<1> QED
  BY <1>3, <1>4

(* A cache that has been set up has a name.                                *)
LEMMA ColdNamed ==
    ASSUME NEW b, NEW c
    PROVE  Cold(b, c).backend = b /\ Cold(b, c).conf = c /\ Cold(b, c).warm = FALSE
  BY DEF Cold

(* FreeCache leaves no cache and the client as it was.                     *)
LEMMA FreeCacheOperation ==
    ASSUME NEW l \in LibStates
    PROVE  /\ FreeCache(l) \in LibStates
           /\ FreeCache(l).client = l.client
           /\ FreeCache(l).cache = NoCache
<1>1. NoCache \in CacheStates
  BY DEF CacheStates, NoCache, Backends, Confs
<1> QED
  BY <1>1 DEF FreeCache, LibStates

(* Client calls leave the cache as it was.                                 *)
LEMMA ClientOperations ==
    ASSUME NEW l \in LibStates, NEW block \in BOOLEAN
    PROVE  /\ InitHTTPClient(l, block) \in LibStates
           /\ InitHTTPClient(l, block).cache = l.cache
           /\ InitHTTPClient(l, block).client = IF block THEN "blocking" ELSE "open"
           /\ FreeHTTPClient(l) \in LibStates
           /\ FreeHTTPClient(l).cache = l.cache
           /\ FreeHTTPClient(l).client = "none"
  BY DEF InitHTTPClient, FreeHTTPClient, LibStates, Clients

(* A parse marks the cache it uses as used and changes nothing else.       *)
LEMMA UsedOperation ==
    ASSUME NEW l \in LibStates
    PROVE  /\ Used(l) \in LibStates
           /\ Used(l).client = l.client
           /\ Used(l).cache.backend = l.cache.backend
           /\ Used(l).cache.conf = l.cache.conf
           /\ Used(l).cache.warm = (l.cache.backend # NoBackend)
           /\ l.cache = NoCache => Used(l).cache = NoCache
<1> DEFINE w == (l.cache.backend # NoBackend)
           x == [l.cache EXCEPT !.warm = w]
<1>1. l.cache \in CacheStates /\ NoCache \in CacheStates
  BY DEF LibStates, CacheStates, NoCache, Backends, Confs
<1>2. /\ x \in CacheStates
      /\ x.backend = l.cache.backend /\ x.conf = l.cache.conf
      /\ x.warm = w
      /\ l.cache = NoCache => x = NoCache
  <2>1. w \in BOOLEAN /\ (l.cache = NoCache => w = FALSE)
    BY DEF NoCache
  <2> HIDE DEF w
  <2>2. \A k \in CacheStates :
          /\ [k EXCEPT !.warm = w] \in CacheStates
          /\ [k EXCEPT !.warm = w].backend = k.backend
          /\ [k EXCEPT !.warm = w].conf = k.conf
          /\ [k EXCEPT !.warm = w].warm = w
    BY <2>1 DEF CacheStates
  <2>3. \A k \in CacheStates : /\ k.backend = NoCache.backend
                               /\ k.conf = NoCache.conf
                               /\ k.warm = NoCache.warm
                               => k = NoCache
    BY <1>1 DEF CacheStates
  <2>4. NoCache.warm = FALSE
    BY DEF NoCache
  <2> QED
    BY <1>1, <2>1, <2>2, <2>3, <2>4
<1>3. \A y \in CacheStates : /\ [l EXCEPT !.cache = y] \in LibStates
                             /\ [l EXCEPT !.cache = y].cache = y
                             /\ [l EXCEPT !.cache = y].client = l.client
  BY DEF LibStates
<1>4. Used(l) = [l EXCEPT !.cache = x]
  BY DEF Used
<1> HIDE DEF x
<1> QED
  BY <1>2, <1>3, <1>4

(* What a parse leaves behind: the library's cache and client are those it *)
(* was given, and the latest request records them.                         *)
LEMMA ParseEffect ==
    ASSUME NEW via, NEW q, NEW entry, NEW l \in LibStates,
           ParseThrough(via, q, entry, l)
    PROVE  /\ lib' \in LibStates
           /\ lib'.client = l.client
           /\ lib'.cache.backend = l.cache.backend
           /\ lib'.cache.conf = l.cache.conf
           /\ l.cache = NoCache => lib'.cache = NoCache
           /\ (l.cache.backend = NoBackend => l.cache = NoCache) => CacheShape'
           /\ last'.via = via /\ last'.request = q /\ last'.entry = entry
           /\ entry \in Entries => last'.cache = l.cache
           /\ entry \in Entries =>
                last'.client =
                  IF q # <<>> /\ q.bypass /\ entry \notin {"Parse", "ParseWithConfig"}
                  THEN "none" ELSE l.client
<1>1. last'.via = via /\ last'.request = q /\ last'.entry = entry
  BY DEF ParseThrough
<1>2. entry \in Entries =>
        /\ last'.cache = l.cache
        /\ last'.client =
             IF q # <<>> /\ q.bypass /\ entry \notin {"Parse", "ParseWithConfig"}
             THEN "none" ELSE l.client
  BY DEF ParseThrough, ClientOf
<1>3. lib' = Used(l) \/ lib' = l
  BY DEF ParseThrough
<1> QED
  BY <1>1, <1>2, <1>3, UsedOperation DEF CacheShape

----------------------------------------------------------------------------
(* nginx: setting up the cache of a request leaves the cache that was      *)
(* there, or one of that backend, or none when memcached has no servers;   *)
(* a library with both functions sets up every backend it knows.           *)
LEMMA NginxCacheInitEffect ==
    ASSUME lib \in LibStates, CacheShape, NEW q \in Requests, q.cache[1] # NoBackend
    PROVE  LET l == NginxCacheInit(q)
               new == \/ l.cache.backend = q.cache[1]
                      \/ l.cache = NoCache /\ q.cache[1] = "memcached"
           IN /\ l \in LibStates
              /\ l.cache.backend = NoBackend => l.cache = NoCache
              /\ l.cache = lib.cache \/ new
              /\ {"InitCache", "InitCacheWithConfig"} \subseteq symbols =>
                   new \/ q.cache[1] = "off"
<1> DEFINE b == q.cache[1]
           c == q.cache[2]
           l == NginxCacheInit(q)
<1>1. b \in {"memory", "redis", "memcached", "off"} /\ c \in Confs
  BY RequestType
<1>2. Cold(b, c).backend = b
  BY DEF Cold
<1>3. lib.cache.backend = NoBackend => lib.cache = NoCache
  BY DEF CacheShape
<1>4. CASE b \in {"memcached", "redis"}
  <2>1. l = IF Has("InitCacheWithConfig") THEN InitCacheWithConfig(lib, b, c) ELSE lib
    BY <1>4 DEF NginxCacheInit
  <2>2. /\ InitCacheWithConfig(lib, b, c) \in LibStates
        /\ InitCacheWithConfig(lib, b, c).cache =
             IF b = "redis" \/ c # NoServers THEN Cold(b, c) ELSE NoCache
    BY <1>1, <1>4, CacheOperations
  <2>3. {"InitCache", "InitCacheWithConfig"} \subseteq symbols =>
          Has("InitCacheWithConfig")
    BY DEF Has
  <2> HIDE DEF b, c, l
  <2>4. /\ l \in LibStates
        /\ l.cache.backend = NoBackend => l.cache = NoCache
        /\ \/ l.cache = lib.cache /\ ~Has("InitCacheWithConfig")
           \/ l.cache.backend = b
           \/ l.cache = NoCache /\ b = "memcached"
    BY <1>1, <1>2, <1>3, <1>4, <2>1, <2>2, NoBackendApart
  <2> QED
    BY <2>3, <2>4 DEF b, l
<1>5. CASE b \notin {"memcached", "redis"}
  <2>1. l = IF Has("InitCache") THEN InitCache(lib, b, c) ELSE lib
    BY <1>5 DEF NginxCacheInit
  <2>2. /\ InitCache(lib, b, c) \in LibStates
        /\ InitCache(lib, b, c).cache = IF b = "memory" THEN Cold(b, c) ELSE lib.cache
    BY <1>1, <1>5, CacheOperations
  <2>3. {"InitCache", "InitCacheWithConfig"} \subseteq symbols => Has("InitCache")
    BY DEF Has
  <2> HIDE DEF b, c, l
  <2>4. /\ l \in LibStates
        /\ l.cache.backend = NoBackend => l.cache = NoCache
        /\ \/ l.cache = lib.cache /\ (~Has("InitCache") \/ b = "off")
           \/ l.cache.backend = b
    BY <1>1, <1>2, <1>3, <1>5, <2>1, <2>2, NoBackendApart
  <2> QED
    BY <2>3, <2>4 DEF b, l
<1> QED
  BY <1>4, <1>5

(* nginx: a request finds the cache set up for its backend, or sets it up  *)
(* and notes that.                                                         *)
LEMMA NginxRequestInv ==
    ASSUME IInv, NginxRequest
    PROVE  IInv'
<1> USE NoBackendApart
<1>1. /\ server = "nginx" /\ up /\ UNCHANGED <<server, symbols, up>>
      /\ lib \in LibStates /\ memo \in Memos /\ CacheShape /\ NginxMemo
  BY DEF IInv, TypeOK, MemoInv, NginxRequest
<1>2. PICK q \in NginxRequests :
        IF NginxRefuses(q)
        THEN ParseThrough("nginx", q, "refused", lib) /\ UNCHANGED memo
        ELSE LET stale == NginxStale(q) IN
             /\ ParseThrough("nginx", q, NginxEntry(q),
                             IF stale THEN NginxCacheInit(q) ELSE lib)
             /\ memo' = IF stale THEN NginxRemember(q) ELSE memo
  BY DEF NginxRequest
<1>3. q \in Requests
  BY DEF NginxRequests
<1>4. CASE NginxRefuses(q)
  <2>1. ParseThrough("nginx", q, "refused", lib) /\ UNCHANGED memo
    BY <1>2, <1>4
  <2>2. "refused" \notin Entries
    BY DEF Entries
  <2>3. /\ lib' \in LibStates /\ CacheShape'
        /\ lib'.cache.backend = lib.cache.backend
        /\ lib.cache = NoCache => lib'.cache = NoCache
        /\ last'.via = "nginx" /\ last'.request = q /\ last'.entry = "refused"
    BY <1>1, <2>1, ParseEffect DEF CacheShape
  <2>4. TypeOK'
    BY <1>1, <1>3, <2>1, <2>3 DEF IInv, TypeOK
  <2>5. MemoInv'
    BY <1>1, <2>1, <2>2, <2>3
       DEF MemoInv, NginxMemo, ApacheMemo, PhpMemo, Parsed
  <2>6. FailsClosed' /\ CacheAsAsked' /\ ClientAsAsked'
    BY <2>2, <2>3 DEF FailsClosed, CacheAsAsked, ClientAsAsked, Parsed
  <2> QED
    BY <2>4, <2>5, <2>6 DEF IInv
<1>5. CASE ~NginxRefuses(q)
  <2> DEFINE l == IF NginxStale(q) THEN NginxCacheInit(q) ELSE lib
             m == IF NginxStale(q) THEN NginxRemember(q) ELSE memo
             both == {"InitCache", "InitCacheWithConfig"} \subseteq symbols
  <2>1. ParseThrough("nginx", q, NginxEntry(q), l) /\ memo' = m
    BY <1>2, <1>5
  <2>2. /\ m \in Memos
        /\ q.cache[1] # NoBackend => m.initialized /\ m.backend = q.cache[1]
        /\ q.cache[1] = NoBackend => m = memo
    BY <1>1, <1>3, RequestType DEF NginxStale, NginxRemember, Memos, Backends
  <2>3. /\ l \in LibStates
        /\ l.cache.backend = NoBackend => l.cache = NoCache
        /\ m.initialized /\ both /\ m.backend \in {"memory", "redis", "memcached"} =>
             \/ l.cache.backend = m.backend
             \/ l.cache = NoCache /\ m.backend = "memcached"
    <3>1. CASE ~NginxStale(q)
      BY <1>1, <3>1 DEF CacheShape, NginxMemo
    <3>2. CASE NginxStale(q)
      <4>1. q.cache[1] # NoBackend
        BY <1>3, <3>2, RequestType DEF NginxStale
      <4>2. m.backend = q.cache[1] /\ l = NginxCacheInit(q)
        BY <2>2, <3>2, <4>1
      <4> QED
        BY <1>1, <1>3, <4>1, <4>2, NginxCacheInitEffect
    <3> QED
      BY <3>1, <3>2
  <2> HIDE DEF l, m
  <2>4. /\ NginxEntry(q) \in Entries
        /\ NginxEntry(q) = "Parse" => ~q.hosts
    BY <1>5 DEF NginxEntry, Positional, Entries, NginxRefuses, Has
  <2>5. /\ lib' \in LibStates /\ CacheShape'
        /\ last'.via = "nginx" /\ last'.request = q /\ last'.entry = NginxEntry(q)
        /\ last'.cache = l.cache
        /\ lib'.cache.backend = l.cache.backend
        /\ l.cache = NoCache => lib'.cache = NoCache
    BY <2>1, <2>3, <2>4, ParseEffect
  <2>6. TypeOK'
    BY <1>1, <1>3, <2>1, <2>2, <2>4, <2>5 DEF IInv, TypeOK
  <2>7. MemoInv'
    BY <1>1, <2>1, <2>2, <2>3, <2>5
       DEF MemoInv, NginxMemo, ApacheMemo, PhpMemo, Parsed
  <2>8. FailsClosed' /\ ClientAsAsked'
    BY <2>4, <2>5 DEF FailsClosed, ClientAsAsked
  <2>9. CacheAsAsked'
    BY <1>1, <1>3, <2>2, <2>3, <2>5, RequestType DEF CacheAsAsked
  <2> QED
    BY <2>6, <2>7, <2>8, <2>9 DEF IInv
<1> QED
  BY <1>4, <1>5

(* The exits: the cache is freed with everything that was noted of it.     *)
LEMMA ExitInv ==
    ASSUME IInv, NginxExit \/ ApacheExit \/ PhpExit
    PROVE  IInv'
<1>1. lib \in LibStates /\ memo \in Memos
  BY DEF IInv, TypeOK
<1>2. /\ lib' \in LibStates /\ lib'.cache = NoCache
      /\ memo' \in Memos /\ up' = FALSE
      /\ UNCHANGED <<server, symbols, last>>
  <2>1. FreeCache(lib) \in LibStates /\ FreeCache(lib).cache = NoCache
    BY <1>1, FreeCacheOperation
  <2>2. /\ FreeCache(FreeHTTPClient(lib)) \in LibStates
        /\ FreeCache(FreeHTTPClient(lib)).cache = NoCache
    <3>1. FreeHTTPClient(lib) \in LibStates
      BY <1>1, ClientOperations
    <3> QED
      BY <3>1, FreeCacheOperation
  <2>3. memo' \in Memos
    <3>1. NoBackend \in Backends /\ -1 \in -1..2
      BY DEF Backends
    <3>2. CASE NginxExit
      BY <1>1, <3>1, <3>2 DEF NginxExit, Memos
    <3>3. CASE ApacheExit
      BY <1>1, <3>3 DEF ApacheExit, Memos
    <3>4. CASE PhpExit
      BY <1>1, <3>1, <3>4 DEF PhpExit, Memos
    <3> QED
      BY <3>2, <3>3, <3>4
  <2> QED
    BY <2>1, <2>2, <2>3 DEF NginxExit, ApacheExit, PhpExit
<1>3. TypeOK' /\ MemoInv'
  BY <1>2 DEF IInv, TypeOK, MemoInv, CacheShape, NginxMemo, ApacheMemo, PhpMemo
<1>4. FailsClosed' /\ CacheAsAsked' /\ ClientAsAsked'
  BY <1>2 DEF IInv, FailsClosed, CacheAsAsked, ClientAsAsked, Parsed
<1> QED
  BY <1>3, <1>4 DEF IInv

----------------------------------------------------------------------------
(* Apache: once the flag is up the cache is left alone; as long as it is   *)
(* down there is none, also after a configuration that was refused.        *)
LEMMA ApacheCacheEffect ==
    ASSUME lib \in LibStates, memo \in Memos, CacheShape,
           ~memo.initialized => lib.cache = NoCache,
           NEW q \in Requests
    PROVE  LET l == ApacheCache(q).lib
               flag == ApacheCache(q).flag
           IN /\ l \in LibStates /\ flag \in BOOLEAN
              /\ l.cache.backend = NoBackend => l.cache = NoCache
              /\ memo.initialized => l = lib /\ flag
              /\ ~flag => l.cache = NoCache
<1> DEFINE b == q.cache[1]
           c == q.cache[2]
           l == ApacheCache(q).lib
           flag == ApacheCache(q).flag
<1>1. b \in Backends \union {"off"} /\ c \in Confs
  BY RequestType DEF Backends
<1>2. lib.cache.backend = NoBackend => lib.cache = NoCache
  BY DEF CacheShape
<1>3. Cold(b, c).backend = b
  BY DEF Cold
<1>4. CASE b = NoBackend \/ memo.initialized
  <2>1. l = lib /\ flag = memo.initialized
    BY <1>4 DEF ApacheCache
  <2> QED
    BY <1>2, <2>1 DEF Memos
<1>5. CASE b # NoBackend /\ ~memo.initialized /\ ~Has(ApacheSymbol(q))
  <2>1. l = lib /\ flag = TRUE
    BY <1>5 DEF ApacheCache
  <2> QED
    BY <1>2, <1>5, <2>1
<1>6. CASE b # NoBackend /\ ~memo.initialized /\ Has(ApacheSymbol(q))
  <2>1. CASE b \in {"redis", "memcached"}
    <3>1. /\ l = InitCacheWithConfig(lib, b, c)
          /\ flag = (InitCacheWithConfigRc(b, c) = 0)
      BY <1>6, <2>1 DEF ApacheCache, ApacheSymbol
    <3>2. /\ l \in LibStates
          /\ l.cache = IF b = "redis" \/ c # NoServers THEN Cold(b, c) ELSE NoCache
      BY <1>1, <2>1, <3>1, CacheOperations
    <3>3. flag \in BOOLEAN /\ (flag <=> b = "redis" \/ c # NoServers)
      <4>1. (InitCacheWithConfigRc(b, c) = 0) <=> (b = "redis" \/ c # NoServers)
        BY <1>6, <2>1 DEF InitCacheWithConfigRc
      <4> HIDE DEF b, c, flag
      <4> QED
        BY <3>1, <4>1
    <3> HIDE DEF l, flag, b, c
    <3> QED
      BY <1>3, <1>6, <3>2, <3>3 DEF l, flag
  <2>2. CASE b \notin {"redis", "memcached"}
    <3>1. l = InitCache(lib, b, c) /\ flag = (InitCacheRc(b) = 0)
      BY <1>6, <2>2 DEF ApacheCache, ApacheSymbol
    <3>2. /\ l \in LibStates
          /\ l.cache = IF b = "memory" THEN Cold(b, c) ELSE lib.cache
      BY <1>1, <1>6, <3>1, CacheOperations
    <3>3. flag = (b = "memory")
      BY <1>6, <3>1 DEF InitCacheRc
    <3> HIDE DEF l, flag, b, c
    <3> QED
      BY <1>2, <1>3, <1>6, <3>2, <3>3 DEF l, flag
  <2> QED
    BY <2>1, <2>2
<1> QED
  BY <1>4, <1>5, <1>6

(* Apache: setting up the client leaves the cache alone.                   *)
LEMMA ApacheClientEffect ==
    ASSUME memo \in Memos, NEW q \in Requests, NEW l \in LibStates
    PROVE  /\ ApacheClient(q, l).lib \in LibStates
           /\ ApacheClient(q, l).lib.cache = l.cache
           /\ ApacheClient(q, l).flag \in BOOLEAN
<1>1. (q.block # "off") \in BOOLEAN
  OBVIOUS
<1>2. /\ InitHTTPClient(l, q.block # "off") \in LibStates
      /\ InitHTTPClient(l, q.block # "off").cache = l.cache
  BY <1>1, ClientOperations
<1> QED
  BY <1>2 DEF ApacheClient, Memos

(* An Apache request sets cache and client up at most once.                *)
LEMMA ApacheRequestInv ==
    ASSUME IInv, ApacheRequest
    PROVE  IInv'
<1>1. /\ server = "apache" /\ up /\ UNCHANGED <<server, symbols, up>>
      /\ lib \in LibStates /\ memo \in Memos /\ CacheShape
      /\ ~memo.initialized => lib.cache = NoCache
  BY DEF IInv, TypeOK, MemoInv, ApacheMemo, ApacheRequest
<1>2. PICK q \in ApacheRequests :
        LET cache == ApacheCache(q)
            client == ApacheClient(q, cache.lib)
        IN /\ ParseThrough("apache", q, ApacheEntry(q), client.lib)
           /\ memo' = [memo EXCEPT !.initialized = cache.flag,
                                   !.shared = client.flag]
  BY DEF ApacheRequest
<1>3. q \in Requests
  BY DEF ApacheRequests
<1> DEFINE k == ApacheCache(q)
           l == ApacheClient(q, k.lib).lib
<1>4. /\ k.lib \in LibStates /\ k.flag \in BOOLEAN
      /\ k.lib.cache.backend = NoBackend => k.lib.cache = NoCache
      /\ ~k.flag => k.lib.cache = NoCache
  BY <1>1, <1>3, ApacheCacheEffect
<1>5. /\ l \in LibStates /\ l.cache = k.lib.cache
      /\ ApacheClient(q, k.lib).flag \in BOOLEAN
  BY <1>1, <1>3, <1>4, ApacheClientEffect
<1>6. memo' \in Memos /\ memo'.initialized = k.flag
  BY <1>1, <1>2, <1>4, <1>5 DEF Memos
<1>7. /\ ApacheEntry(q) \in Entries \union {"raw"}
      /\ ApacheEntry(q) = "Parse" => ~q.hosts /\ q.block # "on"
  BY DEF ApacheEntry, Positional, Entries
<1>8. /\ lib' \in LibStates /\ CacheShape'
      /\ l.cache = NoCache => lib'.cache = NoCache
      /\ last'.via = "apache" /\ last'.request = q /\ last'.entry = ApacheEntry(q)
  <2> HIDE DEF k, l
  <2>1. ParseThrough("apache", q, ApacheEntry(q), l)
    BY <1>2 DEF k, l
  <2> QED
    BY <1>4, <1>5, <2>1, ParseEffect
<1> HIDE DEF k, l
<1>9. TypeOK'
  BY <1>1, <1>3, <1>6, <1>7, <1>8 DEF IInv, TypeOK
<1>10. MemoInv'
  BY <1>1, <1>4, <1>5, <1>6, <1>8 DEF MemoInv, NginxMemo, ApacheMemo, PhpMemo
<1>11. FailsClosed' /\ CacheAsAsked' /\ ClientAsAsked'
  BY <1>7, <1>8 DEF FailsClosed, CacheAsAsked, ClientAsAsked
<1> QED
  BY <1>9, <1>10, <1>11 DEF IInv

----------------------------------------------------------------------------
(* PHP: after the set-up of a call the library has the cache the call asks *)
(* for; a cache that matched already is left alone.                        *)
LEMMA PhpCacheEffect ==
    ASSUME lib \in LibStates, memo \in Memos, CacheShape, server = "php", up, PhpMemo,
           NEW q \in PhpRequests
    PROVE  LET l == IF cache_state_matches(q) THEN lib
                    ELSE InitCacheWithConfig(lib, q.cache[1], q.cache[2])
           IN /\ l \in LibStates /\ l.client = lib.client
              /\ l.cache.backend = NoBackend => l.cache = NoCache
              /\ l.cache.backend = q.cache[1]
              /\ q.cache[1] # NoBackend => l.cache.conf = q.cache[2]
<1> DEFINE b == q.cache[1]
           c == q.cache[2]
<1>1. /\ q \in Requests
      /\ q.cache # <<"off", 1>> /\ q.cache # <<"memcached", NoServers>>
  BY DEF PhpRequests
<1>2. c \in Confs /\ c # -1
  BY <1>1, RequestType DEF Confs
<1>3. /\ b \in {NoBackend, "memory", "redis", "memcached"}
      /\ b = "memcached" => c # NoServers
  <2>1. q.cache \in Caches
    BY <1>1 DEF Requests
  <2> QED
    BY <1>1, <2>1, NoBackendApart DEF Caches
<1> HIDE DEF b, c
<1>4. Cold(b, c).backend = b /\ Cold(b, c).conf = c
  BY DEF Cold
<1>5. NoCache.backend = NoBackend
  BY DEF NoCache
<1>6. lib.cache.backend = NoBackend => lib.cache = NoCache
  BY DEF CacheShape
<1>7. CASE cache_state_matches(q)
  BY <1>2, <1>6, <1>7 DEF cache_state_matches, PhpMemo, b, c
<1>8. CASE ~cache_state_matches(q)
  <2> DEFINE l == InitCacheWithConfig(lib, b, c)
  <2>1. /\ l \in LibStates /\ l.client = lib.client
        /\ l.cache = IF b = NoBackend THEN NoCache ELSE Cold(b, c)
    BY <1>2, <1>3, CacheOperations, NoBackendApart
  <2> HIDE DEF l
  <2>2. /\ l.cache.backend = NoBackend => l.cache = NoCache
        /\ l.cache.backend = b
        /\ b # NoBackend => l.cache.conf = c
    BY <1>4, <1>5, <2>1
  <2> QED
    BY <1>8, <2>1, <2>2 DEF b, c, l
<1> QED
  BY <1>7, <1>8

(* PHP: after the set-up of a call the library has the shared client the   *)
(* call asks for, or none.                                                 *)
LEMMA PhpClientEffect ==
    ASSUME memo \in Memos, NEW q \in Requests, NEW l \in LibStates,
           l.client = IF ~memo.shared THEN "none"
                      ELSE IF memo.block THEN "blocking" ELSE "open"
    PROVE  /\ PhpClient(q, l) \in LibStates
           /\ PhpClient(q, l).cache = l.cache
           /\ PhpClient(q, l).client =
                IF ~q.shared THEN "none"
                ELSE IF PhpBlock(q) THEN "blocking" ELSE "open"
<1>1. PhpBlock(q) \in BOOLEAN
  BY DEF PhpBlock
<1>2. /\ InitHTTPClient(l, PhpBlock(q)) \in LibStates
      /\ InitHTTPClient(l, PhpBlock(q)).cache = l.cache
      /\ InitHTTPClient(l, PhpBlock(q)).client =
           IF PhpBlock(q) THEN "blocking" ELSE "open"
      /\ FreeHTTPClient(l) \in LibStates
      /\ FreeHTTPClient(l).cache = l.cache /\ FreeHTTPClient(l).client = "none"
  BY <1>1, ClientOperations
<1> QED
  BY <1>1, <1>2 DEF PhpClient, Memos

(* A parse_with_config call makes memory and library agree again.          *)
LEMMA PhpParseWithConfigInv ==
    ASSUME IInv, PhpParseWithConfig
    PROVE  IInv'
<1>1. /\ server = "php" /\ up /\ UNCHANGED <<server, symbols, up>>
      /\ lib \in LibStates /\ memo \in Memos /\ CacheShape /\ PhpMemo
  BY DEF IInv, TypeOK, MemoInv, PhpParseWithConfig
<1>2. PICK q \in PhpRequests :
        LET cached == IF cache_state_matches(q) THEN lib
                      ELSE InitCacheWithConfig(lib, q.cache[1], q.cache[2])
        IN /\ ParseThrough("parse_with_config", q, PhpEntry(q), PhpClient(q, cached))
           /\ memo' = [memo EXCEPT
                         !.backend = q.cache[1], !.conf = q.cache[2],
                         !.shared = q.shared,
                         !.block = IF q.shared THEN PhpBlock(q) ELSE @]
  BY DEF PhpParseWithConfig
<1>3. q \in Requests
  BY DEF PhpRequests
<1> DEFINE k == IF cache_state_matches(q) THEN lib
                ELSE InitCacheWithConfig(lib, q.cache[1], q.cache[2])
           l == PhpClient(q, k)
<1>4. /\ k \in LibStates /\ k.client = lib.client
      /\ k.cache.backend = NoBackend => k.cache = NoCache
      /\ k.cache.backend = q.cache[1]
      /\ q.cache[1] # NoBackend => k.cache.conf = q.cache[2]
  BY <1>1, PhpCacheEffect
<1>5. ParseThrough("parse_with_config", q, PhpEntry(q), l)
  BY <1>2
<1>6. /\ memo' \in Memos
      /\ memo'.backend = q.cache[1] /\ memo'.conf = q.cache[2]
      /\ memo'.shared = q.shared
      /\ q.shared => memo'.block = PhpBlock(q)
  <2>1. /\ q.cache[1] \in Backends \union {"off"} /\ q.cache[2] \in -1..2
        /\ q.shared \in BOOLEAN
    BY <1>3, RequestType DEF Backends, Confs
  <2>2. PhpBlock(q) \in BOOLEAN
    BY DEF PhpBlock
  <2>3. memo' = [memo EXCEPT
                   !.backend = q.cache[1], !.conf = q.cache[2],
                   !.shared = q.shared,
                   !.block = IF q.shared THEN PhpBlock(q) ELSE @]
    BY <1>2
  <2> QED
    BY <1>1, <2>1, <2>2, <2>3 DEF Memos
<1> HIDE DEF k
<1>7. /\ l \in LibStates /\ l.cache = k.cache
      /\ l.client = IF ~q.shared THEN "none"
                    ELSE IF PhpBlock(q) THEN "blocking" ELSE "open"
  BY <1>1, <1>3, <1>4, PhpClientEffect DEF PhpMemo
<1>8. PhpEntry(q) \in Entries \ {"Parse", "ParseWithConfig"}
  BY DEF PhpEntry, Entries
<1> HIDE DEF l
<1>9. /\ lib' \in LibStates /\ CacheShape'
      /\ lib'.client = l.client
      /\ lib'.cache.backend = l.cache.backend /\ lib'.cache.conf = l.cache.conf
      /\ last'.via = "parse_with_config"
      /\ last'.request = q /\ last'.entry = PhpEntry(q)
      /\ last'.cache = l.cache
      /\ last'.client = IF q.bypass THEN "none" ELSE l.client
  BY <1>3, <1>4, <1>5, <1>7, <1>8, ParseEffect, RequestType
<1>10. TypeOK'
  BY <1>1, <1>3, <1>6, <1>8, <1>9 DEF IInv, TypeOK
<1>11. MemoInv'
  <2>1. q.cache[2] # -1
    BY <1>3, RequestType DEF Confs
  <2> QED
    BY <1>1, <1>4, <1>6, <1>7, <1>9, <2>1 DEF MemoInv, NginxMemo, ApacheMemo, PhpMemo
<1>12. FailsClosed' /\ CacheAsAsked'
  BY <1>4, <1>7, <1>8, <1>9 DEF FailsClosed, CacheAsAsked
<1>13. ClientAsAsked'
  BY <1>7, <1>9 DEF ClientAsAsked
<1> QED
  BY <1>10, <1>11, <1>12, <1>13 DEF IInv

(* A legacy parse call uses what is there and changes none of it.          *)
LEMMA PhpParseInv ==
    ASSUME IInv, PhpParse
    PROVE  IInv'
<1>1. /\ server = "php" /\ up /\ UNCHANGED <<server, symbols, up, memo>>
      /\ lib \in LibStates /\ CacheShape /\ PhpMemo
      /\ ParseThrough("parse", <<>>, "Parse", lib)
  BY DEF IInv, TypeOK, MemoInv, PhpParse
<1>2. "Parse" \in Entries
  BY DEF Entries
<1>3. /\ lib' \in LibStates /\ CacheShape'
      /\ lib'.client = lib.client
      /\ lib'.cache.backend = lib.cache.backend /\ lib'.cache.conf = lib.cache.conf
      /\ lib.cache = NoCache => lib'.cache = NoCache
      /\ last'.via = "parse" /\ last'.request = <<>> /\ last'.entry = "Parse"
  BY <1>1, ParseEffect DEF CacheShape
<1>4. TypeOK'
  BY <1>1, <1>2, <1>3 DEF IInv, TypeOK
<1>5. MemoInv'
  BY <1>1, <1>3 DEF MemoInv, NginxMemo, ApacheMemo, PhpMemo
<1>6. FailsClosed' /\ CacheAsAsked' /\ ClientAsAsked'
  BY <1>3 DEF FailsClosed, CacheAsAsked, ClientAsAsked
<1> QED
  BY <1>4, <1>5, <1>6 DEF IInv

----------------------------------------------------------------------------
(* In every state of a worker its memory describes the library: the        *)
(* inductive invariant holds for every set of libraries.                   *)
THEOREM WorkerInvariant == Spec => []IInv
<1>1. Init => IInv
  <2> SUFFICES ASSUME Init
               PROVE  IInv
    OBVIOUS
  <2>1. /\ Unused \in LibStates /\ Unused.cache = NoCache /\ Unused.client = "none"
    BY DEF Unused, LibStates, CacheStates, NoCache, Backends, Confs, Clients
  <2>2. /\ lib \in LibStates /\ lib.cache = NoCache
        /\ server = "php" => lib.client = "open"
    BY <2>1, ClientOperations DEF Init
  <2>3. memo \in Memos /\ memo.initialized = FALSE /\ memo.block = FALSE
        /\ memo.conf = -1 /\ memo.shared = (server = "php")
    BY DEF Init, Memos, Backends
  <2>4. last = Nothing /\ last.entry = "none" /\ last.via = "none"
    BY DEF Init, Nothing
  <2>5. TypeOK
    BY <2>2, <2>3, <2>4 DEF Init, TypeOK
  <2>6. ~Parsed
    BY <2>4 DEF Parsed, Entries
  <2>7. MemoInv
    BY <2>2, <2>3, <2>6 DEF MemoInv, CacheShape, NginxMemo, ApacheMemo, PhpMemo
  <2> QED
    BY <2>4, <2>5, <2>6, <2>7 DEF IInv, FailsClosed, CacheAsAsked, ClientAsAsked
<1>2. IInv /\ [Next]_vars => IInv'
  <2> SUFFICES ASSUME IInv, [Next]_vars
               PROVE  IInv'
    OBVIOUS
  <2>1. CASE NginxRequest
    BY <2>1, NginxRequestInv
  <2>2. CASE ApacheRequest
    BY <2>2, ApacheRequestInv
  <2>3. CASE PhpParseWithConfig
    BY <2>3, PhpParseWithConfigInv
  <2>4. CASE PhpParse
    BY <2>4, PhpParseInv
  <2>5. CASE NginxExit \/ ApacheExit \/ PhpExit
    BY <2>5, ExitInv
  <2>6. CASE UNCHANGED vars
    BY <2>6 DEF vars, IInv, TypeOK, MemoInv, CacheShape, NginxMemo, ApacheMemo,
                PhpMemo, FailsClosed, CacheAsAsked, ClientAsAsked, Parsed
  <2> QED
    BY <2>1, <2>2, <2>3, <2>4, <2>5, <2>6 DEF Next
<1> QED
  BY <1>1, <1>2, PTL DEF Spec

(* The types are kept, whatever the library exports.                       *)
THEOREM TypeCorrect == Spec => []TypeOK
  BY WorkerInvariant, PTL DEF IInv

(* A request with an allowlist, or in Apache with blocking switched on, is *)
(* never parsed through an entry point that ignores it: for every set of   *)
(* symbols a library may export, not only the releases.                    *)
THEOREM FailsClosedAlways == Spec => []FailsClosed
  BY WorkerInvariant, PTL DEF IInv

(* A request is parsed with the cache it asks for, in PHP after any        *)
(* sequence of calls, in nginx with any library that has both functions.   *)
THEOREM CacheAsAskedAlways == Spec => []CacheAsAsked
  BY WorkerInvariant, PTL DEF IInv

(* parse_with_config fetches through the client it asks for, whatever      *)
(* client earlier calls have attached.                                     *)
THEOREM ClientAsAskedAlways == Spec => []ClientAsAsked
  BY WorkerInvariant, PTL DEF IInv

----------------------------------------------------------------------------
(* A warm cache exists.                                                    *)
LEMMA WarmNamed ==
    ASSUME CacheShape, lib.cache.warm
    PROVE  lib.cache.backend # NoBackend /\ lib.cache # NoCache
  BY DEF CacheShape, NoCache

(* Nothing but a request that asks for other settings makes a worker start *)
(* a cache anew: the latest request and what was noted of it agree.        *)
THEOREM CacheStableAlways == Spec => CacheStable
<1> DEFINE old == lib.cache
           used == last'.cache
           asked == Parsed /\ last.request.cache[1] = old.backend
           Stable == old.warm /\ up' /\ Parsed' =>
             /\ server = "apache" => used = old
             /\ /\ server = "nginx" => asked
                /\ <<used.backend, used.conf>> = <<old.backend, old.conf>>
                => used.warm
<1>1. IInv /\ [Next]_vars => [Stable]_vars
  <2> SUFFICES ASSUME IInv, Next, old.warm, up', Parsed'
               PROVE  /\ server = "apache" => used = old
                      /\ /\ server = "nginx" => asked
                         /\ <<used.backend, used.conf>> = <<old.backend, old.conf>>
                         => used.warm
    OBVIOUS
  <2>0. /\ lib \in LibStates /\ memo \in Memos /\ CacheShape
        /\ NginxMemo /\ ApacheMemo /\ PhpMemo
        /\ old.backend # NoBackend /\ old # NoCache
    BY WarmNamed DEF IInv, TypeOK, MemoInv
  <2>1. CASE NginxRequest
    <3>1. PICK q \in NginxRequests :
            IF NginxRefuses(q)
            THEN ParseThrough("nginx", q, "refused", lib) /\ UNCHANGED memo
            ELSE LET stale == NginxStale(q) IN
                 /\ ParseThrough("nginx", q, NginxEntry(q),
                                 IF stale THEN NginxCacheInit(q) ELSE lib)
                 /\ memo' = IF stale THEN NginxRemember(q) ELSE memo
      BY <2>1 DEF NginxRequest
    <3>2. q \in Requests /\ "refused" \notin Entries
      BY DEF NginxRequests, Entries
    <3>3. ~NginxRefuses(q)
      BY <2>0, <3>1, <3>2, ParseEffect DEF Parsed
    <3> DEFINE l == IF NginxStale(q) THEN NginxCacheInit(q) ELSE lib
    <3>4. l \in LibStates
      BY <2>0, <3>2, NginxCacheInitEffect DEF NginxStale
    <3>5. used = l.cache
      <4>1. ParseThrough("nginx", q, NginxEntry(q), l)
        BY <3>1, <3>3
      <4> HIDE DEF l
      <4> QED
        BY <3>4, <4>1, ParseEffect DEF Parsed
    <3>6. server = "nginx" /\ up
      BY <2>1 DEF NginxRequest
    <3>7. ASSUME asked, used.backend = old.backend
          PROVE  used = old
      <4>1. memo.initialized /\ memo.backend = old.backend
        BY <2>0, <3>6, <3>7 DEF NginxMemo
      <4>2. CASE NginxStale(q)
        <5>1. q.cache[1] # NoBackend /\ q.cache[1] # old.backend
          BY <4>1, <4>2 DEF NginxStale
        <5>2. /\ l = NginxCacheInit(q)
              /\ l.cache = old \/ l.cache.backend = q.cache[1] \/ l.cache = NoCache
          BY <2>0, <3>2, <4>2, <5>1, NginxCacheInitEffect
        <5> HIDE DEF l
        <5>3. NoCache.backend = NoBackend
          BY DEF NoCache
        <5> QED
          BY <2>0, <3>5, <3>7, <5>1, <5>2, <5>3
      <4>3. CASE ~NginxStale(q)
        BY <3>5, <4>3
      <4> QED
        BY <4>2, <4>3
    <3> QED
      BY <3>6, <3>7
  <2>2. CASE ApacheRequest
    <3>1. PICK q \in ApacheRequests :
            ParseThrough("apache", q, ApacheEntry(q),
                         ApacheClient(q, ApacheCache(q).lib).lib)
      BY <2>2 DEF ApacheRequest
    <3>2. q \in Requests /\ server = "apache" /\ up
      BY <2>2 DEF ApacheRequests, ApacheRequest
    <3>3. memo.initialized
      BY <2>0, <3>2 DEF ApacheMemo
    <3>4. ApacheCache(q).lib = lib
      BY <2>0, <3>2, <3>3, ApacheCacheEffect DEF ApacheMemo
    <3> DEFINE l == ApacheClient(q, lib).lib
    <3>5. l \in LibStates /\ l.cache = old
      BY <2>0, <3>2, ApacheClientEffect
    <3>6. ParseThrough("apache", q, ApacheEntry(q), l)
      BY <3>1, <3>4
    <3> HIDE DEF l
    <3>7. used = old
      BY <3>5, <3>6, ParseEffect DEF Parsed
    <3> QED
      BY <3>2, <3>7
  <2>3. CASE PhpParseWithConfig
    <3>1. PICK q \in PhpRequests :
            ParseThrough("parse_with_config", q, PhpEntry(q),
                         PhpClient(q, IF cache_state_matches(q) THEN lib
                             ELSE InitCacheWithConfig(lib, q.cache[1], q.cache[2])))
      BY <2>3 DEF PhpParseWithConfig
    <3>2. q \in Requests /\ server = "php" /\ up
      BY <2>3 DEF PhpRequests, PhpParseWithConfig
    <3> DEFINE k == IF cache_state_matches(q) THEN lib
                    ELSE InitCacheWithConfig(lib, q.cache[1], q.cache[2])
               l == PhpClient(q, k)
    <3>3. /\ k \in LibStates /\ k.client = lib.client
          /\ k.cache.backend = q.cache[1]
          /\ q.cache[1] # NoBackend => k.cache.conf = q.cache[2]
      BY <2>0, <3>2, PhpCacheEffect
    <3>4. l \in LibStates /\ l.cache = k.cache
      <4> HIDE DEF k
      <4> QED
        BY <2>0, <3>2, <3>3, PhpClientEffect DEF PhpMemo
    <3>5. used = k.cache
      <4>1. ParseThrough("parse_with_config", q, PhpEntry(q), l)
        BY <3>1
      <4> HIDE DEF k, l
      <4> QED
        BY <3>4, <4>1, ParseEffect DEF Parsed
    <3>6. ASSUME used.backend = old.backend, used.conf = old.conf
          PROVE  used = old
      <4>1. q.cache[1] = old.backend /\ q.cache[2] = old.conf
        BY <2>0, <3>3, <3>5, <3>6
      <4>2. memo.backend = old.backend /\ memo.conf = old.conf
        BY <2>0, <3>2 DEF PhpMemo
      <4> QED
        BY <3>5, <4>1, <4>2 DEF cache_state_matches
    <3> QED
      BY <3>2, <3>6
  <2>4. CASE PhpParse
    <3>1. server = "php" /\ ParseThrough("parse", <<>>, "Parse", lib)
      BY <2>4 DEF PhpParse
    <3>2. used = old
      BY <2>0, <3>1, ParseEffect DEF Parsed
    <3> QED
      BY <3>1, <3>2
  <2>5. CASE NginxExit \/ ApacheExit \/ PhpExit
    BY <2>5 DEF NginxExit, ApacheExit, PhpExit
  <2> QED
    BY <2>1, <2>2, <2>3, <2>4, <2>5 DEF Next
<1>2. [][Stable]_vars => CacheStable
  BY DEF CacheStable
<1> HIDE DEF Stable
<1> QED
  BY <1>1, <1>2, WorkerInvariant, PTL DEF Spec

============================================================================
