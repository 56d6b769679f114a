------------------------------- MODULE Worker -------------------------------
(***************************************************************************)
(* One single-threaded process of a server that loads libgomesi: an nginx  *)
(* worker, a prefork Apache child or a PHP process.  Each remembers, in    *)
(* variables of its own, what it has set up in the library, and decides    *)
(* from them and from the request's configuration what to set up anew and  *)
(* which entry point to call.                                              *)
(*                                                                         *)
(* A request is its configuration: the location's, the virtual host's, or  *)
(* the array given to parse_with_config.                                   *)
(***************************************************************************)
EXTENDS LibGomesi

CONSTANTS Libraries   \* the sets of optional symbols a libgomesi may export

Symbols == {"ParseWithConfig", "ParseWithConfigEx", "ParseWithConfigCtx",
            "ParseJson", "InitCache", "InitCacheWithConfig", "InitHTTPClient"}

ASSUME LibraryAssumption == Libraries \subseteq SUBSET Symbols

VARIABLES
    server,   \* which of the three it is
    symbols,  \* what its library exports
    up,       \* the process is running
    lib,      \* the library's state
    memo,     \* what the integration remembers of it
    last      \* the latest request and what was done with it

vars == <<server, symbols, up, lib, memo, last>>

Servers == {"nginx", "apache", "php"}

(* cache_initialized, cache_last_backend (nginx), g_cache_state (php),     *)
(* http_client_initialized (apache) resp. g_http_shared_client (php), and  *)
(* g_http_block_private_ips.                                               *)
Memos == [initialized : BOOLEAN, backend : Backends \union {"off"},
          conf : -1..2, shared : BOOLEAN, block : BOOLEAN]

(* Backends with their settings.  nginx takes mesi_cache_backend as it     *)
(* stands, so that "off" is a value like another.                          *)
Caches == {<<NoBackend, 1>>, <<"memory", 1>>, <<"memory", 2>>, <<"redis", 1>>,
           <<"memcached", 1>>, <<"memcached", NoServers>>}

Requests ==
    [cache : Caches \union {<<"off", 1>>},
     hosts : BOOLEAN,                     \* allowed hosts are configured
     block : {"unset", "on", "off"},      \* blocking of private addresses
     bypass : BOOLEAN,                    \* ... except for allowed hosts
     shared : BOOLEAN,                    \* shared HTTP client
     route : {"plain", "template", "json"}]

NginxRequests == {q \in Requests : q.block = "unset" /\ ~q.shared}
ApacheRequests == {q \in Requests : q.cache[1] # "off"}
PhpRequests == {q \in Requests :
                  q.cache \notin {<<"off", 1>>, <<"memcached", NoServers>>}}

Entries == {"Parse", "ParseWithConfig", "ParseWithConfigEx",
            "ParseWithConfigCtx", "ParseJson"}

Nothing == [via |-> "none", request |-> <<>>, entry |-> "none",
            cache |-> NoCache, client |-> "none"]

TypeOK ==
    /\ server \in Servers
    /\ symbols \in Libraries
    /\ up \in BOOLEAN
    /\ lib \in LibStates
    /\ memo \in Memos
    /\ last = Nothing \/ last.request \in Requests \union {<<>>}
    /\ last.entry \in Entries \union {"none", "refused", "raw"}

(* nginx and Apache start with nothing set up, PHP with a shared client    *)
(* that does not block (MINIT), a state that matches no cache, and the     *)
(* symbols it is linked against.                                           *)
Init ==
    /\ server \in Servers
    /\ symbols \in Libraries
    /\ server = "php" => Symbols \ {"ParseJson"} \subseteq symbols
    /\ up = TRUE
    /\ lib = IF server = "php" THEN InitHTTPClient(Unused, FALSE) ELSE Unused
    /\ memo = [initialized |-> FALSE, backend |-> NoBackend, conf |-> -1,
               shared |-> server = "php", block |-> FALSE]
    /\ last = Nothing

Has(symbol) == symbol \in symbols

----------------------------------------------------------------------------
(* Which entry point of the library a request takes.                       *)

(* The positional entry points, from the newest to the oldest.  (Should    *)
(* ParseWithConfigCtx return NULL, nginx goes on to ParseWithConfigEx with *)
(* the same settings, which returns NULL for the same reason.)             *)
Positional(q) ==
    IF q.route = "template" /\ Has("ParseWithConfigCtx") THEN "ParseWithConfigCtx"
    ELSE IF Has("ParseWithConfigEx") THEN "ParseWithConfigEx"
    ELSE IF Has("ParseWithConfig") THEN "ParseWithConfig"
    ELSE "Parse"

(* nginx refuses allowed hosts it cannot enforce, in the header filter     *)
(* already, before anything is set up.                                     *)
NginxRefuses(q) == q.hosts /\ ~Has("ParseWithConfig")

NginxEntry(q) ==
    IF q.route = "json" /\ Has("ParseJson") THEN "ParseJson" ELSE Positional(q)

(* Mutant of ApacheEntry: the security directives are not looked at.       *)
ApacheEntryOpen(q) ==
    IF symbols = {} THEN "raw"
    ELSE IF q.route = "json" /\ Has("ParseJson") THEN "ParseJson"
    ELSE Positional(q)

(* Apache sends the page unparsed when a directive set by the operator     *)
(* could not be enforced, and when there is no library.                    *)
ApacheEntry(q) ==
    IF symbols = {} THEN "raw"
    ELSE IF q.route = "json" /\ Has("ParseJson") THEN "ParseJson"
    ELSE IF Positional(q) = "Parse" /\ (q.hosts \/ q.block = "on") THEN "raw"
    ELSE Positional(q)

PhpEntry(q) ==
    IF q.route = "json" /\ Has("ParseJson") THEN "ParseJson"
    ELSE "ParseWithConfigCtx"

(* The parse itself: with the library's state l, through the entry point.  *)
(* A parse may fail (NULL), which the client sees as an empty answer, a    *)
(* 500 or false; the library has been used all the same.                   *)
ParseThrough(via, q, entry, l) ==
    LET parsed == entry \in Entries
        bypass == q # <<>> /\ q.bypass /\ entry \notin {"Parse", "ParseWithConfig"}
    IN /\ lib' = IF parsed THEN Used(l) ELSE l
       /\ last' = [via |-> via, request |-> q, entry |-> entry,
                   cache |-> IF parsed THEN l.cache ELSE NoCache,
                   client |-> IF parsed THEN ClientOf(l, bypass) ELSE "none"]

----------------------------------------------------------------------------
(* nginx: parse().                                                         *)

(* Mutant of NginxStale: whatever has been set up first serves everyone.   *)
NginxStaleFirst(q) == q.cache[1] # NoBackend /\ ~memo.initialized

(* The cache is set up anew when the name of the backend has changed.      *)
NginxStale(q) ==
    q.cache[1] # NoBackend /\ (~memo.initialized \/ memo.backend # q.cache[1])

NginxCacheInit(q) ==
    LET b == q.cache[1]
        c == q.cache[2]
    IN IF b \in {"memcached", "redis"}
       THEN IF Has("InitCacheWithConfig") THEN InitCacheWithConfig(lib, b, c)
            ELSE lib
       ELSE IF Has("InitCache") THEN InitCache(lib, b, c) ELSE lib

(* Mutant of NginxRemember: the backend is not noted.                      *)
NginxForgets(q) == [memo EXCEPT !.initialized = TRUE]

(* Noted whether or not the set-up succeeded.                              *)
NginxRemember(q) == [memo EXCEPT !.initialized = TRUE, !.backend = q.cache[1]]

NginxRequest ==
    /\ server = "nginx" /\ up
    /\ \E q \in NginxRequests :
         IF NginxRefuses(q)
         THEN ParseThrough("nginx", q, "refused", lib) /\ UNCHANGED memo
         ELSE LET stale == NginxStale(q) IN
              /\ ParseThrough("nginx", q, NginxEntry(q),
                              IF stale THEN NginxCacheInit(q) ELSE lib)
              /\ memo' = IF stale THEN NginxRemember(q) ELSE memo
    /\ UNCHANGED <<server, symbols, up>>

(* thread_exit.                                                            *)
NginxExit ==
    /\ server = "nginx" /\ up
    /\ lib' = FreeCache(lib)
    /\ memo' = [memo EXCEPT !.initialized = FALSE, !.backend = NoBackend]
    /\ up' = FALSE
    /\ UNCHANGED <<server, symbols, last>>

----------------------------------------------------------------------------
(* Apache: the part of mesi_response_filter from the complete page on.     *)

ApacheSymbol(q) ==
    IF q.cache[1] \in {"redis", "memcached"} THEN "InitCacheWithConfig"
    ELSE "InitCache"

(* mesi_init_cache: the library's state after it, and the flag.  A missing *)
(* symbol is not tried again, a refused configuration is.                  *)
ApacheCache(q) ==
    LET b == q.cache[1]
        c == q.cache[2]
        withConfig == ApacheSymbol(q) = "InitCacheWithConfig"
        rc == IF withConfig THEN InitCacheWithConfigRc(b, c) ELSE InitCacheRc(b)
        after == IF withConfig THEN InitCacheWithConfig(lib, b, c)
                 ELSE InitCache(lib, b, c)
    IN IF b = NoBackend \/ memo.initialized
       THEN [lib |-> lib, flag |-> memo.initialized]
       ELSE IF ~Has(ApacheSymbol(q)) THEN [lib |-> lib, flag |-> TRUE]
       ELSE [lib |-> after, flag |-> rc = 0]

(* mesi_init_http_client: likewise; without the symbol it is tried again.  *)
ApacheClient(q, l) ==
    IF memo.shared \/ ~q.shared \/ ~Has("InitHTTPClient")
    THEN [lib |-> l, flag |-> memo.shared]
    ELSE [lib |-> InitHTTPClient(l, q.block # "off"), flag |-> TRUE]

ApacheRequest ==
    /\ server = "apache" /\ up
    /\ \E q \in ApacheRequests :
         LET cache == ApacheCache(q)
             client == ApacheClient(q, cache.lib)
         IN /\ ParseThrough("apache", q, ApacheEntry(q), client.lib)
            /\ memo' = [memo EXCEPT !.initialized = cache.flag,
                                    !.shared = client.flag]
    /\ UNCHANGED <<server, symbols, up>>

(* mesi_child_cleanup.                                                     *)
ApacheExit ==
    /\ server = "apache" /\ up
    /\ lib' = FreeCache(FreeHTTPClient(lib))
    /\ memo' = [memo EXCEPT !.initialized = FALSE, !.shared = FALSE]
    /\ up' = FALSE
    /\ UNCHANGED <<server, symbols, last>>

----------------------------------------------------------------------------
(* PHP.                                                                    *)

(* The settings of the cache are those of the call.                        *)
cache_state_matches(q) == memo.backend = q.cache[1] /\ memo.conf = q.cache[2]

(* parse_with_config, once its options have been found valid and the body  *)
(* short enough.  Valid options are never refused by InitCacheWithConfig.  *)
PhpBlock(q) == q.block # "off"

(* Mutant of PhpClient: a client that is attached is taken as it is.       *)
PhpClientKept(q, l) ==
    IF q.shared THEN IF memo.shared THEN l ELSE InitHTTPClient(l, PhpBlock(q))
    ELSE IF memo.shared THEN FreeHTTPClient(l) ELSE l

PhpClient(q, l) ==
    IF q.shared
    THEN IF memo.shared /\ memo.block = PhpBlock(q) THEN l
         ELSE InitHTTPClient(l, PhpBlock(q))
    ELSE IF memo.shared THEN FreeHTTPClient(l) ELSE l

PhpParseWithConfig ==
    /\ server = "php" /\ up
    /\ \E q \in PhpRequests :
         LET cached == IF cache_state_matches(q) THEN lib
                       ELSE InitCacheWithConfig(lib, q.cache[1], q.cache[2])
         IN /\ ParseThrough("parse_with_config", q, PhpEntry(q), PhpClient(q, cached))
            /\ memo' = [memo EXCEPT
                          !.backend = q.cache[1], !.conf = q.cache[2],
                          !.shared = q.shared,
                          !.block = IF q.shared THEN PhpBlock(q) ELSE @]
    /\ UNCHANGED <<server, symbols, up>>

(* parse: whatever cache and client there are.                             *)
PhpParse ==
    /\ server = "php" /\ up
    /\ ParseThrough("parse", <<>>, "Parse", lib)
    /\ UNCHANGED <<server, symbols, up, memo>>

(* MSHUTDOWN.                                                              *)
PhpExit ==
    /\ server = "php" /\ up
    /\ lib' = FreeCache(FreeHTTPClient(lib))
    /\ memo' = [memo EXCEPT !.shared = FALSE, !.backend = NoBackend, !.conf = -1]
    /\ up' = FALSE
    /\ UNCHANGED <<server, symbols, last>>

----------------------------------------------------------------------------
Next ==
    \/ NginxRequest \/ NginxExit
    \/ ApacheRequest \/ ApacheExit
    \/ PhpParseWithConfig \/ PhpParse \/ PhpExit

Spec == Init /\ [][Next]_vars

----------------------------------------------------------------------------
Parsed == last.entry \in Entries

(* A request with an allowlist is never parsed through an entry point that *)
(* ignores it, whatever the age of the library and the other options; in   *)
(* Apache the same goes for blocking that was switched on explicitly.      *)
FailsClosed ==
    Parsed /\ last.request # <<>> =>
        /\ last.request.hosts => last.entry # "Parse"
        /\ last.via = "apache" /\ last.request.block = "on" => last.entry # "Parse"

(* A request is parsed with the cache its configuration asks for: in PHP   *)
(* exactly that cache, after any sequence of calls with other settings; in *)
(* nginx one of the same backend, or none after a memcached cache without  *)
(* servers (libraries that have both initialisation functions).            *)
CacheAsAsked ==
    Parsed =>
        /\ last.via = "parse_with_config" =>
             /\ last.cache.backend = last.request.cache[1]
             /\ last.cache.backend # NoBackend => last.cache.conf = last.request.cache[2]
        /\ /\ last.via = "nginx"
           /\ {"InitCache", "InitCacheWithConfig"} \subseteq symbols
           /\ last.request.cache[1] \in {"memory", "redis", "memcached"}
           => \/ last.cache.backend = last.request.cache[1]
              \/ last.cache = NoCache /\ last.request.cache[1] = "memcached"

(* parse_with_config fetches through a shared client that blocks private   *)
(* addresses exactly if this call asked for it, and through none when the  *)
(* call asked for its own clients or for the bypass, whatever earlier      *)
(* calls have left attached.                                               *)
ClientAsAsked ==
    last.via = "parse_with_config" =>
        last.client = IF last.request.bypass \/ ~last.request.shared THEN "none"
                      ELSE IF PhpBlock(last.request) THEN "blocking" ELSE "open"

(* A cache in use is not thrown away for a new one with the same backend   *)
(* and settings (in nginx, provided that the latest request asked for that *)
(* backend: a set-up that failed since then makes it start anew); in       *)
(* Apache, where the first request with a cache decides for the process,   *)
(* every later request uses that cache.                                    *)
CacheStable ==
    [][LET old == lib.cache
           used == last'.cache
           asked == Parsed /\ last.request.cache[1] = old.backend
       IN old.warm /\ up' /\ Parsed' =>
            /\ server = "apache" => used = old
            /\ /\ server = "nginx" => asked
               /\ <<used.backend, used.conf>> = <<old.backend, old.conf>>
               => used.warm]_vars

(* A location without a cache, or with `mesi_cache_backend off`, does not  *)
(* read or fill one.                                                       *)
OffIsOff ==
    Parsed /\ last.via = "nginx" /\ last.request.cache[1] \in {NoBackend, "off"} =>
        last.cache = NoCache

============================================================================
