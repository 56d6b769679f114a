----------------------------- MODULE LibGomesi -----------------------------
(***************************************************************************)
(* The state libgomesi shares between the parses of a process, and what    *)
(* its entry points do to it: sharedCache with its ttl, and sharedClient   *)
(* with the transport it was built on.                                     *)
(*                                                                         *)
(* A cache is known by its backend and by the settings it was built with   *)
(* (size, ttl, address: one number), and is warm once a parse has used it. *)
(***************************************************************************)
EXTENDS Integers

NoServers == 0        \* settings of a memcached cache without servers

NoBackend == ""       \* the name that stands for no cache
Backends == {NoBackend, "memory", "redis", "memcached"}

NoCache == [backend |-> NoBackend, conf |-> 0, warm |-> FALSE]
Cold(backend, conf) == [backend |-> backend, conf |-> conf, warm |-> FALSE]

(* The shared client: none, or whether its transport blocks private        *)
(* addresses.                                                              *)
Clients == {"none", "open", "blocking"}

Confs == 0..2         \* the settings of a cache
CacheStates == [backend : Backends, conf : Confs, warm : BOOLEAN]
LibStates == [cache : CacheStates, client : Clients]

Unused == [cache |-> NoCache, client |-> "none"]

InitCacheRc(backend) == IF backend \in {NoBackend, "memory"} THEN 0 ELSE -1

(* An unknown backend leaves the cache of before.                          *)
InitCache(lib, backend, conf) ==
    IF InitCacheRc(backend) # 0 THEN lib
    ELSE [lib EXCEPT !.cache =
            IF backend = NoBackend THEN NoCache ELSE Cold(backend, conf)]

InitCacheWithConfigRc(backend, conf) ==
    IF \/ backend \in {NoBackend, "memory", "redis"}
       \/ backend = "memcached" /\ conf # NoServers
    THEN 0 ELSE -1

(* The cache of before is dropped, also when the new one is refused.       *)
InitCacheWithConfig(lib, backend, conf) ==
    [lib EXCEPT !.cache =
       IF backend = NoBackend \/ InitCacheWithConfigRc(backend, conf) # 0
       THEN NoCache ELSE Cold(backend, conf)]

FreeCache(lib) == [lib EXCEPT !.cache = NoCache]

InitHTTPClient(lib, block) ==
    [lib EXCEPT !.client = IF block THEN "blocking" ELSE "open"]

FreeHTTPClient(lib) == [lib EXCEPT !.client = "none"]

(* applySharedConfig, and parseWithConfigInternal's detaching of a parse   *)
(* with the private-address bypass: the client and the cache a parse uses. *)
ClientOf(lib, bypass) == IF bypass THEN "none" ELSE lib.client

(* A parse fills the cache it uses.                                        *)
Used(lib) == [lib EXCEPT !.cache.warm = (lib.cache.backend # NoBackend)]

============================================================================
