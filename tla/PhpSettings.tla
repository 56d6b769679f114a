----------------------------- MODULE PhpSettings -----------------------------
(***************************************************************************)
(* The options of parse_with_config in the PHP extension, checked one by   *)
(* one at the call, and what the call hands to libgomesi.                  *)
(*                                                                         *)
(* An options array maps each option to <<>>, absent, or <<value>>.  A     *)
(* number is <<n>>, a value of another type <<>>; the word "type" is a     *)
(* value of another type, the word "one" an integer other than 0.          *)
(***************************************************************************)
EXTENDS Arguments

Long(v, min, max) == IF v # <<>> /\ v[1] \in min..max THEN {v} ELSE {}

(* max_depth is an argument of the call, not an option.                    *)
mesi_reject_max_depth(v) == v[1] \notin 0..DepthMax

mesi_is_safe_string(word) == word \notin {"blank", "quoted", "bad", "type"}
mesi_is_safe_cookie_value(word) == word \notin {"quoted", "bad", "type"}

mesi_parse_uint_bounded(text, min, max) ==
    LET Add(acc, d) == {v \in {Push(v, d) : v \in {v \in acc : v <= LongMax \div 10 - 10}} :
                          v <= max}
    IN IF text # <<>> /\ (\A i \in DOMAIN text : IsDigit(text[i]))
       THEN {v \in Loop(Add, {0}, text) : v >= min} ELSE {}

parse_host_port(text) == mesi_parse_uint_bounded(text, 1, PortMax) # {}

----------------------------------------------------------------------------
(* The options, each with the value it leaves; {} is a warning and false.  *)

cache_backend(word) == IF word \in Backends \union {""} THEN {<<word>>} ELSE {}
cache_size(v) == Long(v, 1, CacheSizeMax)
cache_ttl(v) == Long(v, 0, TtlMax)

(* Settings of a backend are refused with another one.                     *)
cache_redis_addr(backend, text) ==
    IF backend = <<"redis">> /\ parse_host_port(text) THEN {text} ELSE {}
cache_redis_password(backend, word) ==
    IF backend = <<"redis">> /\ mesi_is_safe_string(word) THEN {<<word>>} ELSE {}
cache_redis_db(backend, v) ==
    IF backend = <<"redis">> THEN Long(v, 0, DbMax) ELSE {}
cache_memcached_servers(backend, word) ==
    IF backend = <<"memcached">> /\ word # "" /\ mesi_is_safe_string(word)
    THEN {<<word>>} ELSE {}

BoolOrLong(word) == IF word \in {"on", "one"} THEN {<<1>>}
                    ELSE IF word = "off" THEN {<<0>>} ELSE {}
block_private_ips(word) == BoolOrLong(word)
shared_http_client(word) == BoolOrLong(word)
allow_private_ips_for_allowed_hosts(word) == BoolOrLong(word)

(* "" is no restriction; blanks alone are a mistake.                       *)
allowed_hosts(word) == IF word \in {"blank", "bad", "type"} THEN {} ELSE {<<word>>}

cache_key_template(word) ==
    IF word = "" THEN {Unset}
    ELSE IF mesi_is_safe_string(word) THEN {<<word>>} ELSE {}

request_headers(word) == IF mesi_is_safe_string(word) THEN {<<word>>} ELSE {}
request_cookies(word) == IF mesi_is_safe_cookie_value(word) THEN {<<word>>} ELSE {}

timeout(v) == Long(v, 1, TimeoutMax)
max_response_size(v) == Long(v, 0, SizeMax)
max_concurrent_requests(v) == Long(v, 0, CountMax)
max_workers(v) == Long(v, 0, CountMax)
max_body_size(v) == Long(v, 0, LongMax)
on_oversize(word) == IF word \in {"pass", "error"} THEN {<<word>>} ELSE {}
debug(word) == IF word = "on" THEN {<<1>>} ELSE IF word = "off" THEN {<<0>>} ELSE {}

(* Any string without a NUL.                                               *)
include_error_marker(word) == IF word \in {"bad", "type"} THEN {} ELSE {<<word>>}

(* What is left of an option the array has.  The backend comes first.      *)
Option(d, backend, arg) ==
    CASE d = "maxDepth" -> IF mesi_reject_max_depth(arg) THEN {} ELSE {arg}
      [] d = "backend" -> cache_backend(arg)
      [] d = "cacheSize" -> cache_size(arg)
      [] d = "cacheTtl" -> cache_ttl(arg)
      [] d = "redisAddr" -> cache_redis_addr(backend, arg)
      [] d = "redisPassword" -> cache_redis_password(backend, arg)
      [] d = "redisDb" -> cache_redis_db(backend, arg)
      [] d = "servers" -> cache_memcached_servers(backend, arg)
      [] d = "block" -> block_private_ips(arg)
      [] d = "shared" -> shared_http_client(arg)
      [] d = "bypass" -> allow_private_ips_for_allowed_hosts(arg)
      [] d = "allowedHosts" -> allowed_hosts(arg)
      [] d = "template" -> cache_key_template(arg)
      [] d = "headers" -> request_headers(arg)
      [] d = "cookies" -> request_cookies(arg)
      [] d = "timeout" -> timeout(arg)
      [] d = "maxResponseSize" -> max_response_size(arg)
      [] d = "maxConcurrent" -> max_concurrent_requests(arg)
      [] d = "maxWorkers" -> max_workers(arg)
      [] d = "maxBodySize" -> max_body_size(arg)
      [] d = "onOversize" -> on_oversize(arg)
      [] d = "debug" -> debug(arg)
      [] d = "marker" -> include_error_marker(arg)

(* The values of all options; an absent one leaves its variable alone.     *)
Options(config) ==
    LET backend == config["backend"]
    IN [d \in Directives |->
          IF config[d] = <<>> THEN {Unset} ELSE Option(d, backend, config[d][1])]

(* redis needs an address, memcached its servers.                          *)
BackendIncomplete(config) ==
    \/ config["backend"] = <<"redis">> /\ config["redisAddr"] = <<>>
    \/ config["backend"] = <<"memcached">> /\ config["servers"] = <<>>

(* The variables' first values, and the default of cache_size.             *)
PhpDefault ==
    [d \in Directives |->
       CASE d \in {"block", "shared"} -> <<1>>
         [] d \in {"bypass", "maxBodySize", "cacheTtl"} -> <<0>>
         [] d \in {"backend", "allowedHosts"} -> <<"">>
         [] d = "maxDepth" -> <<5>>          \* what the caller gives
         [] d = "onOversize" -> <<"pass">>
         [] d = "cacheSize" -> <<10>>
         [] OTHER -> Unset]

(* The settings that send a parse to ParseJson, if only to say "".         *)
PhpJson(conf) == {d \in JsonOnly : conf[d] # Unset}

(* Without a cache the template is left out, and so is its context.        *)
PhpTemplate(conf) ==
    IF conf["backend"] = <<"">> THEN Unset ELSE conf["template"]

(* build_cache_config_json: no password is an empty one.                   *)
PhpCache(conf) ==
    [d \in CacheOnly |->
       IF d = "redisPassword" /\ conf[d] = Unset THEN <<"">> ELSE conf[d]]

============================================================================
