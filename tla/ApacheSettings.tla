--------------------------- MODULE ApacheSettings ---------------------------
(***************************************************************************)
(* The directives of the Apache module: what each setter stores, how a     *)
(* virtual host inherits from the main server, and what a request hands to *)
(* libgomesi.                                                              *)
(***************************************************************************)
EXTENDS Arguments

(* The value a new server configuration starts with; enable_mesi does not  *)
(* tell Off from unset.                                                    *)
create_server_config ==
    [d \in Directives |-> IF d = "enable" THEN <<0>>
                          ELSE IF d = "backend" THEN <<"">> ELSE Unset]

----------------------------------------------------------------------------
(* Mutant of parse_nonneg_int: the number of digits is not looked at.      *)
parse_any_int(text, min, max) ==
    LET digits == WithoutBlanks(text)
        val == Loop(Push, 0, digits)
    IN IF digits # <<>> /\ (\A i \in DOMAIN digits : IsDigit(digits[i]))
          /\ val \in min..max
       THEN {<<val>>} ELSE {}

parse_nonneg_int(text, min, max) ==
    LET digits == WithoutBlanks(text)
        val == Loop(Push, 0, digits)
    IN IF digits # <<>> /\ (\A i \in DOMAIN digits : IsDigit(digits[i]))
          /\ Len(digits) <= MaxDigits /\ val \in min..max
       THEN {<<val>>} ELSE {}

(* The same over a part of a string, for the port of an address.           *)
parse_nonneg_int_bounded(text, min, max) ==
    LET digits == WithoutBlanks(text)
        val == Loop(Push, 0, digits)
    IN IF digits # <<>> /\ (\A i \in DOMAIN digits : IsDigit(digits[i]))
          /\ Len(digits) <= MaxDigits /\ val \in min..max
       THEN {val} ELSE {}

(* No limit on the digits: each is checked against max before it is added. *)
parse_nonneg_off(text, min, max) ==
    LET digits == WithoutBlanks(text)
        Add(acc, d) == IF acc = {} \/ (\E v \in acc : v > (max - d) \div 10) THEN {}
                       ELSE {Push(v, d) : v \in acc}
        vals == Loop(Add, {0}, digits)
    IN IF digits # <<>> /\ (\A i \in DOMAIN digits : IsDigit(digits[i]))
       THEN {<<v>> : v \in vals \intersect (min..max)} ELSE {}

set_max_depth(text) == parse_nonneg_int(text, 0, DepthMax)
set_timeout(text) == parse_nonneg_int(text, 1, TimeoutMax)
set_max_response_size(text) == parse_nonneg_off(text, 0, SizeMax)
set_max_body_size(text) == parse_nonneg_off(text, 0, SizeMax)
set_max_concurrent_requests(text) == parse_nonneg_int(text, 0, CountMax)
set_max_workers(text) == parse_nonneg_int(text, 0, CountMax)
set_cache_size(text) == parse_nonneg_int(text, 1, CacheSizeMax)
set_cache_ttl(text) == parse_nonneg_int(text, 0, TtlMax)
set_cache_redis_db(text) == parse_nonneg_int(text, 0, DbMax)

(* The flags: On and Off; Apache refuses anything else.                    *)
set_enable_mesi(word) == IF word = "bad" THEN {} ELSE {<<IF word = "on" THEN 1 ELSE 0>>}
set_flag(word) == IF word = "bad" THEN {} ELSE {<<IF word = "on" THEN 1 ELSE 0>>}

(* Hosts are appended; a line without a host, or with quotes, is refused.  *)
set_allowed_hosts(old, word) ==
    IF word \in {"", "blank", "quoted"} THEN {} ELSE {Append(old, word)}

(* Likewise servers; every entry must be host:port.                        *)
set_cache_memcached_servers(old, word) ==
    IF word \in {"", "blank", "quoted", "bad"} THEN {} ELSE {Append(old, word)}

(* Exactly one word, which may be "".                                      *)
set_include_error_marker(word) ==
    IF word \in {"blank", "bad"} THEN {} ELSE {<<word>>}

set_on_oversize(word) == IF word \in {"pass", "error"} THEN {<<word>>} ELSE {}

set_cache_backend(word) ==
    IF word \in Backends \union {""} THEN {<<word>>} ELSE {}

(* An empty address, or template, is stored as none.                       *)
set_cache_redis_addr(text) ==
    IF text = <<>> THEN {Unset}
    ELSE IF \E i \in DOMAIN text : text[i] = Blank THEN {}
    ELSE {text : port \in parse_nonneg_int_bounded(text, 1, PortMax)}

set_cache_redis_password(word) == IF word = "bad" THEN {} ELSE {<<word>>}

(* "cut" is a template that Apache has cut a placeholder out of; "doubled" *)
(* is "keyed" with its dollars doubled, which are made single again.       *)
set_cache_key_template(word) ==
    IF word = "" THEN {Unset}
    ELSE IF word \in {"bad", "cut"} THEN {}
    ELSE {<<IF word = "doubled" THEN "keyed" ELSE word>>}

(* AP_INIT_TAKE1: Apache itself refuses an empty word.                     *)
Take1(d) == d \notin Flags \union Lists \union {"marker"}
EmptyWord(d, arg) ==
    IF d \in Numbers \union {"redisAddr"} THEN arg = <<>> ELSE arg = ""

(* The command table.                                                      *)
mesi_directives(d, old, arg) ==
    IF Take1(d) /\ EmptyWord(d, arg) THEN {} ELSE
    CASE d = "enable" -> set_enable_mesi(arg)
      [] d \in Flags \ {"enable"} -> set_flag(arg)
      [] d = "maxDepth" -> set_max_depth(arg)
      [] d = "timeout" -> set_timeout(arg)
      [] d = "maxResponseSize" -> set_max_response_size(arg)
      [] d = "maxBodySize" -> set_max_body_size(arg)
      [] d = "maxConcurrent" -> set_max_concurrent_requests(arg)
      [] d = "maxWorkers" -> set_max_workers(arg)
      [] d = "cacheSize" -> set_cache_size(arg)
      [] d = "cacheTtl" -> set_cache_ttl(arg)
      [] d = "redisDb" -> set_cache_redis_db(arg)
      [] d = "allowedHosts" -> set_allowed_hosts(old, arg)
      [] d = "servers" -> set_cache_memcached_servers(old, arg)
      [] d = "marker" -> set_include_error_marker(arg)
      [] d = "onOversize" -> set_on_oversize(arg)
      [] d = "backend" -> set_cache_backend(arg)
      [] d = "redisAddr" -> set_cache_redis_addr(arg)
      [] d = "redisPassword" -> set_cache_redis_password(arg)
      [] d = "template" -> set_cache_key_template(arg)

----------------------------------------------------------------------------
(* A virtual host keeps what it has set.  EnableMesi Off, an empty backend *)
(* and whatever was stored as none count as not set.                       *)
merge_server_config(base, add) ==
    [d \in Directives |->
       IF add[d] = create_server_config[d] THEN base[d] ELSE add[d]]

(* The defaults mesi_response_filter and mesi_init_cache put in.           *)
ApacheResolved(conf) ==
    [d \in Directives |->
       IF conf[d] # Unset THEN conf[d]
       ELSE CASE d = "maxDepth" -> <<5>>
              [] d = "block" -> <<1>>
              [] d \in {"bypass", "shared", "cacheTtl"} -> <<0>>
              [] d = "maxBodySize" -> <<0>>
              [] d = "onOversize" -> <<"pass">>
              [] d = "cacheSize" -> <<10>>
              [] OTHER -> Unset]

(* The settings that send a parse to ParseJson, and that it is told.       *)
ApacheJson(conf) ==
    {d \in JsonOnly : conf[d] # Unset /\ (d = "marker" => conf[d] # <<"">>)}

(* build_cache_config_json: an address is put in, a password left empty.   *)
ApacheCache(conf) ==
    [d \in CacheOnly |->
       CASE d = "redisAddr" /\ conf[d] = Unset -> DefaultAddr
         [] d = "redisPassword" /\ conf[d] = Unset -> <<"">>
         [] OTHER -> conf[d]]

============================================================================
