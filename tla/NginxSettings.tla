---------------------------- MODULE NginxSettings ----------------------------
(***************************************************************************)
(* The directives of the nginx module: what each setter stores, how a      *)
(* nested location inherits from the one around it, and what a request     *)
(* hands to libgomesi.                                                     *)
(***************************************************************************)
EXTENDS Arguments

create_loc_conf == [d \in Directives |-> Unset]

----------------------------------------------------------------------------
AllDigits(text) == text # <<>> /\ \A i \in DOMAIN text : IsDigit(text[i])

(* The loop of the setters of small numbers: the value is compared with    *)
(* the maximum after each digit, and the loop is left once it is above.    *)
EarlyExit(text, min, max) ==
    LET Add(acc, d) == {v \in {Push(v, d) : v \in acc} : v <= max}
    IN IF AllDigits(text)
       THEN {<<v>> : v \in {v \in Loop(Add, {0}, text) : v >= min}} ELSE {}

(* The loop of the others: the room left is checked before the digit is    *)
(* added, so that nothing overflows.                                       *)
GuardedLoop(text, max) ==
    LET Add(acc, d) == {Push(v, d) : v \in {v \in acc : v <= (max - d) \div 10}}
    IN IF AllDigits(text) THEN {<<v>> : v \in Loop(Add, {0}, text)} ELSE {}

set_max_depth(text) == EarlyExit(text, 0, DepthMax)
set_timeout(text) == EarlyExit(text, 1, TimeoutMax)
set_max_response_size(text) == GuardedLoop(text, SizeMax)
set_max_concurrent_requests(text) == GuardedLoop(text, CountMax)
set_max_workers(text) == GuardedLoop(text, CountMax)
set_max_body_size(text) == GuardedLoop(text, SizeMax)

(* The slots of nginx itself: digits up to the largest ngx_int_t, on or    *)
(* off, a word of a list, any string.                                      *)
num_slot(text) == IF AllDigits(text) /\ Decimal(text) <= LongMax
                  THEN {<<Decimal(text)>>} ELSE {}
flag_slot(word) == IF word = "on" THEN {<<1>>} ELSE IF word = "off" THEN {<<0>>} ELSE {}
enum_slot(word) == IF word \in {"pass", "error"} THEN {<<word>>} ELSE {}
str_slot(d, arg) == IF d = "redisAddr" THEN {IF arg = <<>> THEN EmptyText(d) ELSE arg}
                    ELSE {<<arg>>}

(* The command table.  Every setter refuses a second line of a location.   *)
ngx_http_mesi_commands(d, old, arg) ==
    IF old # Unset THEN {} ELSE
    CASE d = "maxDepth" -> set_max_depth(arg)
      [] d = "timeout" -> set_timeout(arg)
      [] d = "maxResponseSize" -> set_max_response_size(arg)
      [] d = "maxBodySize" -> set_max_body_size(arg)
      [] d = "maxConcurrent" -> set_max_concurrent_requests(arg)
      [] d = "maxWorkers" -> set_max_workers(arg)
      [] d \in {"cacheSize", "cacheTtl", "redisDb"} -> num_slot(arg)
      [] d \in Flags -> flag_slot(arg)
      [] d = "onOversize" -> enum_slot(arg)
      [] OTHER -> str_slot(d, arg)

----------------------------------------------------------------------------
NginxDefault ==
    [d \in Directives |->
       CASE d \in {"enable", "maxBodySize", "bypass", "redisDb"} -> <<0>>
         [] d = "maxDepth" -> <<5>>
         [] d = "onOversize" -> <<"pass">>
         [] d \in {"backend", "servers", "redisPassword", "allowedHosts",
                   "template"} -> <<"">>
         [] d = "redisAddr" -> EmptyText(d)
         [] d = "cacheSize" -> <<10>>
         [] d = "cacheTtl" -> <<3>>
         [] d = "block" -> <<1>>
         [] OTHER -> Unset]

(* Mutant of merge_loc_conf: an explicit 0 is taken for unset.             *)
merge_zero_unset(prev, conf) ==
    [d \in Directives |->
       IF conf[d] # Unset /\ (d \in Numbers => conf[d] # <<0>>) THEN conf[d]
       ELSE IF prev[d] # Unset THEN prev[d] ELSE NginxDefault[d]]

(* What is set wins, an explicit 0, off or "" too.                         *)
merge_loc_conf(prev, conf) ==
    [d \in Directives |->
       IF conf[d] # Unset THEN conf[d]
       ELSE IF prev[d] # Unset THEN prev[d] ELSE NginxDefault[d]]

(* The end of merge_loc_conf: a template with control characters, or a     *)
(* list of hosts that is all blanks, stops nginx.                          *)
MergeRefuses(conf) ==
    conf["template"] = <<"bad">> \/ conf["allowedHosts"] = <<"blank">>

----------------------------------------------------------------------------
(* The ranges parse() looks at again; outside them the request fails.      *)
ParseRefuses(conf) ==
    \E d \in {"maxDepth", "timeout", "maxResponseSize", "maxConcurrent", "maxWorkers"} :
        conf[d] # Unset /\ ~Accepts(d, conf[d][1])

(* The settings that send a parse to ParseJson: set, if only to "".        *)
NginxJson(conf) == {d \in JsonOnly : conf[d] # Unset}

(* build_redis_config_json, build_memcached_config_json and the calls that *)
(* set the cache up, whose sizes are C ints.                               *)
NginxCache(conf) ==
    [d \in CacheOnly |->
       CASE d \in {"cacheSize", "cacheTtl", "redisDb"} ->
              <<Wrap(conf[d][1], IntMax)>>
         [] d = "redisAddr" /\ conf[d] = EmptyText(d) -> DefaultAddr
         [] OTHER -> conf[d]]

============================================================================
