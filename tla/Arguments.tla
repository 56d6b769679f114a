----------------------------- MODULE Arguments -----------------------------
(***************************************************************************)
(* The settings the server modules have in common, the form of their       *)
(* arguments and of the values made of them, and the bounds that are the   *)
(* same in nginx, Apache, PHP and libgomesi.                               *)
(*                                                                         *)
(* A numeric argument is a sequence of characters: the digits 0..9, a      *)
(* Blank (space or tab), or any Other.  An address stands for the text of  *)
(* its port.  Other arguments are words, of which "blank", "quoted", "cut" *)
(* and "bad" stand for texts of blanks, with quotes, with a placeholder    *)
(* missing, and with control characters or of another form.                *)
(*                                                                         *)
(* A stored value is a sequence, so that <<>> is "unset"; what a setter    *)
(* makes of an argument is a set, {} when it refuses it.                   *)
(***************************************************************************)
EXTENDS Integers, Sequences, SequencesExt

CONSTANTS
    IntMax, LongMax,       \* the largest C int, the largest long and off_t
    MaxDigits,             \* digits Apache reads into an int (9)
    DepthMax, TimeoutMax, CountMax, CacheSizeMax, TtlMax, DbMax, PortMax

(* MaxInt64 - 1.                                                           *)
SizeMax == LongMax - 1

(* A loop over a text, or over another sequence, from its first element.   *)
Loop(Add(_, _), first, text) ==
    LET acc[i \in 0..Len(text)] ==
          IF i = 0 THEN first ELSE Add(acc[i - 1], text[i])
    IN acc[Len(text)]

TenTo(n) ==
    LET p[i \in 0..n] == IF i = 0 THEN 1 ELSE 10 * p[i - 1]
    IN p[n]

(* What the comments of the parsers rely on: nine digits fit an int, and a *)
(* bound times ten fits a long, with the margin that PHP leaves.  The      *)
(* default depth is a depth.                                               *)
ASSUME WidthAssumption ==
    /\ {IntMax, LongMax, MaxDigits, DepthMax, TimeoutMax, CountMax,
        CacheSizeMax, TtlMax, DbMax, PortMax} \subseteq Nat \ {0}
    /\ TenTo(MaxDigits) - 1 <= IntMax /\ IntMax <= LongMax
    /\ \A m \in {DepthMax, TimeoutMax, PortMax} : 10 * m + 9 <= LongMax
    /\ PortMax <= LongMax \div 10 - 10
    /\ \A m \in {DepthMax, TimeoutMax, CountMax, CacheSizeMax, TtlMax, DbMax,
                 PortMax} : m < TenTo(MaxDigits)
    /\ 5 <= DepthMax

Other == 10
Blank == 11

Numbers == {"maxDepth", "timeout", "maxResponseSize", "maxBodySize",
            "maxConcurrent", "maxWorkers", "cacheSize", "cacheTtl", "redisDb"}
Flags == {"enable", "block", "bypass", "shared", "debug", "parseOnHeader"}
Lists == {"allowedHosts", "servers"}
Words == {"marker", "template", "redisPassword", "backend", "onOversize"}
Contexts == {"headers", "cookies"}   \* given to PHP, elsewhere the request's
Directives == Numbers \union Flags \union Lists \union Words
                 \union Contexts \union {"redisAddr"}

(* The settings only ParseJson takes.                                      *)
JsonOnly == {"timeout", "maxResponseSize", "maxConcurrent", "maxWorkers",
             "debug", "parseOnHeader", "marker"}

CacheOnly == {"cacheSize", "cacheTtl", "redisAddr", "redisPassword", "redisDb",
              "servers"}

Unset == <<>>

(* An explicit empty argument, stored.                                     *)
EmptyText(d) == IF d = "redisAddr" THEN <<-1>> ELSE <<"">>

(* localhost:6379, where an empty address goes.                            *)
DefaultAddr == <<-2>>

Backends == {"memory", "redis", "memcached"}

----------------------------------------------------------------------------
(* Arithmetic.  A result that does not fit wraps around.                   *)
Wrap(n, max) == ((n + max + 1) % (2 * (max + 1))) - (max + 1)

IsDigit(c) == c \in 0..9

(* What a text of digits means.                                            *)
Decimal(text) == Loop(LAMBDA v, d : 10 * v + d, 0, text)

(* One digit more, in a long.                                              *)
Push(v, d) == Wrap(10 * v + d, LongMax)

WithoutBlanks(text) ==
    LET kept == {i \in DOMAIN text : \A j \in 1..i : j = i \/ text[j] = Blank}
        start == {i \in kept : text[i] # Blank}
    IN IF start = {} THEN <<>>
       ELSE SubSeq(text, CHOOSE i \in start : TRUE, Len(text))

----------------------------------------------------------------------------
(* What libgomesi accepts (ResolvedMaxDepth, ResolveTimeout and so on).    *)
Accepts(d, n) ==
    CASE d = "maxDepth" -> n \in 0..DepthMax
      [] d = "timeout" -> n \in 1..TimeoutMax
      [] d = "maxResponseSize" -> n \in 0..SizeMax
      [] d \in {"maxConcurrent", "maxWorkers"} -> n \in 0..CountMax

(* Which entry point takes a parse: ParseJson if it is wanted and there;   *)
(* otherwise ParseWithConfigCtx for a template, ParseWithConfigEx, or      *)
(* ParseWithConfig, as far as the library has them.                        *)
Libraries == {"json", "ctx", "ex", "config"}   \* the newest it has

Entry(lib, wantsJson, template) ==
    IF wantsJson /\ lib = "json" THEN "json"
    ELSE IF template /\ lib \in {"json", "ctx"} THEN "ctx"
    ELSE IF lib # "config" THEN "ex" ELSE "config"

(* The settings of a cache that its backend is set up with.                *)
CacheTakes(backend) ==
    CASE backend = <<"memory">> -> {"cacheSize", "cacheTtl"}
      [] backend = <<"redis">> ->
           {"cacheSize", "cacheTtl", "redisAddr", "redisPassword", "redisDb"}
      [] backend = <<"memcached">> -> {"cacheSize", "cacheTtl", "servers"}
      [] OTHER -> {}

============================================================================
