------------------------------ MODULE Settings ------------------------------
(***************************************************************************)
(* A configuration from the lines an operator writes to what a request     *)
(* hands to libgomesi: the server reads line after line, stops at the      *)
(* first that a setter refuses, lets the inner scope inherit from the      *)
(* outer one, and puts what is left into the arguments, or the JSON, of    *)
(* the entry point its library has.                                        *)
(*                                                                         *)
(* The scopes are a location and one nested in it (nginx), the main server *)
(* and a virtual host (Apache), one call (PHP, whose array is not checked  *)
(* before the call).                                                       *)
(***************************************************************************)
EXTENDS Arguments

CONSTANTS
    Texts, SomeTexts,  \* the numbers and ports that are written, and a few of them
    Topics             \* the files: about the directives .of, of at most .lines
                       \* lines, with all texts or some, served by .libs

ASSUME TopicAssumption ==
    /\ SomeTexts \subseteq Texts /\ Texts \subseteq Seq(0..Blank)
    /\ \A t \in Topics : /\ t.of \subseteq Directives /\ t.lines \in Nat
                          /\ t.all \in BOOLEAN /\ t.libs \subseteq Libraries

Nginx == INSTANCE NginxSettings
Apache == INSTANCE ApacheSettings
Php == INSTANCE PhpSettings

VARIABLES
    platform, lib,  \* the server, and the newest entry point of its library
    topic,          \* what this file is about
    file,           \* the lines read so far, the refused one included
    conf,           \* per scope, what is stored
    phase,          \* loading, failed, serving, served, refused
    scope,          \* where the request is served
    handed,         \* what the request hands over
    warned          \* the settings it warns of

vars == <<platform, lib, topic, file, conf, phase, scope, handed, warned>>

(* One scope is enough to try all texts in.                                *)
Scopes == IF platform = "php" \/ topic.all THEN {"outer"} ELSE {"outer", "inner"}

Available ==
    CASE platform = "nginx" -> Directives \ (Contexts \union {"shared"})
      [] platform = "apache" -> Directives \ Contexts
      [] platform = "php" -> Directives \ {"enable", "parseOnHeader"}

(* The arguments an operator writes.                                       *)
WritableNumbers(d) ==
    IF platform # "php" THEN IF topic.all THEN Texts ELSE SomeTexts
    ELSE IF topic.all THEN {<<n>> : n \in -1..LongMax} \union
                           (IF d = "maxDepth" THEN {} ELSE {<<>>})
    ELSE {<<n>> : n \in {0, 2, 15}}

Writable(d) ==
    CASE d \in Numbers -> WritableNumbers(d)
      [] d = "redisAddr" -> IF topic.all THEN Texts ELSE SomeTexts
      [] d \in Flags -> {"on", "off"} \union
                        (IF platform = "php" THEN {"one", "type"} ELSE {"bad"})
      [] d = "backend" -> Backends \union {"", "disk"}
      [] d = "onOversize" -> {"pass", "error", "bad"}
      [] d = "template" -> {"", "keyed", "doubled", "cut", "blank", "quoted", "bad"}
      [] d = "redisPassword" -> {"", "word", "quoted"}
      [] OTHER -> {"", "word", "other", "blank", "quoted", "bad"}

NothingHanded == [d \in Directives |-> Unset]

Init ==
    /\ platform \in {"nginx", "apache", "php"}
    /\ topic \in Topics
    /\ lib \in topic.libs
    /\ platform = "php" => lib \in {"json", "ctx"}   \* linked, not looked up
    /\ file = <<>>
    /\ LET new == IF platform = "apache" THEN Apache!create_server_config
                  ELSE Nginx!create_loc_conf
       IN conf = [outer |-> new, inner |-> new]
    /\ phase = "loading"
    /\ scope = "outer"
    /\ handed = NothingHanded
    /\ warned = {}

----------------------------------------------------------------------------
(* What the server makes of a line.  The PHP array takes anything.         *)
Setter(d, old, arg) ==
    CASE platform = "nginx" -> Nginx!ngx_http_mesi_commands(d, old, arg)
      [] platform = "apache" -> Apache!mesi_directives(d, old, arg)
      [] platform = "php" -> {<<arg>>}

Inner == {i \in DOMAIN file : file[i].scope = "inner"}

(* The next line.  Lines of the inner scope come last, which makes no      *)
(* difference: no setter looks at another scope.                           *)
Line(s, d, arg) ==
    /\ phase = "loading" /\ Len(file) < topic.lines
    /\ s = "outer" => Inner = {}
    /\ platform = "php" => \A i \in DOMAIN file : file[i].d # d
    /\ file' = Append(file, [scope |-> s, d |-> d, arg |-> arg])
    /\ LET values == Setter(d, conf[s][d], arg)
       IN \/ /\ values = {}
             /\ phase' = "failed"
             /\ UNCHANGED conf
          \/ \E v \in values :
               /\ conf' = [conf EXCEPT ![s][d] = v]
               /\ UNCHANGED phase
    /\ UNCHANGED <<platform, lib, topic, scope, handed, warned>>

(* The configuration is merged, and in nginx checked once more.            *)
EndOfFile ==
    /\ phase = "loading" /\ platform # "php"
    /\ LET outer == IF platform = "nginx"
                    THEN Nginx!merge_loc_conf(Nginx!create_loc_conf, conf.outer)
                    ELSE conf.outer
           inner == IF platform = "nginx" THEN Nginx!merge_loc_conf(outer, conf.inner)
                    ELSE Apache!merge_server_config(outer, conf.inner)
           bad == platform = "nginx" /\
                    (Nginx!MergeRefuses(outer) \/ Nginx!MergeRefuses(inner))
       IN /\ conf' = [outer |-> outer, inner |-> inner]
          /\ phase' = IF bad THEN "failed" ELSE "serving"
    /\ UNCHANGED <<platform, lib, topic, file, scope, handed, warned>>

(* The call checks its array and puts in the defaults.                     *)
Call ==
    /\ phase = "loading" /\ platform = "php"
    /\ LET options == Php!Options(conf.outer)
           bad == (\E d \in Directives : options[d] = {})
                     \/ Php!BackendIncomplete(conf.outer)
           Value(d) == CHOOSE v \in options[d] : TRUE
       IN IF bad THEN phase' = "failed" /\ UNCHANGED conf
          ELSE /\ phase' = "serving"
               /\ conf' = [conf EXCEPT !.outer = [d \in Directives |->
                             IF Value(d) = Unset THEN Php!PhpDefault[d] ELSE Value(d)]]
    /\ UNCHANGED <<platform, lib, topic, file, scope, handed, warned>>

----------------------------------------------------------------------------
Resolved(c) == IF platform = "apache" THEN Apache!ApacheResolved(c) ELSE c

Json(c) == CASE platform = "nginx" -> Nginx!NginxJson(c)
             [] platform = "apache" -> Apache!ApacheJson(c)
             [] platform = "php" -> Php!PhpJson(c)

Cache(c) == CASE platform = "nginx" -> Nginx!NginxCache(c)
              [] platform = "apache" -> Apache!ApacheCache(c)
              [] platform = "php" -> Php!PhpCache(c)

Template(c) == IF platform = "php" THEN Php!PhpTemplate(c)
               ELSE IF c["template"] = <<"">> THEN Unset ELSE c["template"]

(* PHP calls ParseWithConfigCtx with a template or without.                *)
EntryOf(c) == Entry(lib, Json(c) # {}, platform = "php" \/ Template(c) # Unset)

(* The arguments of the entry point, those of the calls that set up the    *)
(* cache, and the settings the module uses itself.                         *)
Handed(c) ==
    LET entry == EntryOf(c)
        template == IF entry \in {"json", "ctx"} THEN Template(c) ELSE Unset
    IN [d \in Directives |->
          CASE d \in JsonOnly -> IF entry = "json" /\ d \in Json(c) THEN c[d] ELSE Unset
            [] d = "bypass" -> IF entry = "config" THEN <<0>> ELSE c[d]
            [] d = "template" -> template
            [] d \in Contexts -> IF template = Unset THEN Unset ELSE c[d]
            [] d \in CacheOnly -> IF d \in CacheTakes(c["backend"]) THEN Cache(c)[d]
                                  ELSE Unset
            [] OTHER -> c[d]]

(* Mutant of Warnings: only what ParseJson would have taken is looked at.  *)
WarningsJsonOnly(c) == IF lib # "json" THEN Json(c) ELSE {}

(* What a library too old for a setting is said to ignore.                 *)
Warnings(c) ==
    (IF lib # "json" THEN Json(c) ELSE {})
    \union {d \in {"template"} : Template(c) # Unset /\ EntryOf(c) \notin {"json", "ctx"}}
    \union {d \in {"bypass"} : c[d] = <<1>> /\ EntryOf(c) = "config"}

(* A request.  nginx looks at the ranges again, and fails the request.     *)
Serve(s) ==
    /\ phase = "serving"
    /\ scope' = s
    /\ LET c == Resolved(conf[s])
       IN IF platform = "nginx" /\ Nginx!ParseRefuses(c)
          THEN phase' = "refused" /\ UNCHANGED <<handed, warned>>
          ELSE phase' = "served" /\ handed' = Handed(c) /\ warned' = Warnings(c)
    /\ UNCHANGED <<platform, lib, topic, file, conf>>

Next ==
    \/ \E s \in Scopes, d \in topic.of \intersect Available :
         \E arg \in Writable(d) : Line(s, d, arg)
    \/ EndOfFile
    \/ Call
    \/ \E s \in Scopes : Serve(s)

Spec == Init /\ [][Next]_vars

----------------------------------------------------------------------------
(* What a reader of the documentation expects.                             *)

(* The ranges the READMEs name; they name none for nginx's cache numbers.  *)
DocumentedBounds(d) ==
    CASE d = "maxDepth" -> 0..DepthMax
      [] d = "timeout" -> 1..TimeoutMax
      [] d \in {"maxConcurrent", "maxWorkers"} -> 0..CountMax
      [] d \in {"cacheSize", "cacheTtl"} /\ platform = "nginx" -> 0..LongMax
      [] d = "cacheSize" /\ platform = "apache" -> 1..CacheSizeMax
      [] d = "cacheSize" /\ platform = "php" -> 0..CacheSizeMax
      [] d = "cacheTtl" /\ platform # "nginx" -> 0..TtlMax
      [] d = "redisDb" -> 0..DbMax
      [] d = "maxResponseSize" -> 0..SizeMax
      [] d = "maxBodySize" -> 0..(IF platform = "php" THEN LongMax ELSE SizeMax)

(* The code keeps to them but for nginx's redisDb, which has no upper      *)
(* bound, and PHP's cacheSize, of which 0 is refused and not the default.  *)
Bounds(d) ==
    CASE platform = "nginx" /\ d = "redisDb" -> 0..LongMax
      [] platform = "php" /\ d = "cacheSize" -> 1..CacheSizeMax
      [] OTHER -> DocumentedBounds(d)

Digits(text) == text # <<>> /\ \A i \in DOMAIN text : IsDigit(text[i])

(* Apache drops blanks before a number, and reads at most nine digits      *)
(* where the value goes into an int; its README names the ranges only.     *)
NumberOf(text) == IF platform = "apache" THEN WithoutBlanks(text) ELSE text

IsNumber(d, text) ==
    /\ Digits(NumberOf(text))
    /\ Decimal(NumberOf(text)) \in Bounds(d)
    /\ platform = "apache" /\ d \notin {"maxResponseSize", "maxBodySize"} =>
         Len(NumberOf(text)) <= MaxDigits

IsPort(text) ==
    \/ platform = "nginx"
    \/ /\ Digits(text) /\ Decimal(text) \in 1..PortMax
       /\ platform = "apache" => Len(text) <= MaxDigits

(* The lines for d in a scope.                                             *)
Said(s, d) ==
    Loop(LAMBDA said, l : IF l.scope = s /\ l.d = d THEN Append(said, l) ELSE said,
         <<>>, file)

SaidBackend == IF Said("outer", "backend") = <<>> THEN ""
               ELSE Said("outer", "backend")[1].arg

Fault(l) ==
    \/ l.d \in Numbers /\ platform # "php" /\ ~IsNumber(l.d, l.arg)
    \/ l.d \in Numbers /\ platform = "php" /\ (l.arg = <<>> \/ l.arg[1] \notin Bounds(l.d))
    \/ l.d = "redisAddr" /\ ~IsPort(l.arg)
    \/ platform = "nginx" /\ Len(Said(l.scope, l.d)) > 1
    \/ /\ platform = "php"
       /\ \/ l.d \in {"redisAddr", "redisPassword", "redisDb"} /\ SaidBackend # "redis"
          \/ l.d = "servers" /\ SaidBackend # "memcached"
          \/ l.d = "backend" /\ l.arg = "redis" /\ Said("outer", "redisAddr") = <<>>
          \/ l.d = "backend" /\ l.arg = "memcached" /\ Said("outer", "servers") = <<>>

(* A word that no server has anything against.                             *)
Plain(l) ==
    l.d \in Numbers \union {"redisAddr"} \/
    l.arg \notin {"", "blank", "quoted", "bad", "cut", "doubled", "type", "one", "disk"}

(* A server starts with a file, and a call is made with an array, exactly  *)
(* when its numbers are numbers within Bounds (the documented ranges, but  *)
(* for the two departures named there), however long they are written,     *)
(* nginx's lines are not repeated, and PHP's options fit the backend.      *)
(* Whatever gets in is never refused by a request, nor by libgomesi.       *)
RefusedExactly ==
    /\ phase \in {"serving", "served"} => \A i \in DOMAIN file : ~Fault(file[i])
    /\ phase = "failed" /\ (\A i \in DOMAIN file : Plain(file[i])) =>
         \E i \in DOMAIN file : Fault(file[i])
    /\ phase # "refused"
    /\ \A d \in {"maxDepth", "timeout", "maxResponseSize", "maxConcurrent",
                 "maxWorkers"} :
         handed[d] # Unset => Accepts(d, handed[d][1])

----------------------------------------------------------------------------
(* What the lines for d in a scope mean: <<>> when they say nothing.       *)
(* Apache takes EnableMesi Off for nothing said, and adds up lists.        *)
Meaning(s, d) ==
    LET said == Said(s, d)
        arg == said[Len(said)].arg
        silent == platform = "apache" /\ d = "enable" /\ arg = "off"
    IN IF said = <<>> \/ silent THEN Unset ELSE
       CASE d \in Numbers -> IF platform = "php" THEN arg ELSE <<Decimal(NumberOf(arg))>>
         [] d = "redisAddr" -> IF arg = <<>> THEN DefaultAddr ELSE arg
         [] d \in Flags -> <<IF arg = "off" THEN 0 ELSE 1>>
         [] d \in Lists -> IF platform = "apache" THEN [i \in DOMAIN said |-> said[i].arg]
                           ELSE <<arg>>
         [] d = "template" -> <<IF platform = "apache" /\ arg = "doubled" THEN "keyed"
                                ELSE arg>>
         [] OTHER -> <<arg>>

Documented(d) ==
    CASE d = "maxDepth" -> <<5>>
      [] d = "block" -> <<1>>
      [] d = "shared" -> <<IF platform = "php" THEN 1 ELSE 0>>
      [] d \in {"enable", "bypass", "maxBodySize"} -> <<0>>
      [] d = "onOversize" -> <<"pass">>
      [] d = "cacheSize" -> <<10>>
      [] d = "cacheTtl" -> <<IF platform = "nginx" THEN 3 ELSE 0>>
      [] d = "redisDb" /\ platform = "nginx" -> <<0>>
      [] d = "redisAddr" -> DefaultAddr
      [] d \in {"backend", "redisPassword"} -> <<"">>
      [] d \in Lists /\ platform = "nginx" -> <<"">>
      [] d = "allowedHosts" /\ platform = "php" -> <<"">>
      [] OTHER -> Unset

Wanted(d) ==
    IF Meaning(scope, d) # Unset THEN Meaning(scope, d)
    ELSE IF Meaning("outer", d) # Unset THEN Meaning("outer", d)
    ELSE Documented(d)

(* What of it can be handed over.                                          *)
Possible(d) ==
    LET template == /\ lib \in {"json", "ctx"}
                    /\ platform = "php" => Wanted("backend") # <<"">>
                    /\ Wanted("template") \notin {Unset, <<"">>}
    IN CASE d \in JsonOnly -> lib = "json" /\
              ~(platform = "apache" /\ d = "marker" /\ Wanted(d) = <<"">>)
         [] d = "bypass" -> lib # "config"
         [] d = "template" \/ d \in Contexts -> template
         [] d \in CacheOnly -> d \in CacheTakes(Wanted("backend"))
         [] OTHER -> TRUE

(* A request hands over what the innermost line says, or else the          *)
(* documented default, whichever entry point the other settings lead to;   *)
(* an explicit 0, off or "" in a nested scope is not lost (but see Meaning *)
(* for Apache).  A setting the library, or the backend, cannot take is     *)
(* left out, and changes nothing else.  (nginx hands the sizes of the      *)
(* cache over as C ints: above IntMax they are not what was written.)      *)
AsWritten ==
    phase = "served" =>
        \A d \in Available :
            \/ handed[d] = IF Possible(d) THEN Wanted(d)
                           ELSE IF d = "bypass" THEN <<0>> ELSE Unset
            \/ /\ platform = "nginx" /\ d \in {"cacheSize", "cacheTtl", "redisDb"}
               /\ Wanted(d)[1] > IntMax

(* No setting of the parse is dropped without a warning: "never a crash    *)
(* and never a silently wrong config".  (The template of a PHP call        *)
(* without a cache is; the code says that this is meant.)                  *)
LossWarned ==
    phase = "served" =>
        \A d \in JsonOnly \union {"bypass", "template"} :
            \/ handed[d] = Wanted(d)
            \/ d \in warned
            \/ Wanted(d) = <<"">>
            \/ platform = "php" /\ d = "template" /\ Wanted("backend") = <<"">>

============================================================================
