--------------------------- MODULE MCMemoryCache ---------------------------
(***************************************************************************)
(* An instance of MemoryCache for TLC: three keys compete for two places,  *)
(* and a Set uses the default ttl, its own ttl, or never expires.          *)
(***************************************************************************)
EXTENDS MemoryCache

MCTTL == {-2, 0, 2}
============================================================================
