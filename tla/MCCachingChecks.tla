--------------------------- MODULE MCCachingChecks ---------------------------
(***************************************************************************)
(* CachingChecks for TLC: the adapter that chains two runs, one that       *)
(* plants, one that does not (cache_deception differs from cache_poisoning *)
(* by its name), and one check that sends for itself.                      *)
(***************************************************************************)
EXTENDS CachingChecks

MCAdapted == [authenticated_caching |-> "cacheability",
              vary_consistency |-> "varykey",
              cache_poisoning |-> "unkeyed_header"]

MCAdapters == DOMAIN MCAdapted
MCSenders == {"path_bypass"}
=============================================================================
