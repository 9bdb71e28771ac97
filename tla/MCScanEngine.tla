---------------------------- MODULE MCScanEngine ----------------------------
(***************************************************************************)
(* ScanEngine for TLC: the two probes and one check of each class that     *)
(* behaves differently (store only after the fetch, store only after the   *)
(* handshake, TLS dialer, nginx-gated prober, independent prober).         *)
(***************************************************************************)
EXTENDS ScanEngine

MCRegistered == {HTTPFetch, TLSInfo, "certificate", "hsts", "cipher_strength",
                 "nginx_alias_traversal", "path_bypass"}
=============================================================================
