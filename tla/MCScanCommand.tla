--------------------------- MODULE MCScanCommand ---------------------------
(***************************************************************************)
(* ScanCommand for TLC: the two probes, one check that reads each of them  *)
(* (certificate is the finding a failed fetch can hide), and one that      *)
(* sends requests of its own.                                              *)
(***************************************************************************)
EXTENDS ScanCommand

MCRegistered == {HTTPFetch, TLSInfo, "certificate", "nginx_alias_traversal"}
=============================================================================
