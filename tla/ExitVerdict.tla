---------------------------- MODULE ExitVerdict ----------------------------
(***************************************************************************)
(* What `proxyaudit scan` promises its caller, a CI job that sees only the *)
(* exit code: facts about the run are learned and never forgotten while it *)
(* works, and the code it exits with is a function of them, in the order   *)
(* of precedence of cmd/scan.go (a failed run outranks its findings).      *)
(***************************************************************************)
EXTENDS Naturals

VARIABLES
  stage,   \* working, exited or killed
  misused, \* the command line was refused
  failed,  \* the scan, its report or its shared fetch failed
  found,   \* the scan's summary has observations
  code     \* the exit code, once exited

vars == <<stage, misused, failed, found, code>>

Init ==
  /\ stage = "working"
  /\ ~misused /\ ~failed /\ ~found
  /\ code = 0

\* A fact is learned; nothing learned is dropped.
Learn ==
  /\ stage = "working"
  /\ misused' \in BOOLEAN /\ (misused => misused')
  /\ failed' \in BOOLEAN /\ (failed => failed')
  /\ found' \in BOOLEAN /\ (found => found')
  /\ UNCHANGED <<stage, code>>

ExitCode == CASE failed -> 2
              [] ~failed /\ (misused \/ found) -> 1
              [] OTHER -> 0

Exit ==
  /\ stage = "working"
  /\ stage' = "exited"
  /\ code' = ExitCode
  /\ UNCHANGED <<misused, failed, found>>

\* A signal ends the process; its status is the signal's.
Kill ==
  /\ stage = "working"
  /\ stage' = "killed"
  /\ UNCHANGED <<misused, failed, found, code>>

Next == Learn \/ Exit \/ Kill

Spec == Init /\ [][Next]_vars
=============================================================================
