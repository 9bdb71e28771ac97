---------------------------- MODULE HonestReport ----------------------------
(***************************************************************************)
(* What a check promises whoever reads its report, when it asks a site     *)
(* that may change from one request to the next: however many requests it  *)
(* sent and whatever changed between them, the check ends in one report,   *)
(* which                                                                   *)
(*                                                                         *)
(*   - holds nothing the site gave no cause for while the check ran,       *)
(*   - holds everything the site gave cause for throughout, as far as the  *)
(*     check was answered,                                                 *)
(*   - or else says that the check failed, and then holds nothing,         *)
(*                                                                         *)
(* and which is never amended.  What lies in between, caused at one time   *)
(* and not at another, may be in it or not.                                *)
(***************************************************************************)
VARIABLES
  possible, \* what the site has given some cause to report so far
  certain,  \* what it has given every cause to report, all the time
  report    \* NoReport, or whether the check failed and what it found

vars == <<possible, certain, report>>

NoReport == [ended |-> FALSE, failed |-> FALSE, found |-> {}]

Init ==
  /\ certain \subseteq possible
  /\ report = NoReport

\* The site changes, or a request is lost: causes are added, and certainty
\* goes.
Change ==
  /\ possible \subseteq possible'
  /\ certain' \subseteq certain
  /\ report' = report

\* The check ends with what it found.
Publish ==
  /\ ~report.ended
  /\ \E found \in SUBSET possible :
       /\ certain \subseteq found
       /\ report' = [ended |-> TRUE, failed |-> FALSE, found |-> found]
  /\ UNCHANGED <<possible, certain>>

\* The check ends with an error.
Fail ==
  /\ ~report.ended
  /\ report' = [ended |-> TRUE, failed |-> TRUE, found |-> {}]
  /\ UNCHANGED <<possible, certain>>

Next == Change \/ Publish \/ Fail

Spec == Init /\ [][Next]_vars
=============================================================================
