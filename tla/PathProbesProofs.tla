--------------------------- MODULE PathProbesProofs ---------------------------
(***************************************************************************)
(* Proofs about the checks that GET a list of paths, for all lists, pages  *)
(* and bounds.                                                             *)
(***************************************************************************)
EXTENDS PathProbes, TLAPS

\* The open interfaces behind the entry the check is at are reported.
FoundBehind ==
  ~malformed => \A i \in open \ failed : (i < at /\ Recognisable(i))
                                           => i \in observations

\* A page in hand is the prefix's own file, or one for unknown paths.
BaselineHeld ==
  baseline # NoPage =>
    /\ check = Alias /\ at <= Size(check) /\ Usable(baseline)
    /\ at \in open => baseline = File(at)

\* Nothing is sent to a URL that does not parse, so nothing is found.
MalformedFindsNothing == malformed => observations = {} /\ baseline = NoPage

ReturnedMeansDone == result = "returned" => at > Size(check)

PathInv == /\ PathTypeOK
           /\ FoundBehind
           /\ FindingsHaveACause
           /\ BaselineHeld
           /\ MalformedFindsNothing
           /\ ReturnedMeansDone

\* Every check has a list of some length.
LEMMA SizeIsNat == ASSUME check \in Checks PROVE Size(check) \in Nat
  BY TableAssumption, BoundAssumption DEF Checks, Size

\* The page a path has is a page.
LEMMA FilesArePages == ASSUME NEW i PROVE File(i) \in Page /\ NoPage \in Page
  BY PageAssumption DEF File, NoPage, Page

\* What an entry that is asked for and open answers is its genuine page.
LEMMA OpenMatches ==
  ASSUME NEW i \in open, check \in WordChecks, Recognisable(i)
  PROVE  Match(Signed(i), Resolved(i))
<1>1. check # Alias
  BY TableAssumption
<1>2. ~Signed(i).query /\ Resembles(i, Genuine[check][i])
  BY <1>1 DEF Recognisable
<1>3. Resolved(i) = Genuine[check][i]
  BY <1>2 DEF Resolved
<1>4. Signed(i).markers \cap Genuine[check][i].says # {}
  BY <1>2 DEF Resembles
<1>. QED
  BY <1>2, <1>3, <1>4 DEF Match, Resembles

\* What matches is an open interface, or a page for unknown paths that looks
\* like one.
LEMMA MatchHasCause ==
  ASSUME check \in WordChecks, fallback \in shown, NEW i,
         Match(Signed(i), Resolved(i))
  PROVE  Cause(i)
<1>1. check # Alias
  BY TableAssumption
<1>2. CASE i \in open
  BY <1>2 DEF Cause
<1>3. CASE i \notin open
  <2>1. Resolved(i) = fallback
    BY <1>3 DEF Resolved
  <2>2. Resembles(i, fallback)
    BY <2>1 DEF Match, Resembles
  <2>. QED
    BY <1>1, <2>2 DEF Cause
<1>. QED
  BY <1>2, <1>3

\* The invariant holds before the first request.
LEMMA PathInitInv == Init => PathInv
<1> SUFFICES ASSUME Init PROVE PathInv
  OBVIOUS
<1>1. Size(check) \in Nat
  BY SizeIsNat DEF Init
<1>2. PathTypeOK
  BY <1>1, FilesArePages, BoundAssumption DEF Init, PathTypeOK, Entries
<1>3. /\ FoundBehind /\ FindingsHaveACause /\ BaselineHeld
      /\ MalformedFindsNothing /\ ReturnedMeansDone
  BY <1>1
  DEF Init, FoundBehind, Entries, FindingsHaveACause, BaselineHeld,
      MalformedFindsNothing, ReturnedMeansDone
<1>. QED
  BY <1>2, <1>3 DEF PathInv

\* Leaving an entry unreported keeps the invariant if it is not open, not
\* recognisable, or its request was lost.
LEMMA PassInv ==
  ASSUME PathInv, Working, Pass, UNCHANGED <<siteVars, result>>,
         baseline' = NoPage, failed' \in {failed, failed \cup {at}},
         ~malformed, (at \in open /\ Recognisable(at)) => at \in failed'
  PROVE  PathInv'
<1>1. /\ Size(check) \in Nat /\ at \in 1..Size(check)
      /\ at' = at + 1 /\ observations' = observations
      /\ failed \subseteq failed'
  BY SizeIsNat
  DEF PathInv, PathTypeOK, Working, Pass, NextEntry, Entries
<1>2. PathTypeOK'
  <2>1. failed' \subseteq Entries /\ Entries' = Entries
    BY <1>1 DEF PathInv, PathTypeOK, Entries, siteVars
  <2>. QED
    BY <1>1, <2>1, FilesArePages DEF PathInv, PathTypeOK, siteVars, Working
<1>3. FoundBehind'
  <2> SUFFICES ASSUME ~malformed, NEW i \in open \ failed', i < at + 1,
                      Recognisable(i)
               PROVE  i \in observations
    BY <1>1 DEF FoundBehind, siteVars, Recognisable, Signed, Resembles
  <2>1. i \in Nat /\ (i < at \/ i = at)
    BY <1>1 DEF PathInv, PathTypeOK, Entries
  <2>. QED
    BY <1>1, <2>1 DEF PathInv, FoundBehind
<1>4. FindingsHaveACause'
  BY <1>1
  DEF PathInv, FindingsHaveACause, Cause, siteVars, Resembles, Signed
<1>5. BaselineHeld' /\ MalformedFindsNothing' /\ ReturnedMeansDone'
  BY <1>1
  DEF BaselineHeld, MalformedFindsNothing, ReturnedMeansDone, Working,
      siteVars, NoPage
<1>. QED
  BY <1>2, <1>3, <1>4, <1>5 DEF PathInv

\* Reporting an entry keeps it if the site gives cause for the finding.
LEMMA ReportInv ==
  ASSUME PathInv, Working, Report, UNCHANGED <<siteVars, result, failed>>,
         ~malformed, baseline' = NoPage, Cause(at)
  PROVE  PathInv'
<1>1. /\ Size(check) \in Nat /\ at \in 1..Size(check)
      /\ at' = at + 1 /\ observations' = observations \cup {at}
  BY SizeIsNat DEF PathInv, PathTypeOK, Working, Report, NextEntry
<1>2. PathTypeOK'
  BY <1>1, FilesArePages DEF PathInv, PathTypeOK, Entries, siteVars, Working
<1>3. FoundBehind'
  <2> SUFFICES ASSUME ~malformed, NEW i \in open \ failed, i < at + 1,
                      Recognisable(i)
               PROVE  i \in observations \cup {at}
    BY <1>1 DEF FoundBehind, siteVars, Recognisable, Signed, Resembles
  <2>1. i \in Nat /\ (i < at \/ i = at)
    BY <1>1 DEF PathInv, PathTypeOK, Entries
  <2>. QED
    BY <2>1 DEF PathInv, FoundBehind
<1>4. FindingsHaveACause'
  BY <1>1
  DEF PathInv, FindingsHaveACause, Cause, siteVars, Resembles, Signed
<1>5. BaselineHeld' /\ MalformedFindsNothing' /\ ReturnedMeansDone'
  BY <1>1
  DEF BaselineHeld, MalformedFindsNothing, ReturnedMeansDone, Working,
      siteVars, NoPage
<1>. QED
  BY <1>2, <1>3, <1>4, <1>5 DEF PathInv

\* A step of a check that looks for words keeps it.
LEMMA ProbePathInv == ASSUME PathInv, ProbePath PROVE PathInv'
<1>1. /\ Working /\ check \in WordChecks /\ check # Alias /\ fallback \in shown
      /\ ~malformed
      /\ UNCHANGED <<siteVars, result>> /\ baseline' = baseline
  BY TableAssumption DEF PathInv, PathTypeOK, ProbePath
<1>2. baseline' = NoPage
  BY <1>1 DEF PathInv, BaselineHeld
<1>3. CASE Lost /\ Pass
  <2>1. failed' = failed \cup {at}
    BY <1>3 DEF Lost
  <2>. QED
    BY <1>1, <1>2, <1>3, <2>1, PassInv
<1>4. CASE Answered /\ Match(Signed(at), Resolved(at)) /\ Report
  <2>1. failed' = failed
    BY <1>4 DEF Answered
  <2>. QED
    BY <1>1, <1>2, <1>4, <2>1, MatchHasCause, ReportInv
<1>5. CASE Answered /\ ~Match(Signed(at), Resolved(at)) /\ Pass
  <2>1. failed' = failed
    BY <1>5 DEF Answered
  <2>2. ~(at \in open /\ Recognisable(at))
    BY <1>1, <1>5, OpenMatches
  <2>. QED
    BY <1>1, <1>2, <1>5, <2>1, <2>2, PassInv
<1>. QED
  BY <1>3, <1>4, <1>5 DEF ProbePath

\* The well-formed request of a prefix keeps it: an open one is passed over
\* only if its request was lost.
LEMMA BaselineInv == ASSUME PathInv, ProbeBaseline PROVE PathInv'
<1>1. /\ Working /\ check = Alias /\ baseline = NoPage /\ ~malformed
      /\ UNCHANGED <<siteVars, result>>
  BY DEF ProbeBaseline
<1>2. CASE Lost /\ Pass /\ baseline' = NoPage
  <2>1. failed' = failed \cup {at}
    BY <1>2 DEF Lost
  <2>. QED
    BY <1>1, <1>2, <2>1, PassInv
<1>3. CASE Answered /\ ~Usable(WellFormed(at)) /\ Pass /\ baseline' = NoPage
  <2>1. failed' = failed
    BY <1>3 DEF Answered
  <2>2. at \notin open
    BY <1>3 DEF WellFormed, Usable, File
  <2>. QED
    BY <1>1, <1>3, <2>1, <2>2, PassInv
<1>4. CASE /\ Answered /\ Usable(WellFormed(at))
           /\ baseline' = WellFormed(at) /\ UNCHANGED <<observations, at>>
  <2>1. failed' = failed
    BY <1>4 DEF Answered
  <2>2. WellFormed(at) \in Page
    BY FilesArePages, PageAssumption
    DEF PathInv, PathTypeOK, WellFormed
  <2>3. PathTypeOK'
    BY <1>1, <1>4, <2>1, <2>2 DEF PathInv, PathTypeOK, Entries, siteVars
  <2>4. FoundBehind'
    BY <1>1, <1>4, <2>1
    DEF PathInv, FoundBehind, siteVars, Recognisable, Signed, Resembles
  <2>5. FindingsHaveACause'
    BY <1>1, <1>4
    DEF PathInv, FindingsHaveACause, Cause, siteVars, Resembles, Signed
  <2>6. BaselineHeld'
    BY <1>1, <1>4 DEF BaselineHeld, Working, siteVars, WellFormed, Usable, File
  <2>7. ReturnedMeansDone' /\ MalformedFindsNothing'
    BY <1>1, <1>4
    DEF PathInv, ReturnedMeansDone, MalformedFindsNothing, siteVars
  <2>. QED
    BY <2>3, <2>4, <2>5, <2>6, <2>7 DEF PathInv
<1>. QED
  BY <1>2, <1>3, <1>4 DEF ProbeBaseline

\* So does the request without the slash: an equal body is the prefix's own
\* file, or a page the site has for unknown paths.
LEMMA OffBySlashInv == ASSUME PathInv, ProbeOffBySlash PROVE PathInv'
<1>1. /\ Working /\ check = Alias /\ baseline' = NoPage
      /\ UNCHANGED <<siteVars, result>> /\ fallback \in shown
      /\ Usable(baseline) /\ (at \in open => baseline = File(at))
      /\ ~malformed
  BY DEF ProbeOffBySlash, PathInv, PathTypeOK, BaselineHeld,
         MalformedFindsNothing
<1>2. CASE Lost /\ Pass
  <2>1. failed' = failed \cup {at}
    BY <1>2 DEF Lost
  <2>. QED
    BY <1>1, <1>2, <2>1, PassInv
<1>3. CASE Answered /\ Equal(OffBySlash(at)) /\ Report
  <2>1. failed' = failed
    BY <1>3 DEF Answered
  <2>2. at \in open \/ Usable(fallback)
    BY <1>1, <1>3 DEF Equal, OffBySlash, Usable
  <2>3. Cause(at)
    BY <1>1, <2>2 DEF Cause
  <2>. QED
    BY <1>1, <1>3, <2>1, <2>3, ReportInv
<1>4. CASE Answered /\ ~Equal(OffBySlash(at)) /\ Pass
  <2>1. failed' = failed
    BY <1>4 DEF Answered
  <2>2. at \notin open
    BY <1>1, <1>4 DEF Equal, OffBySlash, File
  <2>. QED
    BY <1>1, <1>4, <2>1, <2>2, PassInv
<1>. QED
  BY <1>2, <1>3, <1>4 DEF ProbeOffBySlash

\* Every step of the check and of the site keeps it.
LEMMA PathNextInv == PathInv /\ [Next]_vars => PathInv'
<1> SUFFICES ASSUME PathInv, [Next]_vars PROVE PathInv'
  OBVIOUS
<1>1. CASE ProbePath
  BY <1>1, ProbePathInv
<1>2. CASE ProbeBaseline
  BY <1>2, BaselineInv
<1>3. CASE ProbeOffBySlash
  BY <1>3, OffBySlashInv
<1>4. CASE ProbeFails
  <2>1. /\ malformed /\ Size(check) \in Nat /\ result = "running"
        /\ at \in 1..Size(check) /\ at' \in {at, at + 1}
        /\ UNCHANGED <<siteVars, baseline, failed, observations>>
        /\ result' \in {"running", "error"}
        /\ check = Alias => at' = at
    BY <1>4, SizeIsNat
    DEF ProbeFails, Working, PathInv, PathTypeOK, Pass, NextEntry, Alias
  <2>2. PathTypeOK'
    BY <2>1 DEF PathInv, PathTypeOK, Entries, siteVars
  <2>3. FoundBehind' /\ ReturnedMeansDone'
    BY <2>1 DEF FoundBehind, ReturnedMeansDone, siteVars
  <2>4. FindingsHaveACause'
    BY <2>1 DEF PathInv, FindingsHaveACause, Cause, siteVars, Resembles, Signed
  <2>5. BaselineHeld' /\ MalformedFindsNothing'
    BY <2>1 DEF PathInv, BaselineHeld, MalformedFindsNothing, siteVars
  <2>. QED
    BY <2>2, <2>3, <2>4, <2>5 DEF PathInv
<1>5. CASE ReturnResult
  <2>1. /\ UNCHANGED <<siteVars, at, baseline, observations, failed>>
        /\ result' = "returned" /\ at > Size(check)
    BY <1>5 DEF ReturnResult
  <2>2. PathTypeOK' /\ ReturnedMeansDone'
    BY <2>1 DEF PathInv, PathTypeOK, Entries, siteVars, ReturnedMeansDone
  <2>3. FoundBehind' /\ BaselineHeld' /\ MalformedFindsNothing'
    BY <2>1
    DEF PathInv, FoundBehind, BaselineHeld, MalformedFindsNothing, siteVars,
        Recognisable, Signed, Resembles
  <2>4. FindingsHaveACause'
    BY <2>1 DEF PathInv, FindingsHaveACause, Cause, siteVars, Resembles, Signed
  <2>. QED
    BY <2>2, <2>3, <2>4 DEF PathInv
<1>6. CASE Drift
  <2>1. /\ UNCHANGED <<check, open, malformed, at, baseline, observations,
                       failed, result>>
        /\ shown \subseteq shown'
    BY <1>6 DEF Drift, checkVars
  <2>2. PathTypeOK'
    BY <1>6, BoundAssumption
    DEF PathInv, PathTypeOK, Drift, checkVars, Entries
  <2>3. /\ FoundBehind' /\ BaselineHeld' /\ MalformedFindsNothing'
        /\ ReturnedMeansDone'
    BY <2>1
    DEF PathInv, FoundBehind, BaselineHeld, MalformedFindsNothing,
        ReturnedMeansDone, Recognisable, Signed, Resembles
  <2>4. FindingsHaveACause'
    BY <2>1 DEF PathInv, FindingsHaveACause, Cause, Resembles, Signed
  <2>. QED
    BY <2>2, <2>3, <2>4 DEF PathInv
<1>7. CASE UNCHANGED vars
  <2>1. UNCHANGED <<siteVars, at, baseline, observations, failed, result>>
    BY <1>7 DEF vars, checkVars
  <2>2. /\ PathTypeOK' /\ ReturnedMeansDone' /\ BaselineHeld'
        /\ MalformedFindsNothing'
    BY <2>1
    DEF PathInv, PathTypeOK, Entries, siteVars, ReturnedMeansDone,
        BaselineHeld, MalformedFindsNothing
  <2>3. FoundBehind'
    BY <2>1 DEF PathInv, FoundBehind, siteVars, Recognisable, Signed, Resembles
  <2>4. FindingsHaveACause'
    BY <2>1 DEF PathInv, FindingsHaveACause, Cause, siteVars, Resembles, Signed
  <2>. QED
    BY <2>2, <2>3, <2>4 DEF PathInv
<1>. QED
  BY <1>1, <1>2, <1>3, <1>4, <1>5, <1>6, <1>7 DEF Next, CheckStep

\* The invariant holds in every run of a check.
LEMMA PathInvariant == Spec => []PathInv
  BY PathInitInv, PathNextInv, PTL DEF Spec

\* The variables keep their types: the loop never walks past its list.
THEOREM PathTypeCorrect == Spec => []PathTypeOK
<1>1. PathInv => PathTypeOK
  BY DEF PathInv
<1>. QED
  BY <1>1, PathInvariant, PTL

\* For all lists, sites and interleavings with the site's changes, every
\* finding has a cause.
THEOREM PathFindingsAreCaused == Spec => []FindingsHaveACause
<1>1. PathInv => FindingsHaveACause
  BY DEF PathInv
<1>. QED
  BY <1>1, PathInvariant, PTL

\* For all of them, every open interface that can be recognised and was heard
\* is found.
THEOREM OpenOnesAreAlwaysFound == Spec => []OpenOnesAreFound
<1>1. PathInv => OpenOnesAreFound
  <2> SUFFICES ASSUME PathInv, result = "returned", ~malformed,
                      NEW i \in open \ failed, Recognisable(i)
               PROVE  i \in observations
    BY DEF OpenOnesAreFound
  <2>1. i < at
    BY SizeIsNat DEF PathInv, PathTypeOK, ReturnedMeansDone, Entries
  <2>. QED
    BY <2>1 DEF PathInv, FoundBehind
<1>. QED
  BY <1>1, PathInvariant, PTL

----------------------------------------------------------------------------
(***************************************************************************)
(* The checks implement HonestReport.                                      *)
(***************************************************************************)
Possible == {i \in Entries : Cause(i)}

\* The report, before the first request, is none; what is owed has a cause.
LEMMA HonestInit == Init => Honest!Init
BY DEF Init, Honest!Init, Honest!NoReport, Owed, Cause, Entries

\* A lost request takes its entry off what is owed, and adds no cause.
LEMMA LostOwesLess ==
  ASSUME UNCHANGED siteVars, failed \subseteq failed'
  PROVE  /\ Owed' \subseteq Owed
         /\ Possible' = Possible
         /\ failed' = failed => Owed' = Owed
BY DEF siteVars, Owed, Recognisable, Signed, Resembles, Possible, Entries, Cause

\* Every step of a check or of the site is one of HonestReport, or none.
LEMMA HonestStep == PathInv /\ [Next]_vars => [Honest!Next]_Honest!vars
<1> SUFFICES ASSUME PathInv, [Next]_vars
             PROVE  [Honest!Next]_Honest!vars
  OBVIOUS
<1>1. CASE /\ ProbePath \/ ProbeBaseline \/ ProbeOffBySlash \/ ProbeFails
           /\ result' = result
  <2>1. /\ UNCHANGED siteVars /\ failed \subseteq failed'
        /\ result = "running"
    BY <1>1
    DEF ProbePath, ProbeBaseline, ProbeOffBySlash, ProbeFails, Working, Lost,
        Answered
  <2>2. Honest!Change
    BY <1>1, <2>1, LostOwesLess DEF Honest!Change, Possible
  <2>. QED
    BY <2>2 DEF Honest!Next
<1>2. CASE ProbeFails /\ result' # result
  <2>1. /\ UNCHANGED <<siteVars, failed, observations>> /\ observations = {}
        /\ result = "running" /\ result' = "error"
    BY <1>2
    DEF ProbeFails, Working, Pass, PathInv, MalformedFindsNothing
  <2>2. Honest!Fail
    BY <2>1, LostOwesLess DEF Honest!Fail, Possible
  <2>. QED
    BY <2>2 DEF Honest!Next
<1>3. CASE ReturnResult
  <2>1. /\ UNCHANGED <<siteVars, observations, failed>>
        /\ result = "running" /\ result' = "returned" /\ at > Size(check)
    BY <1>3 DEF ReturnResult
  <2>2. observations \subseteq Possible
    BY DEF PathInv, PathTypeOK, FindingsHaveACause, Possible
  <2>3. Owed \subseteq observations
    <3> SUFFICES ASSUME ~malformed, NEW i \in open \ failed, Recognisable(i)
                 PROVE  i \in observations
      BY DEF Owed
    <3>1. i < at
      BY <2>1, SizeIsNat DEF PathInv, PathTypeOK, Entries
    <3>. QED
      BY <3>1 DEF PathInv, FoundBehind
  <2>4. Honest!Publish
    BY <2>1, <2>2, <2>3, LostOwesLess DEF Honest!Publish, Possible
  <2>. QED
    BY <2>4 DEF Honest!Next
<1>4. CASE Drift
  <2>1. /\ UNCHANGED <<check, open, malformed, observations, failed, result>>
        /\ shown \subseteq shown'
    BY <1>4 DEF Drift, checkVars
  <2>2. Owed' = Owed
    BY <2>1 DEF Owed, Recognisable, Signed, Resembles
  <2>3. Possible \subseteq Possible'
    BY <2>1 DEF Possible, Cause, Entries, Resembles, Signed
  <2>4. Honest!Change
    BY <2>1, <2>2, <2>3 DEF Honest!Change, Possible
  <2>. QED
    BY <2>4 DEF Honest!Next
<1>5. CASE UNCHANGED vars
  <2>1. UNCHANGED <<siteVars, observations, failed, result>>
    BY <1>5 DEF vars, checkVars
  <2>. QED
    BY <2>1, LostOwesLess DEF Honest!vars, Possible
<1>. QED
  BY <1>1, <1>2, <1>3, <1>4, <1>5
  DEF Next, CheckStep, ProbePath, ProbeBaseline, ProbeOffBySlash

\* A check that works through a list of paths implements HonestReport, for
\* every list and every page: whatever is lost and whatever changes between
\* its requests, its report is an honest one.
THEOREM PathReportsAreHonest == Spec => ReportIsHonest
  BY HonestInit, PathInvariant, HonestStep, PTL
  DEF Spec, ReportIsHonest, Honest!Spec
=============================================================================
