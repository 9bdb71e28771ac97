------------------------------ MODULE PathProbes ------------------------------
(***************************************************************************)
(* The checks that GET a fixed list of paths: exposed_management,          *)
(* directory_listing, config_exposure and verbose_errors, which recognise  *)
(* a page by what it says, and nginx_alias_traversal, which compares two   *)
(* pages.  One run of one of them against a site that may answer 200 for   *)
(* paths it does not know, may lose a request, and may change what it      *)
(* answers for unknown paths (a maintenance page) while the check runs.    *)
(*                                                                         *)
(* Paths are numbered in the order of the check's list.  Of a page only    *)
(* its status (200 or not) and the words some check looks for are kept.    *)
(***************************************************************************)
EXTENDS Naturals, Sequences, FiniteSets

CONSTANTS
  Signatures,  \* the list of each check that looks for words
  Words,       \* the words a page may say
  Genuine,     \* the page an open interface has at each entry of these lists
  Fallbacks,   \* the pages a site may have for the paths it does not know
  Prefixes,    \* how many prefixes nginx_alias_traversal tries
  MaxOpen,     \* bound on the open entries of a site
  MaxFailures, \* bound on the requests that fail
  MaxDrift     \* bound on how often the page for unknown paths changes

WordChecks == DOMAIN Signatures
Alias == "nginx_alias_traversal"
Checks == WordChecks \cup {Alias}

Size(c) == IF c = Alias THEN Prefixes ELSE Len(Signatures[c])

\* A page without words is an empty one, which a body never equals.
Page == [ok : BOOLEAN, says : SUBSET Words]

\* query: the path is written with one; any: the status is not looked at.
Signature == [path : STRING, query : BOOLEAN, any : BOOLEAN,
              markers : SUBSET Words]

ASSUME TableAssumption ==
  /\ Signatures \in [WordChecks -> Seq(Signature)]
  /\ Alias \notin WordChecks
  /\ DOMAIN Genuine = WordChecks
  /\ \A c \in WordChecks : Genuine[c] \in [1..Len(Signatures[c]) -> Page]
ASSUME PageAssumption == "file" \in Words /\ Fallbacks \subseteq Page
ASSUME BoundAssumption == /\ Prefixes \in Nat /\ MaxOpen \in Nat
                          /\ MaxFailures \in Nat /\ MaxDrift \in Nat

VARIABLES
  check,        \* the check that runs
  open,         \* entries whose interface is open (off-by-slash locations)
  strict,       \* prefixes with a file behind a well-formed location
  fallback,     \* the page for the paths the site does not know
  shown,        \* every page fallback has been
  drifts,       \* how often it has changed
  malformed,    \* the target URL does not parse
  at,           \* the entry the check is at
  baseline,     \* nginx_alias_traversal's page in hand, if any
  observations, \* entries reported
  failed,       \* entries a request of which failed
  result        \* running, returned, or error (Result.Err)

siteVars == <<check, open, strict, fallback, shown, drifts, malformed>>
checkVars == <<at, baseline, observations, failed, result>>
vars == <<siteVars, checkVars>>

NoPage == [ok |-> FALSE, says |-> {}]

Entries == 1..Size(check)

\* The variables keep their types; at is at most one past the last entry, so
\* the loop over the table looks at each once (pathsignature.go: ProbePaths).
PathTypeOK ==
  /\ check \in Checks
  /\ open \subseteq Entries /\ strict \subseteq Entries
  /\ fallback \in shown /\ shown \subseteq Fallbacks
  /\ drifts \in 0..MaxDrift
  /\ malformed \in BOOLEAN
  /\ at \in 1..(Size(check) + 1)
  /\ baseline \in Page
  /\ observations \subseteq Entries /\ failed \subseteq Entries
  /\ result \in {"running", "returned", "error"}

Init ==
  /\ check \in Checks
  /\ open \in {s \in SUBSET Entries : Cardinality(s) <= MaxOpen}
  /\ strict \in SUBSET (IF check = Alias THEN Entries ELSE {})
  /\ fallback \in Fallbacks
  /\ shown = {fallback}
  /\ drifts = 0
  /\ malformed \in BOOLEAN
  /\ at = 1
  /\ baseline = NoPage
  /\ observations = {}
  /\ failed = {}
  /\ result = "running"

----------------------------------------------------------------------------
Signed(i) == Signatures[check][i]

\* ResolvePath sets u.Path, so a '?' of the entry is escaped and the request
\* is for a path the site does not know.
Resolved(i) == IF Signed(i).query THEN fallback
               ELSE IF i \in open THEN Genuine[check][i] ELSE fallback

\* Mutant of Match: the words alone decide.
MatchWords(sig, page) == sig.markers \cap page.says # {}

\* Match, and hasVerboseMarker, which does not look at the status.
Match(sig, page) == /\ sig.any \/ page.ok
                    /\ sig.markers \cap page.says # {}

\* The client got an answer / client.Do failed.
Answered == UNCHANGED failed
Lost == Cardinality(failed) < MaxFailures /\ failed' = failed \cup {at}

\* The loop's next round.
NextEntry == at' = at + 1

\* Mutant of Pass: an entry that shows nothing ends the loop.
PassEnds == observations' = observations /\ at' = Size(check) + 1

\* Mutant of Pass: such an entry is looked at again.
PassAgain == UNCHANGED <<observations, at>>

\* continue
Pass == observations' = observations /\ NextEntry

Report == observations' = observations \cup {at} /\ NextEntry

Working == result = "running" /\ at <= Size(check)

\* ProbePaths, and the two requests of verbose_errors.
ProbePath ==
  /\ Working /\ ~malformed /\ check \in WordChecks
  /\ \/ Lost /\ Pass
     \/ Answered /\ Match(Signed(at), Resolved(at)) /\ Report
     \/ Answered /\ ~Match(Signed(at), Resolved(at)) /\ Pass
  /\ UNCHANGED <<siteVars, baseline, result>>

\* The file a prefix serves is unlike any other page.
File(i) == [ok |-> TRUE, says |-> {"file"}]

WellFormed(i) == IF i \in open \cup strict THEN File(i) ELSE fallback
OffBySlash(i) == IF i \in open THEN File(i) ELSE fallback

Usable(page) == page.ok /\ page.says # {}

\* The well-formed request of a prefix.
ProbeBaseline ==
  /\ Working /\ ~malformed /\ check = Alias /\ baseline = NoPage
  /\ \/ Lost /\ Pass /\ baseline' = NoPage
     \/ Answered /\ ~Usable(WellFormed(at)) /\ Pass /\ baseline' = NoPage
     \/ /\ Answered /\ Usable(WellFormed(at))
        /\ baseline' = WellFormed(at)
        /\ UNCHANGED <<observations, at>>
  /\ UNCHANGED <<siteVars, result>>

\* bytes.Equal of the two bodies, both with status 200.
Equal(page) == page.ok /\ page.says = baseline.says

\* The request without the slash.
ProbeOffBySlash ==
  /\ Working /\ check = Alias /\ baseline # NoPage
  /\ \/ Lost /\ Pass
     \/ Answered /\ Equal(OffBySlash(at)) /\ Report
     \/ Answered /\ ~Equal(OffBySlash(at)) /\ Pass
  /\ baseline' = NoPage
  /\ UNCHANGED <<siteVars, result>>

\* Mutant of ProbeFails: a request that fails is the check's error as well.
ProbeFailsOnLost ==
  /\ Working
  /\ \/ malformed /\ UNCHANGED failed
     \/ ~malformed /\ Lost
  /\ result' = "error"
  /\ UNCHANGED <<siteVars, baseline, at, observations>>

\* verbose_errors drops the error of a URL that does not parse; the others
\* return it.
ProbeFails ==
  /\ Working /\ malformed
  /\ \/ check = "verbose_errors" /\ Pass /\ UNCHANGED result
     \/ /\ check # "verbose_errors" /\ result' = "error"
        /\ UNCHANGED <<observations, at>>
  /\ UNCHANGED <<siteVars, baseline, failed>>

ReturnResult ==
  /\ result = "running" /\ at > Size(check)
  /\ result' = "returned"
  /\ UNCHANGED <<siteVars, at, baseline, observations, failed>>

\* The site changes its page for unknown paths.
Drift ==
  /\ drifts < MaxDrift
  /\ drifts' = drifts + 1
  /\ fallback' \in Fallbacks
  /\ shown' = shown \cup {fallback'}
  /\ UNCHANGED <<check, open, strict, malformed, checkVars>>

CheckStep == \/ ProbePath \/ ProbeBaseline \/ ProbeOffBySlash
             \/ ProbeFails \/ ReturnResult

Next == CheckStep \/ Drift

Spec == Init /\ [][Next]_vars /\ WF_vars(CheckStep)

----------------------------------------------------------------------------
(***************************************************************************)
(* Properties.                                                             *)
(***************************************************************************)

\* A page of an interface that is there, by its status and what it says.
Resembles(i, page) == /\ page.ok \/ Signed(i).any
                      /\ \E word \in page.says : word \in Signed(i).markers

\* The site gives cause for a finding of entry i: the interface is open, or
\* what it answers for unknown paths looks like one, a page with one of the
\* entry's words, or (to nginx_alias_traversal) any page at all with 200.
Cause(i) ==
  \/ i \in open
  \/ \E page \in shown : IF check = Alias THEN Usable(page)
                                          ELSE Resembles(i, page)

\* No check reports an entry the site gives no cause for, whatever was lost
\* and whatever changed between two requests: a site that answers 404 for the
\* paths it does not know is reported for its open interfaces alone.
FindingsHaveACause == \A i \in observations : Cause(i)

\* The code can ask for the entry, and knows what an open one says.
Recognisable(i) ==
  check = Alias \/ (~Signed(i).query /\ Resembles(i, Genuine[check][i]))

\* A check that returns has reported every open interface that it can
\* recognise and whose requests got an answer: a lost request hides its own
\* entry only, and no page for unknown paths hides any.
OpenOnesAreFound ==
  (result = "returned" /\ ~malformed) =>
    \A i \in open \ failed : Recognisable(i) => i \in observations

\* What a check is bound to report: what it can recognise and was told of.
Owed == IF malformed THEN {} ELSE {i \in open \ failed : Recognisable(i)}

\* However many requests are lost and however the site changes while the list
\* is worked through, the report is an honest one: every entry in it has a
\* cause, every recognisable one that was heard is in it, it is never
\* amended, and an error comes before the first finding, never after one
\* that would be lost with it.
Honest == INSTANCE HonestReport WITH
  possible <- {i \in Entries : Cause(i)},
  certain <- Owed,
  report <- [ended |-> result # "running", failed |-> result = "error",
             found |-> IF result = "running" THEN {} ELSE observations]

ReportIsHonest == Honest!Spec

\* Requests end, so the check does, however often the site changes.
ProbesEnd == <>(result # "running")

\* docs/checks/disclosure.mdx: HAProxy's `/haproxy?stats` is among the paths
\* probed, so a page that says what the signature looks for is found there.
ListedPathsAreProbed ==
  (result = "returned" /\ ~malformed) =>
    \A i \in open \ failed :
      (check # Alias /\ Resembles(i, Genuine[check][i]))
        => i \in observations
=============================================================================
