----------------------------- MODULE BypassLoop -----------------------------
(***************************************************************************)
(* The loop path_bypass, method_bypass and acl_bypass share: for each      *)
(* candidate path, a plain GET; if that is denied, the path's retries in   *)
(* order - another spelling, another verb, a spoofed client IP - until one *)
(* is granted, which is reported and ends the path.                        *)
(*                                                                         *)
(* Paths and retries are numbered in the order of the check's lists;       *)
(* request 0 of a path is its plain GET.  The site answers by a policy     *)
(* that may change while the check runs (a deployment, a lockout, a rate   *)
(* limit): the check compares two answers given at different times.        *)
(***************************************************************************)
EXTENDS Naturals, FiniteSets

CONSTANTS
  NP,        \* candidate paths
  NV,        \* retries of a denied path
  Answers,   \* the answers the site gives, among AllAnswers
  MaxDrift   \* bound on how often the site's policy changes

\* What a request meets at the site: the path's own content (2xx), 401/403, a
\* redirect to a page that answers 2xx ("login") or 401/403 ("moved"), any
\* other status, or a connection that fails.
AllAnswers == {"content", "denied", "login", "moved", "other", "reset"}

ASSUME SizeAssumption == NP \in Nat /\ NV \in Nat \ {0}
ASSUME AnswerAssumption == Answers \subseteq AllAnswers
ASSUME DriftAssumption == MaxDrift \in Nat

VARIABLES
  policy,       \* the site: its answer to each request of each path
  drifts,       \* how often policy has changed
  ever,         \* history: every answer policy has held for each request
  malformed,    \* the target URL does not parse
  path,         \* the candidate path the check is at
  request,      \* the request of that path it sends next
  observations, \* the findings so far
  result        \* running, returned, or error (Result.Err)

siteVars == <<policy, drifts, ever, malformed>>
checkVars == <<path, request, observations, result>>
vars == <<siteVars, checkVars>>

Paths == 1..NP
Requests == 0..NV
Retries == 1..NV

Observation == [path : Paths, retry : Retries, answer : AllAnswers]

TypeOK ==
  /\ policy \in [Paths -> [Requests -> Answers]]
  /\ drifts \in 0..MaxDrift
  /\ ever \in [Paths -> [Requests -> SUBSET Answers]]
  /\ malformed \in BOOLEAN
  /\ path \in 1..(NP + 1)
  /\ request \in Requests
  /\ observations \subseteq Observation
  /\ result \in {"running", "returned", "error"}

Init ==
  /\ policy \in [Paths -> [Requests -> Answers]]
  /\ drifts = 0
  /\ ever = [p \in Paths |-> [r \in Requests |-> {policy[p][r]}]]
  /\ malformed \in BOOLEAN
  /\ path = 1
  /\ request = 0
  /\ observations = {}
  /\ result = "running"

----------------------------------------------------------------------------
\* do: the client follows redirects, so what the check sees of one is the
\* status of the page it leads to; a failed connection is Err.
Seen(answer) == CASE answer \in {"content", "login"} -> "2xx"
                  [] answer \in {"denied", "moved"} -> "401 or 403"
                  [] answer = "reset" -> "Err"
                  [] OTHER -> "other"

denied(seen) == seen = "401 or 403"
granted(seen) == seen = "2xx"

Answer == policy[path][request]

\* Mutant of NextPath: after a denied path, the next is taken to be denied too.
NextPathAssumedDenied ==
  path' = path + 1 /\ request' = IF request = 0 THEN 0 ELSE 1

NextPath == path' = path + 1 /\ request' = 0

\* Mutant of NextRetry: a retry whose connection fails is sent again.
NextRetryUnlessReset ==
  CASE Seen(Answer) = "Err" -> UNCHANGED <<path, request>>
    [] Seen(Answer) # "Err" /\ request = NV -> NextPath
    [] OTHER -> request' = request + 1 /\ path' = path

\* The loop's next round, or its end.
NextRetry == IF request = NV THEN NextPath
                             ELSE request' = request + 1 /\ path' = path

\* Mutant of Break: the loop goes on after a finding.
NoBreak == NextRetry

\* break, which ends the path's retries.
Break == NextPath

\* observations = append(observations, ...).
Report(o) == observations' = observations \cup {o}

\* Mutant of ProbeFails: a connection that fails is the check's error as well.
ProbeFailsOnReset ==
  /\ result = "running"
  /\ path <= NP
  /\ malformed \/ Seen(Answer) = "Err"
  /\ result' = "error"
  /\ UNCHANGED <<siteVars, path, request, observations>>

\* ProbeRawPath (ProbePath) fails before sending anything: the URL of the
\* target does not parse.
ProbeFails ==
  /\ result = "running"
  /\ malformed /\ path <= NP
  /\ result' = "error"
  /\ UNCHANGED <<siteVars, path, request, observations>>

\* The plain GET: a path that is not denied is left alone.
ProbeBaseline ==
  /\ result = "running"
  /\ ~malformed /\ path <= NP /\ request = 0
  /\ \/ /\ denied(Seen(Answer))
        /\ request' = 1
        /\ path' = path
     \/ /\ ~denied(Seen(Answer))
        /\ NextPath
  /\ UNCHANGED <<siteVars, observations, result>>

\* A retry: the first one granted is the path's finding.
TryRetry ==
  /\ result = "running"
  /\ ~malformed /\ path <= NP /\ request # 0
  /\ \/ /\ granted(Seen(Answer))
        /\ Report([path |-> path, retry |-> request, answer |-> Answer])
        /\ Break
     \/ /\ ~granted(Seen(Answer))
        /\ observations' = observations
        /\ NextRetry
  /\ UNCHANGED <<siteVars, result>>

ReturnResult ==
  /\ result = "running"
  /\ path = NP + 1
  /\ result' = "returned"
  /\ UNCHANGED <<siteVars, path, request, observations>>

\* The site changes its answer to one request.
Drift ==
  /\ drifts < MaxDrift
  /\ drifts' = drifts + 1
  /\ \E p \in Paths, r \in Requests, a \in Answers :
       /\ policy' = [policy EXCEPT ![p][r] = a]
       /\ ever' = [ever EXCEPT ![p][r] = @ \cup {a}]
  /\ UNCHANGED <<malformed, checkVars>>

CheckStep == ProbeFails \/ ProbeBaseline \/ TryRetry \/ ReturnResult

Next == CheckStep \/ Drift

Spec == Init /\ [][Next]_vars /\ WF_vars(CheckStep)

----------------------------------------------------------------------------
(***************************************************************************)
(* Properties.                                                             *)
(***************************************************************************)

\* Retry r is the first that gets through at a path whose plain GET does not.
FirstBypass(p, r) ==
  /\ denied(Seen(policy[p][0]))
  /\ granted(Seen(policy[p][r]))
  /\ \A q \in 1..(r - 1) : ~granted(Seen(policy[p][q]))

Bypass(p, r) == [path |-> p, retry |-> r, answer |-> policy[p][r]]

Bypasses == {o \in Observation : /\ FirstBypass(o.path, o.retry)
                                 /\ o = Bypass(o.path, o.retry)}

\* Against a site that does not change meanwhile, the check reports exactly
\* the bypasses the site has, each by its first working retry: none missed
\* after an earlier path's finding, none taken from another path's baseline.
ReportsExactlyTheBypasses ==
  (result = "returned" /\ drifts = 0) => observations = Bypasses

\* Whatever the site does meanwhile, a path is reported at most once.
OneFindingPerPath ==
  \A o1, o2 \in observations : o1.path = o2.path => o1 = o2

\* A path the site gave cause to report: at some time its plain GET was
\* denied, and at some time one of its retries was granted.
MayBypass(p) ==
  /\ \E a \in ever[p][0] : denied(Seen(a))
  /\ \E r \in Retries : \E a \in ever[p][r] : granted(Seen(a))

\* A path that had a bypass all the time.
AlwaysBypass(p) ==
  /\ \A a \in ever[p][0] : denied(Seen(a))
  /\ \E r \in Retries : \A a \in ever[p][r] : granted(Seen(a))

\* However the site changes between the requests whose answers the check
\* compares, its report is an honest one: no path that was never denied or
\* never got through, every path that had a bypass throughout, and no
\* findings beside an error, with which they would be lost.
Honest == INSTANCE HonestReport WITH
  possible <- {p \in Paths : MayBypass(p)},
  certain <- {p \in Paths : AlwaysBypass(p)},
  report <- [ended |-> result # "running", failed |-> result = "error",
             found |-> IF result = "running" THEN {}
                       ELSE {o.path : o \in observations}]

ReportIsHonest == Honest!Spec

\* However the site changes, the check ends.
CheckEnds == <>(result # "running")
=============================================================================
