-------------------------- MODULE BypassLoopProofs --------------------------
(***************************************************************************)
(* Proofs about the bypass checks, for every number of paths and retries,  *)
(* every set of answers and however often the site changes.                *)
(***************************************************************************)
EXTENDS MethodBypass, TLAPS

\* What the loop has established about the path it is at: its plain GET was
\* denied, and the retries before the next were not granted.
Tried ==
  (drifts = 0 /\ path <= NP /\ request # 0) =>
    /\ denied(Seen(policy[path][0]))
    /\ \A q \in 1..(request - 1) : ~granted(Seen(policy[path][q]))

\* What it has established about the paths behind it.
FoundSoFar == drifts = 0 => observations = {o \in Bypasses : o.path < path}

Behind == \A o \in observations : o.path < path

AtTheEnd == /\ path = NP + 1 => request = 0
            /\ result = "returned" => path = NP + 1

ErrorMeansMalformed == /\ malformed => observations = {} /\ path = 1
                       /\ result = "error" => malformed

LoopInv == /\ TypeOK
           /\ Tried
           /\ FoundSoFar
           /\ Behind
           /\ OneFindingPerPath
           /\ AtTheEnd
           /\ ErrorMeansMalformed

\* A retry that is the first one granted at a denied path is the only first
\* bypass the path has.
LEMMA FirstBypassUnique ==
  ASSUME NEW p \in Paths, NEW r \in Retries, NEW s \in Retries,
         FirstBypass(p, r), FirstBypass(p, s)
  PROVE  r = s
  BY SizeAssumption DEF FirstBypass, Retries

\* The loop starts with nothing established and nothing found.
LEMMA LoopInitInv == Init => LoopInv
<1> SUFFICES ASSUME Init PROVE LoopInv
  OBVIOUS
<1>1. TypeOK
  BY SizeAssumption, DriftAssumption DEF Init, TypeOK, Requests
<1>2. {o \in Bypasses : o.path < 1} = {}
  BY SizeAssumption DEF Bypasses, Observation, Paths
<1>. QED
  BY <1>1, <1>2, SizeAssumption
  DEF Init, LoopInv, Tried, FoundSoFar, Behind, OneFindingPerPath, AtTheEnd,
      ErrorMeansMalformed

\* A path without a bypass adds none to those behind the next path.
LEMMA NothingAtPath ==
  ASSUME TypeOK, path \in Paths, \A r \in Retries : ~FirstBypass(path, r)
  PROVE  {o \in Bypasses : o.path < path + 1} = {o \in Bypasses : o.path < path}
<1> SUFFICES ASSUME NEW o \in Bypasses, o.path < path + 1
             PROVE  o.path < path
  BY SizeAssumption DEF Bypasses, Observation, Paths
<1>1. o.path \in Paths /\ o.retry \in Retries /\ FirstBypass(o.path, o.retry)
  BY DEF Bypasses, Observation
<1>2. o.path # path
  BY <1>1
<1>. QED
  BY <1>1, <1>2, SizeAssumption DEF Paths

\* A path with a bypass adds exactly its first one.
LEMMA OneAtPath ==
  ASSUME TypeOK, AnswerAssumption, path \in Paths,
         NEW r \in Retries, FirstBypass(path, r)
  PROVE  {o \in Bypasses : o.path < path + 1}
           = {o \in Bypasses : o.path < path} \cup {Bypass(path, r)}
<1>1. policy[path][r] \in AllAnswers
  BY SizeAssumption, AnswerAssumption
  DEF TypeOK, Paths, Retries, Requests
<1>2. Bypass(path, r) \in Bypasses /\ Bypass(path, r).path = path
  BY <1>1 DEF Bypasses, Bypass, Observation
<1>3. ASSUME NEW o \in Bypasses, o.path < path + 1
      PROVE  o.path < path \/ o = Bypass(path, r)
  <2>1. o.path \in Paths /\ o.retry \in Retries /\ FirstBypass(o.path, o.retry)
          /\ o = Bypass(o.path, o.retry)
    BY DEF Bypasses, Observation
  <2>2. CASE o.path = path
    BY <2>1, <2>2, FirstBypassUnique
  <2>3. CASE o.path # path
    BY <1>3, <2>1, <2>3, SizeAssumption DEF Paths
  <2>. QED
    BY <2>2, <2>3
<1>4. \A o \in Bypasses : o.path \in Paths
  BY DEF Bypasses, Observation
<1>. QED
  BY <1>2, <1>3, <1>4, SizeAssumption DEF Paths

----------------------------------------------------------------------------
\* The plain GET keeps the invariant: a denied one opens the retries, any
\* other shows that the path has no bypass.
LEMMA BaselineInv == LoopInv /\ ProbeBaseline => LoopInv'
<1> SUFFICES ASSUME LoopInv, ProbeBaseline PROVE LoopInv'
  OBVIOUS
<1>1. /\ path \in Paths /\ request = 0 /\ ~malformed /\ result = "running"
      /\ UNCHANGED <<policy, drifts, ever, malformed, observations, result>>
      /\ TypeOK
  BY SizeAssumption
  DEF LoopInv, TypeOK, ProbeBaseline, siteVars, Paths
<1>2. CASE denied(Seen(policy[path][0])) /\ request' = 1 /\ path' = path
  <2>1. TypeOK'
    BY <1>1, <1>2, SizeAssumption DEF TypeOK, Requests
  <2>2. Tried'
    BY <1>1, <1>2, SizeAssumption DEF Tried
  <2>3. FoundSoFar'
    BY <1>1, <1>2
    DEF LoopInv, FoundSoFar, Bypasses, FirstBypass, Bypass
  <2>4. Behind' /\ OneFindingPerPath'
    BY <1>1, <1>2 DEF LoopInv, Behind, OneFindingPerPath
  <2>5. AtTheEnd' /\ ErrorMeansMalformed'
    BY <1>1, <1>2, SizeAssumption
    DEF LoopInv, AtTheEnd, ErrorMeansMalformed, Paths
  <2>. QED
    BY <2>1, <2>2, <2>3, <2>4, <2>5 DEF LoopInv
<1>3. CASE ~denied(Seen(policy[path][0])) /\ NextPath
  <2>0. path' = path + 1 /\ request' = 0
    BY <1>3 DEF NextPath
  <2>1. TypeOK'
    BY <1>1, <2>0, SizeAssumption DEF TypeOK, Requests, Paths
  <2>2. Tried'
    BY <2>0 DEF Tried
  <2>3. FoundSoFar'
    <3>1. \A r \in Retries : ~FirstBypass(path, r)
      BY <1>3 DEF FirstBypass
    <3>2. {o \in Bypasses : o.path < path + 1} = {o \in Bypasses : o.path < path}
      BY <1>1, <3>1, NothingAtPath
    <3>3. Bypasses' = Bypasses
      BY <1>1 DEF Bypasses, FirstBypass, Bypass
    <3>. QED
      BY <1>1, <2>0, <3>2, <3>3 DEF LoopInv, FoundSoFar
  <2>4. Behind' /\ OneFindingPerPath'
    <3>1. \A o \in observations : o.path \in Paths /\ o.path < path
      BY <1>1 DEF LoopInv, Behind, TypeOK, Observation
    <3>. QED
      BY <1>1, <2>0, <3>1, SizeAssumption
      DEF LoopInv, Behind, OneFindingPerPath, Paths
  <2>5. AtTheEnd' /\ ErrorMeansMalformed'
    BY <1>1, <2>0 DEF LoopInv, AtTheEnd, ErrorMeansMalformed
  <2>. QED
    BY <2>1, <2>2, <2>3, <2>4, <2>5 DEF LoopInv
<1>. QED
  BY <1>2, <1>3 DEF ProbeBaseline, Answer, LoopInv

\* A retry that is granted is the path's first bypass and its only finding.
LEMMA GrantedInv ==
  ASSUME LoopInv, TryRetry, granted(Seen(Answer)),
         Report([path |-> path, retry |-> request, answer |-> Answer]), Break
  PROVE  LoopInv'
<1> DEFINE o == Bypass(path, request)
<1>1. /\ path \in Paths /\ request \in Retries
      /\ ~malformed /\ result = "running"
      /\ UNCHANGED <<policy, drifts, ever, malformed, result>>
      /\ path' = path + 1 /\ request' = 0
      /\ observations' = observations \cup {o}
      /\ TypeOK
  BY SizeAssumption
  DEF LoopInv, TypeOK, TryRetry, siteVars, Break, NextPath, Report, Bypass,
      Answer, Paths, Retries, Requests
<1>2. o \in Observation /\ o.path = path
  BY <1>1, AnswerAssumption, SizeAssumption
  DEF Observation, Bypass, TypeOK, Requests, Retries, Paths
<1>3. TypeOK'
  BY <1>1, <1>2, SizeAssumption DEF TypeOK, Requests, Paths
<1>4. Tried'
  BY <1>1 DEF Tried
<1>5. FoundSoFar'
  <2> SUFFICES ASSUME drifts = 0
               PROVE  observations' = {b \in Bypasses : b.path < path + 1}
    <3>1. Bypasses' = Bypasses
      BY <1>1 DEF Bypasses, FirstBypass, Bypass
    <3>. QED
      BY <1>1, <3>1 DEF FoundSoFar
  <2>1. path <= NP /\ request # 0
    BY <1>1, SizeAssumption DEF Paths, Retries
  <2>2. FirstBypass(path, request)
    BY <1>1, <2>1 DEF LoopInv, Tried, FirstBypass, Answer
  <2>3. {b \in Bypasses : b.path < path + 1}
          = {b \in Bypasses : b.path < path} \cup {o}
    BY <1>1, <2>2, OneAtPath, AnswerAssumption
  <2>. QED
    BY <1>1, <2>3 DEF LoopInv, FoundSoFar
<1>6. Behind' /\ OneFindingPerPath'
  <2>1. \A b \in observations : b.path \in Paths /\ b.path < path
    BY <1>1 DEF LoopInv, Behind, TypeOK, Observation
  <2>2. \A b \in observations' : b.path < path + 1
    BY <1>1, <1>2, <2>1, SizeAssumption DEF Paths
  <2>3. \A a, b \in observations' : a.path = b.path => a = b
    BY <1>1, <1>2, <2>1, SizeAssumption
    DEF LoopInv, OneFindingPerPath, Paths
  <2>. QED
    BY <1>1, <2>2, <2>3 DEF Behind, OneFindingPerPath
<1>7. AtTheEnd' /\ ErrorMeansMalformed'
  BY <1>1 DEF LoopInv, AtTheEnd, ErrorMeansMalformed
<1>. QED
  BY <1>3, <1>4, <1>5, <1>6, <1>7 DEF LoopInv

\* A retry that is not granted leads to the next, or shows that the path has
\* no bypass.
LEMMA RefusedInv ==
  ASSUME LoopInv, TryRetry, ~granted(Seen(Answer)),
         observations' = observations, NextRetry
  PROVE  LoopInv'
<1>1. /\ path \in Paths /\ request \in Retries
      /\ ~malformed /\ result = "running"
      /\ UNCHANGED <<policy, drifts, ever, malformed, result, observations>>
      /\ TypeOK
  BY SizeAssumption
  DEF LoopInv, TypeOK, TryRetry, siteVars, Paths, Retries, Requests
<1>2. Bypasses' = Bypasses
  BY <1>1 DEF Bypasses, FirstBypass, Bypass
<1>3. path <= NP /\ request # 0 /\ path \in Nat /\ request \in Nat
  BY <1>1, SizeAssumption DEF Paths, Retries
<1>4. CASE request # NV /\ request' = request + 1 /\ path' = path
  <2>1. TypeOK'
    BY <1>1, <1>4, SizeAssumption DEF TypeOK, Requests, Retries
  <2>2. Tried'
    <3> SUFFICES ASSUME drifts = 0, NEW q \in 1..request
                 PROVE  /\ denied(Seen(policy[path][0]))
                        /\ ~granted(Seen(policy[path][q]))
      BY <1>1, <1>3, <1>4 DEF Tried
    <3>1. q = request \/ q \in 1..(request - 1)
      BY <1>3
    <3>. QED
      BY <1>3, <3>1 DEF LoopInv, Tried, Answer
  <2>3. FoundSoFar' /\ Behind' /\ OneFindingPerPath'
    BY <1>1, <1>2, <1>4
    DEF LoopInv, FoundSoFar, Behind, OneFindingPerPath
  <2>4. AtTheEnd' /\ ErrorMeansMalformed'
    BY <1>1, <1>3, <1>4, SizeAssumption
    DEF LoopInv, AtTheEnd, ErrorMeansMalformed
  <2>. QED
    BY <2>1, <2>2, <2>3, <2>4 DEF LoopInv
<1>5. CASE request = NV /\ NextPath
  <2>0. path' = path + 1 /\ request' = 0
    BY <1>5 DEF NextPath
  <2>1. TypeOK'
    BY <1>1, <2>0, SizeAssumption DEF TypeOK, Requests, Paths
  <2>2. Tried'
    BY <2>0 DEF Tried
  <2>3. FoundSoFar'
    <3> SUFFICES ASSUME drifts = 0
                 PROVE  observations = {o \in Bypasses : o.path < path + 1}
      BY <1>1, <1>2, <2>0 DEF FoundSoFar
    <3>1. \A q \in Retries : ~granted(Seen(policy[path][q]))
      <4> SUFFICES ASSUME NEW q \in Retries
                   PROVE  ~granted(Seen(policy[path][q]))
        OBVIOUS
      <4>1. q = request \/ q \in 1..(request - 1)
        BY <1>3, <1>5 DEF Retries
      <4>. QED
        BY <1>3, <4>1 DEF LoopInv, Tried, Answer
    <3>2. \A r \in Retries : ~FirstBypass(path, r)
      BY <3>1 DEF FirstBypass
    <3>3. {o \in Bypasses : o.path < path + 1} = {o \in Bypasses : o.path < path}
      BY <1>1, <3>2, NothingAtPath
    <3>. QED
      BY <3>3 DEF LoopInv, FoundSoFar
  <2>4. Behind' /\ OneFindingPerPath'
    <3>1. \A o \in observations : o.path \in Paths /\ o.path < path
      BY <1>1 DEF LoopInv, Behind, TypeOK, Observation
    <3>. QED
      BY <1>1, <2>0, <3>1, SizeAssumption
      DEF LoopInv, Behind, OneFindingPerPath, Paths
  <2>5. AtTheEnd' /\ ErrorMeansMalformed'
    BY <1>1, <2>0 DEF LoopInv, AtTheEnd, ErrorMeansMalformed
  <2>. QED
    BY <2>1, <2>2, <2>3, <2>4, <2>5 DEF LoopInv
<1>. QED
  BY <1>4, <1>5 DEF NextRetry

\* Every step of the check and of the site keeps the invariant.
LEMMA LoopNextInv == LoopInv /\ [Next]_vars => LoopInv'
<1> SUFFICES ASSUME LoopInv, [Next]_vars PROVE LoopInv'
  OBVIOUS
<1>1. CASE ProbeBaseline
  BY <1>1, BaselineInv
<1>2. CASE TryRetry
  BY <1>2, GrantedInv, RefusedInv DEF TryRetry
<1>3. CASE ProbeFails
  BY <1>3
  DEF LoopInv, ProbeFails, siteVars, TypeOK, Tried, FoundSoFar, Behind,
      OneFindingPerPath, AtTheEnd, ErrorMeansMalformed, Bypasses, FirstBypass,
      Bypass
<1>4. CASE ReturnResult
  BY <1>4
  DEF LoopInv, ReturnResult, siteVars, TypeOK, Tried, FoundSoFar, Behind,
      OneFindingPerPath, AtTheEnd, ErrorMeansMalformed, Bypasses, FirstBypass,
      Bypass
<1>5. CASE Drift
  <2>1. /\ drifts \in Nat /\ drifts' = drifts + 1 /\ drifts < MaxDrift
        /\ UNCHANGED <<malformed, path, request, observations, result>>
        /\ TypeOK
    BY <1>5, DriftAssumption DEF LoopInv, TypeOK, Drift, checkVars
  <2>2. /\ policy' \in [Paths -> [Requests -> Answers]]
        /\ ever' \in [Paths -> [Requests -> SUBSET Answers]]
    BY <1>5, <2>1 DEF TypeOK, Drift
  <2>3. TypeOK'
    BY <2>1, <2>2, DriftAssumption DEF TypeOK
  <2>. QED
    BY <2>1, <2>3
    DEF LoopInv, Tried, FoundSoFar, Behind, OneFindingPerPath, AtTheEnd,
        ErrorMeansMalformed
<1>6. CASE UNCHANGED vars
  BY <1>6
  DEF LoopInv, vars, siteVars, checkVars, TypeOK, Tried, FoundSoFar, Behind,
      OneFindingPerPath, AtTheEnd, ErrorMeansMalformed, Bypasses, FirstBypass,
      Bypass
<1>. QED
  BY <1>1, <1>2, <1>3, <1>4, <1>5, <1>6 DEF Next, CheckStep

\* The loop's invariant holds in every run of a bypass check.
THEOREM LoopInvariant == Spec => []LoopInv
  BY LoopInitInv, LoopNextInv, PTL DEF Spec

\* The variables of a bypass check keep their types.
THEOREM LoopTypeCorrect == Spec => []TypeOK
<1>1. LoopInv => TypeOK
  BY DEF LoopInv
<1>. QED
  BY <1>1, LoopInvariant, PTL

\* Against a site that does not change, a bypass check reports exactly the
\* first working retry of every denied path that has one, however many paths
\* and retries there are.
THEOREM BypassesAreReportedExactly == Spec => []ReportsExactlyTheBypasses
<1>1. LoopInv => ReportsExactlyTheBypasses
  <2> SUFFICES ASSUME LoopInv, result = "returned", drifts = 0
               PROVE  observations = Bypasses
    BY DEF ReportsExactlyTheBypasses
  <2>1. observations = {o \in Bypasses : o.path < NP + 1}
    BY DEF LoopInv, FoundSoFar, AtTheEnd
  <2>2. \A o \in Bypasses : o.path < NP + 1
    BY SizeAssumption DEF Bypasses, Observation, Paths
  <2>. QED
    BY <2>1, <2>2
<1>. QED
  BY <1>1, LoopInvariant, PTL

\* However the site changes, no path is reported twice.
THEOREM PathsAreReportedOnce == Spec => []OneFindingPerPath
<1>1. LoopInv => OneFindingPerPath
  BY DEF LoopInv
<1>. QED
  BY <1>1, LoopInvariant, PTL

----------------------------------------------------------------------------
(***************************************************************************)
(* Bypass checks implement HonestReport: what the loop has established     *)
(* about the site at any time of the run, instead of about its policy now. *)
(***************************************************************************)

\* The history is a history.
PolicyIsInEver == \A p \in Paths, r \in Requests : policy[p][r] \in ever[p][r]

\* Path p's plain GET was denied at some time.
WasDenied(p) == \E a \in ever[p][0] : denied(Seen(a))

\* The retries of the path at hand that are behind the loop were refused at
\* some time each, so none of them worked throughout.
TriedOnce ==
  (path <= NP /\ request # 0) =>
    /\ WasDenied(path)
    /\ \A q \in 1..(request - 1) : \E a \in ever[path][q] : ~granted(Seen(a))

\* Findings are of paths the site gave cause to report.
FindingsMayBypass == \A o \in observations : MayBypass(o.path)

\* A path behind the loop that had a bypass all the time is reported.
AlwaysIsFound ==
  ~malformed => \A p \in Paths : (p < path /\ AlwaysBypass(p))
                                    => \E o \in observations : o.path = p

HonestInv == /\ LoopInv
             /\ PolicyIsInEver
             /\ TriedOnce
             /\ FindingsMayBypass
             /\ AlwaysIsFound

\* Nothing is established before the first request.
LEMMA HonestInitInv == Init => HonestInv
<1> SUFFICES ASSUME Init PROVE HonestInv
  OBVIOUS
<1>1. PolicyIsInEver
  BY DEF Init, PolicyIsInEver
<1>2. TriedOnce /\ FindingsMayBypass /\ AlwaysIsFound
  BY SizeAssumption
  DEF Init, TriedOnce, FindingsMayBypass, AlwaysIsFound, Paths
<1>. QED
  BY <1>1, <1>2, LoopInitInv DEF HonestInv

\* What a step of the loop leaves alone: the site and its history.
LEMMA LoopStepFrame ==
  ASSUME ProbeFails \/ ProbeBaseline \/ TryRetry \/ ReturnResult
  PROVE  UNCHANGED <<policy, drifts, ever, malformed>>
BY DEF ProbeFails, ProbeBaseline, TryRetry, ReturnResult, siteVars

\* The plain GET: one that is not denied shows a path that was not open to
\* bypass all the time.
LEMMA HonestBaseline == HonestInv /\ ProbeBaseline => HonestInv'
<1> SUFFICES ASSUME HonestInv, ProbeBaseline PROVE HonestInv'
  OBVIOUS
<1>1. /\ path \in Paths /\ path <= NP /\ request = 0
      /\ UNCHANGED <<policy, drifts, ever, malformed, observations>>
      /\ TypeOK /\ 0 \in Requests
  BY SizeAssumption, LoopStepFrame
  DEF HonestInv, LoopInv, TypeOK, ProbeBaseline, Paths, Requests
<1>2. Answer \in ever[path][0] /\ Answer = policy[path][0]
  BY <1>1 DEF HonestInv, PolicyIsInEver, Answer
<1>3. PolicyIsInEver' /\ FindingsMayBypass'
  BY <1>1 DEF HonestInv, PolicyIsInEver, FindingsMayBypass, MayBypass
<1>4. LoopInv'
  BY BaselineInv DEF HonestInv
<1>5. CASE denied(Seen(Answer)) /\ request' = 1 /\ path' = path
  <2>1. TriedOnce'
    BY <1>1, <1>2, <1>5, SizeAssumption DEF TriedOnce, WasDenied
  <2>2. AlwaysIsFound'
    BY <1>1, <1>5 DEF HonestInv, AlwaysIsFound, AlwaysBypass
  <2>. QED
    BY <1>3, <1>4, <2>1, <2>2 DEF HonestInv
<1>6. CASE ~denied(Seen(Answer)) /\ NextPath
  <2>1. TriedOnce'
    BY <1>6 DEF TriedOnce, NextPath
  <2>2. ~AlwaysBypass(path)
    BY <1>2, <1>6 DEF AlwaysBypass
  <2>3. AlwaysIsFound'
    BY <1>1, <1>6, <2>2, SizeAssumption
    DEF HonestInv, AlwaysIsFound, AlwaysBypass, NextPath, Paths
  <2>. QED
    BY <1>3, <1>4, <2>1, <2>3 DEF HonestInv
<1>. QED
  BY <1>5, <1>6 DEF ProbeBaseline

\* A retry: a granted one has its cause at the site, whatever happened since
\* the plain GET; a path whose every retry was refused once had no bypass
\* that worked throughout.
LEMMA HonestRetry == HonestInv /\ TryRetry => HonestInv'
<1> SUFFICES ASSUME HonestInv, TryRetry PROVE HonestInv'
  OBVIOUS
<1>1. /\ path \in Paths /\ path <= NP /\ path \in Nat
      /\ request \in Retries /\ request \in Requests /\ request # 0
      /\ request \in Nat
      /\ UNCHANGED <<policy, drifts, ever, malformed>>
      /\ TypeOK
  BY SizeAssumption, LoopStepFrame
  DEF HonestInv, LoopInv, TypeOK, TryRetry, Paths, Retries, Requests
<1>2. Answer \in ever[path][request]
  BY <1>1 DEF HonestInv, PolicyIsInEver, Answer
<1>3. PolicyIsInEver'
  BY <1>1 DEF HonestInv, PolicyIsInEver
<1>4. LoopInv'
  BY GrantedInv, RefusedInv DEF TryRetry, HonestInv
<1>5. WasDenied(path)
  BY <1>1 DEF HonestInv, TriedOnce
<1>6. CASE /\ granted(Seen(Answer))
           /\ Report([path |-> path, retry |-> request, answer |-> Answer])
           /\ Break
  <2> DEFINE o == [path |-> path, retry |-> request, answer |-> Answer]
  <2>1. /\ observations' = observations \cup {o} /\ o.path = path
        /\ path' = path + 1 /\ request' = 0
    BY <1>6 DEF Report, Break, NextPath
  <2>2. MayBypass(path)
    BY <1>1, <1>2, <1>5, <1>6 DEF MayBypass, WasDenied
  <2>3. FindingsMayBypass'
    BY <1>1, <2>1, <2>2 DEF HonestInv, FindingsMayBypass, MayBypass
  <2>4. TriedOnce'
    BY <2>1 DEF TriedOnce
  <2>5. AlwaysIsFound'
    <3> SUFFICES ASSUME ~malformed, NEW p \in Paths, p < path + 1,
                        AlwaysBypass(p)
                 PROVE  \E b \in observations' : b.path = p
      BY <1>1, <2>1 DEF AlwaysIsFound, AlwaysBypass
    <3>1. o \in observations' /\ observations \subseteq observations'
      BY <2>1
    <3>2. p = path \/ p < path
      BY <1>1, SizeAssumption DEF Paths
    <3>3. CASE p = path
      BY <2>1, <3>1, <3>3
    <3>4. CASE p < path
      BY <3>1, <3>4 DEF HonestInv, AlwaysIsFound
    <3>. QED
      BY <3>2, <3>3, <3>4
  <2>. QED
    BY <1>3, <1>4, <2>3, <2>4, <2>5 DEF HonestInv
<1>7. CASE /\ ~granted(Seen(Answer)) /\ observations' = observations
           /\ NextRetry
  <2>1. FindingsMayBypass'
    BY <1>1, <1>7 DEF HonestInv, FindingsMayBypass, MayBypass
  <2>2. \A q \in 1..request : \E a \in ever[path][q] : ~granted(Seen(a))
    <3> SUFFICES ASSUME NEW q \in 1..request
                 PROVE  \E a \in ever[path][q] : ~granted(Seen(a))
      OBVIOUS
    <3>1. q = request \/ q \in 1..(request - 1)
      BY <1>1
    <3>. QED
      BY <1>1, <1>2, <1>7, <3>1 DEF HonestInv, TriedOnce
  <2>3. CASE request # NV /\ request' = request + 1 /\ path' = path
    <3>1. TriedOnce'
      BY <1>1, <1>5, <2>2, <2>3 DEF TriedOnce, WasDenied
    <3>2. AlwaysIsFound'
      BY <1>1, <1>7, <2>3 DEF HonestInv, AlwaysIsFound, AlwaysBypass
    <3>. QED
      BY <1>3, <1>4, <2>1, <3>1, <3>2 DEF HonestInv
  <2>4. CASE request = NV /\ path' = path + 1 /\ request' = 0
    <3>1. TriedOnce'
      BY <2>4 DEF TriedOnce
    <3>2. ~AlwaysBypass(path)
      BY <2>2, <2>4 DEF AlwaysBypass, Retries
    <3>3. AlwaysIsFound'
      BY <1>1, <1>7, <2>4, <3>2, SizeAssumption
      DEF HonestInv, AlwaysIsFound, AlwaysBypass, Paths
    <3>. QED
      BY <1>3, <1>4, <2>1, <3>1, <3>3 DEF HonestInv
  <2>. QED
    BY <1>7, <2>3, <2>4 DEF NextRetry, NextPath
<1>. QED
  BY <1>6, <1>7 DEF TryRetry

\* A change of the site adds to the history, which adds causes and takes
\* certainty away.
LEMMA HistoryGrows ==
  ASSUME TypeOK, Drift
  PROVE  /\ \A p \in Paths, r \in Requests : ever[p][r] \subseteq ever'[p][r]
         /\ \A p \in Paths : MayBypass(p) => MayBypass(p)'
         /\ \A p \in Paths : AlwaysBypass(p)' => AlwaysBypass(p)
<1>1. ASSUME NEW p \in Paths, NEW r \in Requests
      PROVE  ever[p][r] \subseteq ever'[p][r]
  <2>1. PICK p1 \in Paths, r1 \in Requests, a1 \in Answers :
          ever' = [ever EXCEPT ![p1][r1] = @ \cup {a1}]
    BY DEF Drift
  <2>. QED
    BY <2>1 DEF TypeOK
<1>2. 0 \in Requests /\ \A r \in Retries : r \in Requests
  BY SizeAssumption DEF Requests, Retries
<1>. QED
  BY <1>1, <1>2 DEF MayBypass, AlwaysBypass

LEMMA HonestDrift == HonestInv /\ Drift => HonestInv'
<1> SUFFICES ASSUME HonestInv, Drift PROVE HonestInv'
  OBVIOUS
<1>0. TypeOK /\ UNCHANGED <<malformed, path, request, observations, result>>
  BY DEF HonestInv, LoopInv, Drift, checkVars
<1>1. LoopInv'
  BY LoopNextInv DEF HonestInv, Next
<1>2. PolicyIsInEver'
  <2>1. PICK p \in Paths, r \in Requests, a \in Answers :
          /\ policy' = [policy EXCEPT ![p][r] = a]
          /\ ever' = [ever EXCEPT ![p][r] = @ \cup {a}]
    BY DEF Drift
  <2>. QED
    BY <1>0, <2>1 DEF HonestInv, PolicyIsInEver, TypeOK
<1>3. TriedOnce'
  <2> SUFFICES ASSUME path <= NP, request # 0
               PROVE  /\ \E a \in ever'[path][0] : denied(Seen(a))
                      /\ \A q \in 1..(request - 1) :
                           \E a \in ever'[path][q] : ~granted(Seen(a))
    BY <1>0 DEF TriedOnce, WasDenied
  <2>1. /\ path \in Paths /\ 0 \in Requests
        /\ \A q \in 1..(request - 1) : q \in Requests
    BY <1>0, SizeAssumption DEF TypeOK, Paths, Requests
  <2>. QED
    BY <1>0, <2>1, HistoryGrows DEF HonestInv, TriedOnce, WasDenied
<1>4. FindingsMayBypass'
  <2>1. \A o \in observations : o.path \in Paths
    BY <1>0 DEF TypeOK, Observation
  <2>. QED
    BY <1>0, <2>1, HistoryGrows DEF HonestInv, FindingsMayBypass
<1>5. AlwaysIsFound'
  BY <1>0, HistoryGrows DEF HonestInv, AlwaysIsFound
<1>. QED
  BY <1>1, <1>2, <1>3, <1>4, <1>5 DEF HonestInv

LEMMA HonestNextInv == HonestInv /\ [Next]_vars => HonestInv'
<1> SUFFICES ASSUME HonestInv, [Next]_vars PROVE HonestInv'
  OBVIOUS
<1>1. CASE ProbeBaseline
  BY <1>1, HonestBaseline
<1>2. CASE TryRetry
  BY <1>2, HonestRetry
<1>3. CASE Drift
  BY <1>3, HonestDrift
<1>4. CASE ProbeFails \/ ReturnResult \/ UNCHANGED vars
  <2>1. UNCHANGED <<policy, ever, malformed, path, request, observations>>
    BY <1>4, LoopStepFrame
    DEF ProbeFails, ReturnResult, vars, siteVars, checkVars
  <2>2. LoopInv'
    BY LoopNextInv DEF HonestInv
  <2>. QED
    BY <2>1, <2>2
    DEF HonestInv, PolicyIsInEver, TriedOnce, WasDenied, FindingsMayBypass,
        MayBypass, AlwaysIsFound, AlwaysBypass
<1>. QED
  BY <1>1, <1>2, <1>3, <1>4 DEF Next, CheckStep

\* It holds in every run of a bypass check.
LEMMA HonestInvariant == Spec => []HonestInv
  BY HonestInitInv, HonestNextInv, PTL DEF Spec

\* The check's report, as HonestReport has it.
Possible == {p \in Paths : MayBypass(p)}
Certain == {p \in Paths : AlwaysBypass(p)}

\* A path with a bypass all the time has given cause to report it.
LEMMA CertainIsPossible ==
  ASSUME TypeOK, PolicyIsInEver
  PROVE  Certain \subseteq Possible
<1> SUFFICES ASSUME NEW p \in Paths, AlwaysBypass(p) PROVE MayBypass(p)
  BY DEF Certain, Possible
<1>1. 0 \in Requests /\ \A r \in Retries : r \in Requests
  BY SizeAssumption DEF Requests, Retries
<1>2. denied(Seen(policy[p][0])) /\ policy[p][0] \in ever[p][0]
  BY <1>1 DEF AlwaysBypass, PolicyIsInEver
<1>3. PICK r \in Retries : \A a \in ever[p][r] : granted(Seen(a))
  BY DEF AlwaysBypass
<1>4. policy[p][r] \in ever[p][r]
  BY <1>1, <1>3 DEF PolicyIsInEver
<1>. QED
  BY <1>2, <1>3, <1>4 DEF MayBypass

LEMMA HonestInit == Init => Honest!Init
<1> SUFFICES ASSUME Init PROVE Honest!Init
  OBVIOUS
<1>1. Certain \subseteq Possible
  BY HonestInitInv, CertainIsPossible DEF HonestInv, LoopInv
<1>. QED
  BY <1>1 DEF Init, Honest!Init, Honest!NoReport, Certain, Possible

\* Every step of the check or of the site is one of HonestReport, or none.
LEMMA HonestStep == HonestInv /\ [Next]_vars => [Honest!Next]_Honest!vars
<1> SUFFICES ASSUME HonestInv, [Next]_vars
             PROVE  [Honest!Next]_Honest!vars
  OBVIOUS
<1>1. CASE ProbeBaseline \/ TryRetry
  <2>1. UNCHANGED <<ever, result>> /\ result = "running"
    BY <1>1 DEF ProbeBaseline, TryRetry, siteVars
  <2>. QED
    BY <2>1 DEF Honest!vars, MayBypass, AlwaysBypass
<1>2. CASE ProbeFails
  <2>1. UNCHANGED <<ever, observations>> /\ observations = {}
    BY <1>2 DEF ProbeFails, siteVars, HonestInv, LoopInv, ErrorMeansMalformed
  <2>2. {o.path : o \in observations'} = {}
    BY <2>1
  <2>3. Honest!Fail
    BY <1>2, <2>1, <2>2
    DEF ProbeFails, Honest!Fail, MayBypass, AlwaysBypass
  <2>. QED
    BY <2>3 DEF Honest!Next
<1>3. CASE ReturnResult
  <2> DEFINE found == {o.path : o \in observations}
  <2>1. UNCHANGED <<ever, observations>> /\ path = NP + 1
    BY <1>3 DEF ReturnResult, siteVars
  <2>2. found \subseteq Possible
    BY DEF HonestInv, LoopInv, TypeOK, Observation, FindingsMayBypass, Possible
  <2>3. Certain \subseteq found
    <3> SUFFICES ASSUME NEW p \in Paths, AlwaysBypass(p)
                 PROVE  \E o \in observations : o.path = p
      BY DEF Certain
    <3>1. p < path
      BY <2>1, SizeAssumption DEF Paths
    <3>2. ~malformed
      BY <2>1, <3>1, SizeAssumption
      DEF HonestInv, LoopInv, ErrorMeansMalformed, Paths
    <3>. QED
      BY <3>1, <3>2 DEF HonestInv, AlwaysIsFound
  <2>4. Honest!Publish
    BY <1>3, <2>1, <2>2, <2>3
    DEF ReturnResult, Honest!Publish, MayBypass, AlwaysBypass, Possible, Certain
  <2>. QED
    BY <2>4 DEF Honest!Next
<1>4. CASE Drift
  <2>1. UNCHANGED <<observations, result>> /\ TypeOK
    BY <1>4 DEF Drift, checkVars, HonestInv, LoopInv
  <2>2. Honest!Change
    BY <1>4, <2>1, HistoryGrows DEF Honest!Change
  <2>. QED
    BY <2>2 DEF Honest!Next
<1>5. CASE UNCHANGED vars
  BY <1>5
  DEF vars, siteVars, checkVars, Honest!vars, MayBypass, AlwaysBypass
<1>. QED
  BY <1>1, <1>2, <1>3, <1>4, <1>5 DEF Next, CheckStep

\* A bypass check implements HonestReport: however many paths and retries
\* there are, and however the site changes between the two requests whose
\* answers are compared, its report is an honest one.
THEOREM BypassReportsAreHonest == Spec => ReportIsHonest
  BY HonestInit, HonestInvariant, HonestStep, PTL
  DEF Spec, ReportIsHonest, Honest!Spec

----------------------------------------------------------------------------
(***************************************************************************)
(* method_bypass.                                                          *)
(***************************************************************************)
MethodInv == /\ HonestInv
             /\ sentTo \subseteq Paths
             /\ OnlyDeniedPathsAreWritten

\* The first verb in the list is a safe one.
LEMMA FirstVerbIsSafe == Unsafe /\ request \in Requests => request > 1
<1>1. bypassMethods[1] = "HEAD"
  BY DEF bypassMethods
<1>. QED
  BY <1>1, SizeAssumption DEF Unsafe, UnsafeMethods, Requests

\* What method_bypass does is what every bypass check does.
LEMMA MethodIsALoop == [MethodNext]_methodVars => [Next]_vars
BY DEF MethodNext, TryMethod, Probe, Next, CheckStep, methodVars

\* What was written to stays justified while nothing new is, since the history
\* of the site's answers only grows.
LEMMA NothingSentInv ==
  ASSUME MethodInv, [Next]_vars, UNCHANGED sentTo
  PROVE  MethodInv'
<1>1. HonestInv'
  BY HonestNextInv DEF MethodInv
<1>2. \A p \in Paths, r \in Requests : ever[p][r] \subseteq ever'[p][r]
  <2>1. CASE Drift
    BY <2>1, HistoryGrows DEF MethodInv, HonestInv, LoopInv
  <2>2. CASE CheckStep \/ UNCHANGED vars
    <3>1. ever' = ever
      BY <2>2, LoopStepFrame DEF CheckStep, vars, siteVars
    <3>. QED
      BY <3>1
  <2>. QED
    BY <2>1, <2>2 DEF Next
<1>3. 0 \in Requests /\ 1 \in Requests
  BY SizeAssumption DEF Requests
<1>4. OnlyDeniedPathsAreWritten'
  <2> SUFFICES ASSUME NEW p \in sentTo
               PROVE  /\ \E a \in ever'[p][0] : denied(Seen(a))
                      /\ \E a \in ever'[p][1] : ~granted(Seen(a))
    BY DEF OnlyDeniedPathsAreWritten
  <2>1. /\ p \in Paths
        /\ \E a \in ever[p][0] : denied(Seen(a))
        /\ \E a \in ever[p][1] : ~granted(Seen(a))
    BY DEF MethodInv, OnlyDeniedPathsAreWritten
  <2>. QED
    BY <1>2, <1>3, <2>1
<1>. QED
  BY <1>1, <1>4 DEF MethodInv

\* A retry with another verb keeps the invariant: an unsafe one follows a
\* denied GET and a HEAD that was not granted.
LEMMA MethodRetryInv == MethodInv /\ TryMethod => MethodInv'
<1> SUFFICES ASSUME MethodInv, TryMethod PROVE MethodInv'
  OBVIOUS
<1>1. /\ TryRetry /\ TypeOK /\ TriedOnce
      /\ path \in Paths /\ path <= NP /\ request \in Requests /\ request # 0
      /\ ever' = ever
  BY SizeAssumption
  DEF MethodInv, HonestInv, LoopInv, TypeOK, TryMethod, TryRetry, siteVars,
      Paths
<1>2. HonestInv'
  BY <1>1, HonestNextInv DEF MethodInv, Next, CheckStep
<1>3. sentTo' \subseteq Paths
  BY <1>1 DEF MethodInv, TryMethod
<1>4. OnlyDeniedPathsAreWritten'
  <2> SUFFICES ASSUME NEW p \in sentTo'
               PROVE  /\ \E a \in ever[p][0] : denied(Seen(a))
                      /\ \E a \in ever[p][1] : ~granted(Seen(a))
    BY <1>1 DEF OnlyDeniedPathsAreWritten
  <2>1. CASE p \in sentTo
    BY <2>1 DEF MethodInv, OnlyDeniedPathsAreWritten
  <2>2. CASE Unsafe /\ p = path
    <3>1. request \in Nat /\ request > 1
      BY <1>1, <2>2, FirstVerbIsSafe, SizeAssumption DEF Requests
    <3>2. 1 \in 1..(request - 1)
      BY <3>1
    <3>. QED
      BY <1>1, <2>2, <3>2 DEF TriedOnce, WasDenied
  <2>. QED
    BY <2>1, <2>2 DEF TryMethod
<1>. QED
  BY <1>2, <1>3, <1>4 DEF MethodInv

\* The invariant holds in every run of method_bypass.
LEMMA MethodInvariant == MethodSpec => []MethodInv
<1>1. MethodInit => MethodInv
  BY HonestInitInv DEF MethodInit, MethodInv, OnlyDeniedPathsAreWritten
<1>2. MethodInv /\ [MethodNext]_methodVars => MethodInv'
  <2> SUFFICES ASSUME MethodInv, [MethodNext]_methodVars PROVE MethodInv'
    OBVIOUS
  <2>1. CASE TryMethod
    BY <2>1, MethodRetryInv
  <2>2. CASE UNCHANGED sentTo
    BY <2>2, MethodIsALoop, NothingSentInv
  <2>. QED
    BY <2>1, <2>2 DEF MethodNext, methodVars
<1>. QED
  BY <1>1, <1>2, PTL DEF MethodSpec

\* method_bypass implements HonestReport too.
THEOREM MethodReportsAreHonest == MethodSpec => ReportIsHonest
<1>1. MethodInit => Init
  BY DEF MethodInit
<1>2. MethodInv => HonestInv
  BY DEF MethodInv
<1>. QED
  BY <1>1, <1>2, MethodInvariant, HonestInit, MethodIsALoop, HonestStep, PTL
  DEF MethodSpec, ReportIsHonest, Honest!Spec

\* The variables of method_bypass keep their types.
THEOREM MethodTypeCorrect == MethodSpec => []MethodTypeOK
<1>1. MethodInv => MethodTypeOK
  BY DEF MethodInv, HonestInv, LoopInv, MethodTypeOK
<1>. QED
  BY <1>1, MethodInvariant, PTL

\* However the site changes, a writing verb is sent only to a path that denied
\* a plain GET and whose HEAD did not get through, for any prefix of the list
\* of verbs.
THEOREM OpenPathsAreNotWritten == MethodSpec => []OnlyDeniedPathsAreWritten
<1>1. MethodInv => OnlyDeniedPathsAreWritten
  BY DEF MethodInv
<1>. QED
  BY <1>1, MethodInvariant, PTL
=============================================================================
