-------------------------- MODULE HeaderChecksProofs --------------------------
(***************************************************************************)
(* Proofs about the header checks, for all pages, policies and bounds.     *)
(***************************************************************************)
EXTENDS HeaderChecks, SequenceTheorems, TLAPS

\* What has been read is reported, and nothing else.
ReportsInv ==
  reports = [c \in Readers |-> IF c \in inspected THEN Observed(page)[c]
                                                  ELSE {}]

\* Request s of path p is behind cors.
Behind(p, s) ==
  \/ p < path
  \/ p = path /\ step = "null" /\ s = "origin"
  \/ p = path /\ step = "preflight" /\ s # "preflight"

\* What the answers behind cors show has been found.
FoundInv ==
  \A p \in Paths, s \in Steps :
    (Behind(p, s) /\ <<p, s>> \notin lost) =>
      \A k \in Found(s, policy[p]) : [path |-> p, kind |-> k] \in observations

\* What has been found is shown by an answer of its own path.
ShownInv ==
  \A o \in observations : \E s \in Steps : o.kind \in Found(s, policy[o.path])

DoneInv == result = "returned" => path > NP

HeaderInv == /\ HeaderTypeOK
             /\ ReportsInv
             /\ FoundInv
             /\ ShownInv
             /\ DoneInv

LEMMA HeaderInitInv == Init => HeaderInv
<1> SUFFICES ASSUME Init PROVE HeaderInv
  OBVIOUS
<1>1. HeaderTypeOK
  BY HeaderAssumption DEF Init, HeaderTypeOK, Steps
<1>2. ReportsInv
  BY DEF Init, ReportsInv
<1>3. FoundInv
  BY HeaderAssumption DEF Init, FoundInv, Behind, Paths
<1>4. ShownInv /\ DoneInv
  BY DEF Init, ShownInv, DoneInv
<1>. QED
  BY <1>1, <1>2, <1>3, <1>4 DEF HeaderInv

\* A check's reading of the page keeps the invariant.
LEMMA InspectInv ==
  ASSUME HeaderInv, NEW c \in Readers, Inspect(c) PROVE HeaderInv'
<1>1. UNCHANGED <<page, siteVars, corsVars>>
  BY DEF Inspect
<1>2. HeaderTypeOK'
  BY <1>1
  DEF HeaderInv, HeaderTypeOK, Inspect, siteVars, corsVars
<1>3. ReportsInv'
  BY <1>1 DEF HeaderInv, ReportsInv, Inspect
<1>4. (FoundInv /\ ShownInv /\ DoneInv)'
  BY <1>1
  DEF HeaderInv, FoundInv, ShownInv, DoneInv, Behind, siteVars, corsVars
<1>. QED
  BY <1>2, <1>3, <1>4 DEF HeaderInv

\* The next request puts exactly the present one behind cors.
LEMMA NextRequestAdvances ==
  ASSUME HeaderInv, Sending, NextRequest
  PROVE  /\ path \in Paths /\ step \in Steps
         /\ path' \in 1..(NP + 1) /\ step' \in Steps
         /\ \A p \in Paths, s \in Steps :
              Behind(p, s)' <=> (Behind(p, s) \/ (p = path /\ s = step))
<1>1. path \in Paths /\ step \in Steps /\ NP \in Nat
  BY HeaderAssumption DEF HeaderInv, HeaderTypeOK, Sending, Paths
<1>2. CASE step = "origin"
  BY <1>1, <1>2 DEF NextRequest, Paths, Steps, Behind
<1>3. CASE step = "null"
  BY <1>1, <1>3 DEF NextRequest, Paths, Steps, Behind
<1>4. CASE step = "preflight"
  BY <1>1, <1>4 DEF NextRequest, Paths, Steps, Behind
<1>. QED
  BY <1>1, <1>2, <1>3, <1>4 DEF Steps

\* An answered request keeps the invariant.
LEMMA ProbeInv == HeaderInv /\ ProbeCORS => HeaderInv'
<1> SUFFICES ASSUME HeaderInv, ProbeCORS PROVE HeaderInv'
  OBVIOUS
<1> DEFINE new == {[path |-> path, kind |-> k] : k \in Found(step, policy[path])}
<1>1. /\ path \in Paths /\ step \in Steps
      /\ path' \in 1..(NP + 1) /\ step' \in Steps
      /\ \A p \in Paths, s \in Steps :
           Behind(p, s)' <=> (Behind(p, s) \/ (p = path /\ s = step))
  BY NextRequestAdvances DEF ProbeCORS
<1>2. /\ observations' = observations \cup new
      /\ UNCHANGED <<page, reports, inspected, policy, malformed, lost, result>>
  BY DEF ProbeCORS, readVars, siteVars
<1>3. new \subseteq Observation
  <2>1. Found(step, policy[path]) \subseteq
          {"reflected", "wildcard", "null", "preflight", "long cache"}
    BY DEF Found
  <2>2. SUFFICES ASSUME NEW k \in Found(step, policy[path])
                 PROVE  [path |-> path, kind |-> k] \in Observation
    OBVIOUS
  <2>. QED
    BY <1>1, <2>1 DEF Observation
<1>4. HeaderTypeOK'
  BY <1>1, <1>2, <1>3 DEF HeaderInv, HeaderTypeOK
<1>5. FoundInv'
  BY <1>1, <1>2 DEF HeaderInv, FoundInv
<1>6. ShownInv'
  BY <1>1, <1>2 DEF HeaderInv, ShownInv
<1>7. ReportsInv' /\ DoneInv'
  BY <1>2 DEF HeaderInv, ReportsInv, DoneInv, ProbeCORS, Sending
<1>. QED
  BY <1>4, <1>5, <1>6, <1>7 DEF HeaderInv

\* A failed request keeps the invariant.
LEMMA FailInv == HeaderInv /\ RequestFails => HeaderInv'
<1> SUFFICES ASSUME HeaderInv, RequestFails PROVE HeaderInv'
  OBVIOUS
<1>1. /\ path \in Paths /\ step \in Steps
      /\ path' \in 1..(NP + 1) /\ step' \in Steps
      /\ \A p \in Paths, s \in Steps :
           Behind(p, s)' <=> (Behind(p, s) \/ (p = path /\ s = step))
  BY NextRequestAdvances DEF RequestFails, PassOver
<1>2. /\ lost' = lost \cup {<<path, step>>}
      /\ UNCHANGED <<page, reports, inspected, policy, malformed,
                     observations, result>>
  BY DEF RequestFails, readVars, siteVars
<1>3. HeaderTypeOK'
  BY <1>1, <1>2 DEF HeaderInv, HeaderTypeOK
<1>4. FoundInv'
  BY <1>1, <1>2 DEF HeaderInv, FoundInv
<1>5. ShownInv' /\ ReportsInv' /\ DoneInv'
  BY <1>2
  DEF HeaderInv, ShownInv, ReportsInv, DoneInv, RequestFails, Sending
<1>. QED
  BY <1>3, <1>4, <1>5 DEF HeaderInv

LEMMA HeaderNextInv == HeaderInv /\ [Next]_vars => HeaderInv'
<1> SUFFICES ASSUME HeaderInv, [Next]_vars PROVE HeaderInv'
  OBVIOUS
<1>1. CASE \E c \in Readers : Inspect(c)
  BY <1>1, InspectInv
<1>2. CASE ProbeCORS
  BY <1>2, ProbeInv
<1>3. CASE RequestFails
  BY <1>3, FailInv
<1>4. CASE ResolveFails \/ ReturnResult
  <2>1. /\ UNCHANGED <<page, reports, inspected, policy, malformed, path,
                       step, lost, observations>>
        /\ result' = "error" \/ (result' = "returned" /\ path > NP)
    BY <1>4 DEF ResolveFails, ReturnResult, readVars, siteVars
  <2>. QED
    BY <2>1 DEF HeaderInv, HeaderTypeOK, ReportsInv, FoundInv, ShownInv,
                DoneInv, Behind
<1>5. CASE UNCHANGED vars
  BY <1>5 DEF HeaderInv, HeaderTypeOK, ReportsInv, FoundInv, ShownInv,
              DoneInv, Behind, vars, readVars, siteVars, corsVars
<1>. QED
  BY <1>1, <1>2, <1>3, <1>4, <1>5 DEF Next, CheckStep

LEMMA HeaderInvariant == Spec => []HeaderInv
  BY HeaderInitInv, HeaderNextInv, PTL DEF Spec

\* The header checks' variables keep their types; cors never walks past its
\* last path, nor asks a path for more than its three requests.
THEOREM HeaderTypeCorrect == Spec => []HeaderTypeOK
<1>1. HeaderInv => HeaderTypeOK
  BY DEF HeaderInv
<1>. QED
  BY <1>1, HeaderInvariant, PTL

\* Whatever a browser would let another site read or send with the user's
\* credentials is found, at every path whose request was answered.
THEOREM ReadsAreAlwaysFound == Spec => []ReadsAreFound
<1>1. HeaderInv => ReadsAreFound
  <2> SUFFICES ASSUME HeaderInv, result = "returned", NEW p \in Paths
               PROVE
                 /\ (MayRead(policy[p].get, "marker") /\ <<p, "origin">> \notin lost)
                      => [path |-> p, kind |-> "reflected"] \in observations
                 /\ (MayRead(policy[p].get, "null") /\ <<p, "null">> \notin lost)
                      => [path |-> p, kind |-> "null"] \in observations
                 /\ <<p, "preflight">> \notin lost =>
                      /\ MayRead(policy[p].options, "marker") =>
                           [path |-> p, kind |-> "preflight"] \in observations
                      /\ TooLong(policy[p].maxAge) =>
                           [path |-> p, kind |-> "long cache"] \in observations
    BY DEF ReadsAreFound
  <2>1. \A s \in Steps : Behind(p, s)
    BY HeaderAssumption
    DEF HeaderInv, HeaderTypeOK, DoneInv, Behind, Paths, Steps
  <2>2. \A s \in Steps : <<p, s>> \notin lost =>
          \A k \in Found(s, policy[p]) :
            [path |-> p, kind |-> k] \in observations
    BY <2>1 DEF HeaderInv, FoundInv
  <2>3. MayRead(policy[p].get, "marker") =>
          "reflected" \in Found("origin", policy[p])
    BY DEF MayRead, Found, credentialedOriginObservations
  <2>4. MayRead(policy[p].get, "null") => "null" \in Found("null", policy[p])
    BY DEF MayRead, Found, nullObservations
  <2>5. MayRead(policy[p].options, "marker") =>
          "preflight" \in Found("preflight", policy[p])
    BY DEF MayRead, Found, preflightObservations
  <2>6. TooLong(policy[p].maxAge) =>
          "long cache" \in Found("preflight", policy[p])
    BY DEF Found, preflightObservations
  <2>. QED
    BY <2>2, <2>3, <2>4, <2>5, <2>6 DEF Steps
<1>. QED
  BY <1>1, HeaderInvariant, PTL

\* What cors says is readable is readable at that path.
THEOREM FindingsAreAlwaysReadable == Spec => []FindingsAreReadable
<1>1. HeaderInv => FindingsAreReadable
  <2> SUFFICES ASSUME HeaderInv, NEW o \in observations
               PROVE
                 /\ o.kind = "reflected" => MayRead(policy[o.path].get, "marker")
                 /\ (o.kind = "preflight" /\ policy[o.path].options.allow # "*")
                      => MayRead(policy[o.path].options, "marker")
                 /\ (o.kind = "null" /\ policy[o.path].get.credentials)
                      => MayRead(policy[o.path].get, "null")
    BY DEF FindingsAreReadable
  <2>1. PICK s \in Steps : o.kind \in Found(s, policy[o.path])
    BY DEF HeaderInv, ShownInv
  <2>2. o.kind = "reflected" => MayRead(policy[o.path].get, "marker")
    BY <2>1 DEF Found, credentialedOriginObservations, nullObservations,
                preflightObservations, MayRead
  <2>3. (o.kind = "null" /\ policy[o.path].get.credentials)
          => MayRead(policy[o.path].get, "null")
    BY <2>1 DEF Found, credentialedOriginObservations, nullObservations,
                preflightObservations, MayRead
  <2>4. (o.kind = "preflight" /\ policy[o.path].options.allow # "*")
          => MayRead(policy[o.path].options, "marker")
    BY <2>1 DEF Found, credentialedOriginObservations, nullObservations,
                preflightObservations, MayRead, AllowOrigin
  <2>. QED
    BY <2>2, <2>3, <2>4
<1>. QED
  BY <1>1, HeaderInvariant, PTL

----------------------------------------------------------------------------
(***************************************************************************)
(* cors implements HonestReport.                                           *)
(***************************************************************************)

\* What the policies of the site give cause to report, and what the answers
\* to the requests that were not lost make cors report.
Possible == {o \in Observation :
               \E s \in Steps : o.kind \in Found(s, policy[o.path])}
Owed == IF malformed THEN {}
        ELSE {o \in Observation :
                \E s \in Steps : /\ <<o.path, s>> \notin lost
                                 /\ o.kind \in Found(s, policy[o.path])}

Honest == INSTANCE HonestReport WITH
  possible <- Possible,
  certain <- Owed,
  report <- [ended |-> result # "running", failed |-> result = "error",
             found |-> IF result = "running" THEN {} ELSE observations]

MalformedFindsNothing == malformed => observations = {}

LEMMA HonestInit == Init => Honest!Init
BY DEF Init, Honest!Init, Honest!NoReport, Possible, Owed

LEMMA HonestStep ==
  HeaderInv /\ MalformedFindsNothing /\ [Next]_vars
    => [Honest!Next]_Honest!vars
<1> SUFFICES ASSUME HeaderInv, MalformedFindsNothing, [Next]_vars
             PROVE  [Honest!Next]_Honest!vars
  OBVIOUS
<1>1. CASE (\E c \in Readers : Inspect(c)) \/ ProbeCORS \/ UNCHANGED vars
  <2>1. UNCHANGED <<policy, malformed, lost, result>>
    BY <1>1 DEF Inspect, ProbeCORS, vars, siteVars, corsVars
  <2>2. result # "running" => observations' = observations
    BY <1>1 DEF Inspect, ProbeCORS, Sending, vars, corsVars
  <2>. QED
    BY <2>1, <2>2 DEF Honest!vars, Possible, Owed
<1>2. CASE RequestFails
  <2>1. /\ UNCHANGED <<policy, malformed, result, observations>>
        /\ lost \subseteq lost'
    BY <1>2 DEF RequestFails, siteVars
  <2>2. Owed' \subseteq Owed
    BY <2>1 DEF Owed
  <2>3. Honest!Change
    BY <2>1, <2>2 DEF Honest!Change, Possible
  <2>. QED
    BY <2>3 DEF Honest!Next
<1>3. CASE ResolveFails
  <2>1. /\ UNCHANGED <<policy, malformed, lost, observations>>
        /\ observations = {} /\ result = "running" /\ result' = "error"
    BY <1>3 DEF ResolveFails, siteVars, MalformedFindsNothing
  <2>2. Honest!Fail
    BY <2>1 DEF Honest!Fail, Possible, Owed
  <2>. QED
    BY <2>2 DEF Honest!Next
<1>4. CASE ReturnResult
  <2>1. /\ UNCHANGED <<policy, malformed, lost, observations>>
        /\ result = "running" /\ result' = "returned" /\ path > NP
    BY <1>4 DEF ReturnResult, siteVars
  <2>2. observations \subseteq Possible
    BY DEF HeaderInv, HeaderTypeOK, ShownInv, Possible
  <2>3. Owed \subseteq observations
    <3> SUFFICES ASSUME NEW o \in Observation, NEW s \in Steps,
                        <<o.path, s>> \notin lost,
                        o.kind \in Found(s, policy[o.path])
                 PROVE  o \in observations
      BY DEF Owed
    <3>1. o.path \in Paths /\ o = [path |-> o.path, kind |-> o.kind]
      BY DEF Observation
    <3>2. Behind(o.path, s)
      BY <2>1, <3>1, HeaderAssumption
      DEF HeaderInv, HeaderTypeOK, Behind, Paths
    <3>. QED
      BY <3>1, <3>2 DEF HeaderInv, FoundInv
  <2>4. Possible' = Possible /\ Owed' = Owed
    BY <2>1 DEF Possible, Owed
  <2>5. Honest!Publish
    BY <2>1, <2>2, <2>3, <2>4 DEF Honest!Publish
  <2>. QED
    BY <2>5 DEF Honest!Next
<1>. QED
  BY <1>1, <1>2, <1>3, <1>4 DEF Next, CheckStep

\* cors implements HonestReport, for every number of paths and every policy:
\* whichever of its requests are lost, each hides what it alone would have
\* shown, and a report beside an error loses no finding.
THEOREM CorsReportsAreHonest == Spec => Honest!Spec
<1>1. Init => MalformedFindsNothing
  BY DEF Init, MalformedFindsNothing
<1>2. MalformedFindsNothing /\ [Next]_vars => MalformedFindsNothing'
  BY DEF MalformedFindsNothing, Next, CheckStep, Inspect, ProbeCORS, Sending,
         RequestFails, ResolveFails, ReturnResult, vars, siteVars, corsVars
<1>3. Spec => []MalformedFindsNothing
  BY <1>1, <1>2, PTL DEF Spec
<1>. QED
  BY <1>3, HonestInit, HeaderInvariant, HonestStep, PTL DEF Spec, Honest!Spec

----------------------------------------------------------------------------
\* A cookie of a page that names SameSite lacks nothing cookie_flags looks for
\* exactly if all three attributes are set.
LEMMA CookieLacksNothing ==
  ASSUME NEW c \in Cookie, c.sameSite # "absent"
  PROVE  missing(c) = {} <=> (c.secure /\ c.httpOnly /\ c.sameSite = "set")
<1>1. c.sameSite \in {"unrecognised", "set"}
  BY DEF Cookie
<1>2. /\ "Secure" \in missing(c) <=> ~c.secure
      /\ "HttpOnly" \in missing(c) <=> ~c.httpOnly
      /\ "SameSite" \in missing(c) <=> c.sameSite = "unrecognised"
  BY DEF missing
<1>3. missing(c) \subseteq {"Secure", "HttpOnly", "SameSite"}
  BY DEF missing
<1>. QED
  BY <1>1, <1>2, <1>3

\* A sequence of at most one element.
LEMMA ShortSequence ==
  ASSUME NEW S, NEW q \in Seq(S), Len(q) <= 1
  PROVE  q = <<>> \/ (q # <<>> /\ DOMAIN q = 1..1 /\ q[1] \in S)
<1>1. Len(q) \in Nat /\ DOMAIN q = 1..Len(q)
  BY LenProperties
<1>2. Len(q) = 0 \/ Len(q) = 1
  BY <1>1
<1>. QED
  BY <1>1, <1>2, EmptySeq, ElementOfSeq

\* The checks that read the page are silent exactly about a remediated one.
LEMMA SilenceIsRemediation ==
  ASSUME NEW p \in AllPages, ReadAlike(p)
  PROVE  (\A c \in Readers : Observed(p)[c] = {}) <=> Remediated(p)
<1>1. \/ p.csp = <<>>
      \/ /\ p.csp # <<>> /\ DOMAIN p.csp = 1..1
         /\ p.csp[1] \in {"plain", "framing"}
  <2>1. p.csp \in Seq({"plain", "framing"}) /\ Len(p.csp) <= 1
    BY DEF AllPages, ReadAlike
  <2>. QED
    BY <2>1, ShortSequence
<1>2. csp(p) = {} <=> p.csp # <<>>
  BY <1>1 DEF csp, Get
<1>3. p.xfo \in {"", "DENY"}
  BY DEF AllPages, ReadAlike
<1>4. frame_options(p) = {} <=> ~Framable(p)
  <2>1. CASE p.csp = <<>>
    <3>1. Framable(p) <=> p.xfo # "DENY"
      BY <2>1 DEF Framable
    <3>. QED
      BY <1>3, <2>1, <3>1 DEF frame_options, Get
  <2>2. CASE p.csp # <<>>
    <3>1. Framable(p) <=> (p.xfo # "DENY" /\ p.csp[1] # "framing")
      BY <1>1, <2>2 DEF Framable
    <3>. QED
      BY <1>3, <2>2, <3>1 DEF frame_options, Get
  <2>. QED
    BY <2>1, <2>2
<1>5. server_banner(p) = {} <=> (~p.server /\ ~p.poweredBy)
  <2>1. /\ "Server" \in server_banner(p) <=> p.server
        /\ "X-Powered-By" \in server_banner(p) <=> p.poweredBy
    BY DEF server_banner
  <2>2. server_banner(p) \subseteq {"Server", "X-Powered-By"}
    BY DEF server_banner
  <2>. QED
    BY <2>1, <2>2
<1>6. cookie_flags(p) = {} <=>
        \A c \in p.cookies : c.secure /\ c.httpOnly /\ c.sameSite = "set"
  <2>1. cookie_flags(p) = {} <=> \A c \in p.cookies : missing(c) = {}
    BY DEF cookie_flags
  <2>2. \A c \in p.cookies : c \in Cookie /\ c.sameSite # "absent"
    BY DEF AllPages, ReadAlike
  <2>. QED
    BY <2>1, <2>2, CookieLacksNothing
<1>7. /\ content_type_options(p) = {} <=> p.nosniff
      /\ referrer_policy(p) = {} <=> p.referrer
      /\ permissions_policy(p) = {} <=> p.permissions
  BY DEF content_type_options, referrer_policy, permissions_policy
<1>8. (\A c \in Readers : Observed(p)[c] = {}) <=>
        /\ csp(p) = {} /\ frame_options(p) = {}
        /\ content_type_options(p) = {} /\ referrer_policy(p) = {}
        /\ permissions_policy(p) = {} /\ server_banner(p) = {}
        /\ cookie_flags(p) = {}
  BY DEF Readers, Observed
<1>. QED
  BY <1>2, <1>4, <1>5, <1>6, <1>7, <1>8 DEF Remediated

\* Silence of the seven checks means that the page does all the documentation
\* recommends, and the other way round.
THEOREM CleanIsRemediated == Spec => []CleanMeansRemediated
<1>1. HeaderInv => CleanMeansRemediated
  <2> SUFFICES ASSUME HeaderInv, inspected = Readers, ReadAlike(page)
               PROVE  (\A c \in Readers : reports[c] = {}) <=> Remediated(page)
    BY DEF CleanMeansRemediated
  <2>1. page \in AllPages
    BY HeaderAssumption DEF HeaderInv, HeaderTypeOK
  <2>2. \A c \in Readers : reports[c] = Observed(page)[c]
    BY DEF HeaderInv, ReportsInv
  <2>. QED
    BY <2>1, <2>2, SilenceIsRemediation
<1>. QED
  BY <1>1, HeaderInvariant, PTL
=============================================================================
