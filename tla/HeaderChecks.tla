---------------------------- MODULE HeaderChecks ----------------------------
(***************************************************************************)
(* The checks of headers/: seven that read the answer of the shared fetch, *)
(* and cors, which sends three requests to each of its candidate paths.    *)
(* Their reference is what a browser makes of the same headers.            *)
(*                                                                         *)
(* A header of the page is reduced to what the checks or a browser tell    *)
(* apart.  Content-Security-Policy may be sent more than once, and the     *)
(* policy is then the sequence of its values: a browser enforces them all, *)
(* Header.Get returns the first.                                           *)
(***************************************************************************)
EXTENDS Integers, Sequences, FiniteSets

CONSTANTS
  Pages,       \* the pages the shared fetch may return, among AllPages
  Policies,    \* the CORS policies a path may have, among AllPolicies
  Names,       \* names of cookies
  NP,          \* cors: candidate paths
  maxReasonablePreflightCacheSeconds,  \* check.go: 7200
  MaxInt,      \* the largest int: strconv.Atoi fails beyond it
  MaxLost      \* bound on the requests of cors that fail

Cookie == [name : Names, secure : BOOLEAN, httpOnly : BOOLEAN,
           sameSite : {"absent", "unrecognised", "set"}]

AllPages ==
  [csp : Seq({"plain", "framing"}), xfo : {"", "DENY", "bogus"},
   nosniff : BOOLEAN, referrer : BOOLEAN, permissions : BOOLEAN,
   server : BOOLEAN, poweredBy : BOOLEAN, cookies : SUBSET Cookie]

\* What a site answers in Access-Control-Allow-Origin: nothing, a wildcard,
\* "null", an origin of its own, or whatever Origin it was sent.
Rule == [allow : {"", "*", "null", "trusted", "reflect"},
         credentials : BOOLEAN]

\* maxAge is -1 for a header that is absent or no number.
AllPolicies == [get : Rule, options : Rule, maxAge : Int]

ASSUME HeaderAssumption ==
  /\ Pages \subseteq AllPages
  /\ Policies \subseteq AllPolicies
  /\ NP \in Nat
  /\ MaxLost \in Nat
  /\ maxReasonablePreflightCacheSeconds \in Nat
  /\ MaxInt \in Nat

VARIABLES
  page,          \* the shared fetch's answer
  reports,       \* what each check that reads it has reported
  inspected,     \* the checks that have read it
  policy,        \* the CORS policy of each candidate path
  malformed,     \* the target URL does not parse
  path,          \* cors: the candidate path it is at
  step,          \* cors: the request of that path it sends next
  lost,          \* the requests of cors that failed
  observations,  \* cors: the findings so far
  result         \* cors: running, returned, or error (Result.Err)

readVars == <<page, reports, inspected>>
siteVars == <<policy, malformed>>
corsVars == <<path, step, lost, observations, result>>
vars == <<readVars, siteVars, corsVars>>

Paths == 1..NP
Steps == {"origin", "null", "preflight"}

----------------------------------------------------------------------------
(***************************************************************************)
(* The checks that read the page.                                          *)
(***************************************************************************)

\* Header.Get: the first value of the header, "" if there is none.
Get(values) == IF values = <<>> THEN "" ELSE values[1]

csp(p) == IF Get(p.csp) = "" THEN {"missing"} ELSE {}

\* Mutant of frame_options: any Content-Security-Policy is protection.
frame_optionsByPresence(p) ==
  IF p.xfo = "" /\ Get(p.csp) = "" THEN {"framable"} ELSE {}

frame_options(p) ==
  IF p.xfo = "" /\ Get(p.csp) # "framing" THEN {"framable"} ELSE {}

content_type_options(p) == IF p.nosniff THEN {} ELSE {"missing"}

referrer_policy(p) == IF p.referrer THEN {} ELSE {"missing"}

permissions_policy(p) == IF p.permissions THEN {} ELSE {"missing"}

server_banner(p) == {b \in {"Server", "X-Powered-By"} :
                       IF b = "Server" THEN p.server ELSE p.poweredBy}

\* The attributes cookie_flags finds missing.  net/http leaves SameSite 0 when
\* the attribute is absent; SameSiteDefaultMode is an unrecognised value.
missing(c) ==
  {a \in {"Secure", "HttpOnly", "SameSite"} :
     \/ a = "Secure" /\ ~c.secure
     \/ a = "HttpOnly" /\ ~c.httpOnly
     \/ a = "SameSite" /\ c.sameSite = "unrecognised"}

cookie_flags(p) ==
  {<<c, missing(c)>> : c \in {d \in p.cookies : missing(d) # {}}}

\* What each check reports of a page.
Observed(p) ==
  [csp |-> csp(p), frame_options |-> frame_options(p),
   content_type_options |-> content_type_options(p),
   referrer_policy |-> referrer_policy(p),
   permissions_policy |-> permissions_policy(p),
   server_banner |-> server_banner(p), cookie_flags |-> cookie_flags(p)]

Readers == {"csp", "frame_options", "content_type_options",
            "referrer_policy", "permissions_policy", "server_banner",
            "cookie_flags"}

\* A check reads the stored answer; SkipUnlessFetched skips it when there is
\* none, as for a URL that does not parse.
Inspect(c) ==
  /\ ~malformed /\ c \notin inspected
  /\ reports' = [reports EXCEPT ![c] = Observed(page)[c]]
  /\ inspected' = inspected \cup {c}
  /\ UNCHANGED <<page, siteVars, corsVars>>

----------------------------------------------------------------------------
(***************************************************************************)
(* cors.                                                                   *)
(***************************************************************************)

\* The Access-Control-Allow-Origin of the answer to a request from origin.
AllowOrigin(rule, origin) ==
  IF rule.allow = "reflect" THEN origin ELSE rule.allow

\* Mutant of credentialedOriginObservations: the credentials header is read
\* for the wildcard only.
reflectedOriginObservations(rule) ==
  {k \in {"reflected", "wildcard"} :
     IF k = "reflected" THEN AllowOrigin(rule, "marker") = "marker"
     ELSE rule.credentials /\ AllowOrigin(rule, "marker") = "*"}

credentialedOriginObservations(rule) ==
  {k \in {"reflected", "wildcard"} :
     /\ rule.credentials
     /\ AllowOrigin(rule, "marker") = IF k = "reflected" THEN "marker"
                                                         ELSE "*"}

nullObservations(rule) ==
  IF AllowOrigin(rule, "null") = "null" THEN {"null"} ELSE {}

\* parseMaxAge succeeds, with a duration beyond the ceiling.
TooLong(maxAge) ==
  maxReasonablePreflightCacheSeconds < maxAge /\ maxAge <= MaxInt

preflightObservations(pol) ==
  {k \in {"preflight", "long cache"} :
     IF k = "long cache" THEN TooLong(pol.maxAge)
     ELSE /\ pol.options.credentials
          /\ AllowOrigin(pol.options, "marker") \in {"marker", "*"}}

\* What the answer to each request of a path adds.
Found(s, pol) ==
  {k \in {"reflected", "wildcard", "null", "preflight", "long cache"} :
     \/ s = "origin" /\ k \in credentialedOriginObservations(pol.get)
     \/ s = "null" /\ k \in nullObservations(pol.get)
     \/ s = "preflight" /\ k \in preflightObservations(pol)}

Observation == [path : Paths, kind : {"reflected", "wildcard", "null",
                                      "preflight", "long cache"}]

\* Mutant of NextRequest: the preflight is sent again and again.
NextRequestAgain ==
  /\ step' = IF step = "origin" THEN "null" ELSE "preflight"
  /\ path' = path

\* The next request of the path, or the next path's first.
NextRequest ==
  /\ step' = IF step = "origin" THEN "null"
             ELSE IF step = "null" THEN "preflight" ELSE "origin"
  /\ path' = IF step = "preflight" THEN path + 1 ELSE path

Sending == result = "running" /\ ~malformed /\ path <= NP

\* A request is answered.
ProbeCORS ==
  /\ Sending
  /\ observations' = observations \cup
       {[path |-> path, kind |-> k] : k \in Found(step, policy[path])}
  /\ NextRequest
  /\ UNCHANGED <<readVars, siteVars, lost, result>>

\* Mutant of PassOver: a request that fails ends its path.
PassOverPath == path' = path + 1 /\ step' = "origin"

\* A request that failed is passed over.
PassOver == NextRequest

\* A request fails: CORSResult.Err.
RequestFails ==
  /\ Sending
  /\ Cardinality(lost) < MaxLost
  /\ lost' = lost \cup {<<path, step>>}
  /\ PassOver
  /\ UNCHANGED <<readVars, siteVars, observations, result>>

\* ResolvePath fails: the target URL does not parse.
ResolveFails ==
  /\ result = "running"
  /\ malformed /\ path <= NP
  /\ result' = "error"
  /\ UNCHANGED <<readVars, siteVars, path, step, lost, observations>>

ReturnResult ==
  /\ result = "running"
  /\ path > NP
  /\ result' = "returned"
  /\ UNCHANGED <<readVars, siteVars, path, step, lost, observations>>

----------------------------------------------------------------------------
Init ==
  /\ page \in Pages
  /\ reports = [c \in Readers |-> {}]
  /\ inspected = {}
  /\ policy \in [Paths -> Policies]
  /\ malformed \in BOOLEAN
  /\ path = 1
  /\ step = "origin"
  /\ lost = {}
  /\ observations = {}
  /\ result = "running"

CheckStep ==
  \/ \E c \in Readers : Inspect(c)
  \/ ProbeCORS
  \/ RequestFails
  \/ ResolveFails
  \/ ReturnResult

Next == CheckStep

Spec == Init /\ [][Next]_vars /\ WF_vars(CheckStep)

----------------------------------------------------------------------------
(***************************************************************************)
(* What a browser does.                                                    *)
(***************************************************************************)

\* A page of the given origin may read the answer to a request it sent with
\* the user's credentials: the origin must be named, a wildcard will not do.
MayRead(rule, origin) ==
  rule.credentials /\ AllowOrigin(rule, origin) = origin

\* Another site can put the page into a frame.
Framable(p) == p.xfo # "DENY" /\ \A i \in DOMAIN p.csp : p.csp[i] # "framing"

----------------------------------------------------------------------------
(***************************************************************************)
(* Properties.                                                             *)
(***************************************************************************)

\* The variables keep their types; path is at most one past the last, as cors
\* starts every path with its first request (cors/check.go: Check).
HeaderTypeOK ==
  /\ page \in Pages
  /\ inspected \subseteq Readers
  /\ DOMAIN reports = Readers
  /\ policy \in [Paths -> Policies]
  /\ malformed \in BOOLEAN
  /\ path \in 1..(NP + 1)
  /\ step \in Steps
  /\ lost \subseteq Paths \X Steps
  /\ observations \subseteq Observation
  /\ result \in {"running", "returned", "error"}

\* cors misses nothing: whatever a browser lets an arbitrary site or a
\* sandboxed frame read with the user's credentials, or send after a
\* preflight, at any of the paths, is reported for that path unless the very
\* request that shows it failed; so is an overlong preflight cache, if its
\* duration fits an int.
ReadsAreFound ==
  result = "returned" => \A p \in Paths :
    LET has(k) == [path |-> p, kind |-> k] \in observations
        answered(s) == <<p, s>> \notin lost
    IN  /\ MayRead(policy[p].get, "marker") /\ answered("origin") =>
             has("reflected")
        /\ MayRead(policy[p].get, "null") /\ answered("null") => has("null")
        /\ answered("preflight") =>
             /\ MayRead(policy[p].options, "marker") => has("preflight")
             /\ TooLong(policy[p].maxAge) => has("long cache")

\* Except for wildcards, which browsers refuse, and for the null origin, which
\* is reported without credentials as well, what cors says is readable is: a
\* path is not blamed for another's answer or for a header that grants nothing.
FindingsAreReadable ==
  \A o \in observations :
    LET pol == policy[o.path] IN
    /\ o.kind = "reflected" => MayRead(pol.get, "marker")
    /\ o.kind = "preflight" /\ pol.options.allow # "*" =>
         MayRead(pol.options, "marker")
    /\ o.kind = "null" /\ pol.get.credentials => MayRead(pol.get, "null")

\* The page is one on which the checks read what a browser reads: one
\* Content-Security-Policy, an X-Frame-Options browsers know, SameSite given.
ReadAlike(p) ==
  /\ Len(p.csp) <= 1
  /\ p.xfo # "bogus"
  /\ \A c \in p.cookies : c.sameSite # "absent"

\* The page does what docs/checks/headers.mdx recommends for each check.
Remediated(p) ==
  /\ p.csp # <<>> /\ ~Framable(p)
  /\ p.nosniff /\ p.referrer /\ p.permissions
  /\ ~p.server /\ ~p.poweredBy
  /\ \A c \in p.cookies : c.secure /\ c.httpOnly /\ c.sameSite = "set"

\* Following every remediation of the documentation silences the seven checks,
\* and silence of all seven means that every one has been followed.
CleanMeansRemediated ==
  (inspected = Readers /\ ReadAlike(page)) =>
    ((\A c \in Readers : reports[c] = {}) <=> Remediated(page))

\* cors ends and every check has read the page, whatever fails.
ChecksEnd == <>(result # "running" /\ (malformed \/ inspected = Readers))

\* docs/checks/headers.mdx: cookie_flags "checks every Set-Cookie header in
\* the response for the Secure, HttpOnly, and SameSite attributes" - so a
\* cookie without SameSite is reported.
MissingSameSiteIsFound ==
  "cookie_flags" \in inspected =>
    \A c \in page.cookies : c.sameSite = "absent" =>
      \E r \in reports["cookie_flags"] : r[1] = c
=============================================================================
