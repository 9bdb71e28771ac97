-------------------------- MODULE ReflectionChecks --------------------------
(***************************************************************************)
(* The header-trust checks that send a marker in a request header and look *)
(* for it in the answer (x_forwarded_for, x_real_ip, true_client_ip,       *)
(* x_forwarded_host, forwarded_consistency, host_header_injection), and    *)
(* vhost_confusion, which compares the answers to two Host headers.        *)
(*                                                                         *)
(* They run side by side and share the target.  All but the two that spoof *)
(* the Host ask for the same page under the same host, so that a shared    *)
(* cache in front of the origin, whose key has the host but none of the    *)
(* other headers, may answer one check with what another one's marker      *)
(* left there; it answers the site's other visitors alike.                 *)
(***************************************************************************)
EXTENDS Naturals

CONSTANTS
  HeaderChecks,  \* those of SingleHeaderChecks that run
  NP,            \* candidatePaths of host_header_injection
  NH             \* candidateHosts of vhost_confusion

SingleHeaderChecks == {"x_forwarded_for", "x_real_ip", "true_client_ip",
                       "x_forwarded_host"}

ASSUME HeaderCheckAssumption == HeaderChecks \subseteq SingleHeaderChecks
ASSUME ReflectionSizeAssumption == NP \in Nat /\ NH \in Nat

\* headerName, per check.
Sends == [x_forwarded_for  |-> "X-Forwarded-For",
          x_real_ip        |-> "X-Real-IP",
          true_client_ip   |-> "True-Client-IP",
          x_forwarded_host |-> "X-Forwarded-Host"]

\* The two headers of forwarded_consistency's one request.
Pair == {"Forwarded", "X-Forwarded-For"}

SentHeaders == Pair \cup {Sends[c] : c \in HeaderChecks}

Markers == {"SpoofedIPMarker", "SpoofedHostMarker", "SpoofedForwardedMarker"}

\* Mutant of MarkerIn: Forwarded carries the same address as X-Forwarded-For.
OneAddressMarker(h) == IF h = "X-Forwarded-Host" THEN "SpoofedHostMarker"
                                                 ELSE "SpoofedIPMarker"

\* The marker that is sent in header h.
MarkerIn(h) == IF h = "X-Forwarded-Host" THEN "SpoofedHostMarker" ELSE
               IF h = "Forwarded" THEN "SpoofedForwardedMarker"
                                  ELSE "SpoofedIPMarker"

\* 0 is the target's own page and own host.
Paths == 1..NP
Hosts == 1..NH

VARIABLES
  trusted,     \* headers whose value the site puts into its answers ...
  echoes,      \* ... and pages into which it puts the Host
  inBody,      \* it does so in the body, or in a header
  elsewhere,   \* hosts it routes to another backend, whose page is another
  caching,     \* a shared cache is in front of it
  link,        \* how requests fare: see Links
  stored,      \* the cache holds the target's page ...
  cached,      \* ... with these markers
  single,      \* per check of HeaderChecks: where it is, or its outcome
  consistency, \* forwarded_consistency
  injection,   \* host_header_injection, lost being the paths whose request
               \* failed
  vhost        \* vhost_confusion, with lost hosts likewise

siteVars == <<trusted, echoes, inBody, elsewhere, caching, link>>
cacheVars == <<stored, cached>>
vars == <<siteVars, cacheVars, single, consistency, injection, vhost>>

\* Every request is answered; any may fail; the target URL does not parse.
Links == {"sound", "lossy", "malformed"}

\* What vhost_confusion compares.
Body(host, markers) ==
  [backend |-> IF host \in elsewhere THEN host ELSE 0,
   host |-> IF 0 \in echoes /\ inBody THEN host ELSE 0,
   markers |-> IF inBody THEN markers ELSE {}]

Bodies == [backend : 0..NH, host : 0..NH, markers : SUBSET Markers]

ReflectionTypeOK ==
  /\ trusted \subseteq SentHeaders
  /\ echoes \subseteq Paths \cup {0}
  /\ inBody \in BOOLEAN
  /\ elsewhere \subseteq Hosts
  /\ caching \in BOOLEAN
  /\ link \in Links
  /\ stored \in BOOLEAN
  /\ cached \subseteq Markers
  /\ single \in [HeaderChecks -> {"running", "error", "clean", "found"}]
  /\ consistency \in {"running", "error", "clean", "both", "inconsistent"}
  /\ injection \in [at : 1..(NP + 1), lost : SUBSET Paths,
                    result : {"running", "error", "clean", "found"}]
  /\ vhost \in [at : 0..(NH + 1), baseline : Bodies, found : SUBSET Hosts,
                lost : SUBSET Hosts, result : {"running", "error", "returned"}]

Init ==
  /\ trusted \in SUBSET SentHeaders
  /\ echoes \in SUBSET (Paths \cup {0})
  /\ inBody \in BOOLEAN
  /\ elsewhere \in SUBSET Hosts
  /\ caching \in BOOLEAN
  /\ link \in Links
  /\ stored = FALSE
  /\ cached = {}
  /\ single = [c \in HeaderChecks |-> "running"]
  /\ consistency = "running"
  /\ injection = [at |-> 1, lost |-> {}, result |-> "running"]
  /\ vhost = [at |-> 0,
              baseline |-> [backend |-> 0, host |-> 0, markers |-> {}],
              found |-> {}, lost |-> {}, result |-> "running"]

----------------------------------------------------------------------------
(***************************************************************************)
(* A GET of the target's page with the headers in hs set: the markers of   *)
(* the answer, and what is in the cache afterwards.                        *)
(***************************************************************************)
Answer(hs) == IF stored THEN cached
                        ELSE {MarkerIn(h) : h \in hs \cap trusted}

Ask(hs) == /\ stored' = caching
           /\ cached' = IF caching THEN Answer(hs) ELSE {}

\* Mutant of FindMarker: any of the markers will do.
FindAnyMarker(answer, marker) == answer # {}

\* FindMarker: in the body or in a header.
FindMarker(answer, marker) == marker \in answer

----------------------------------------------------------------------------
\* x_forwarded_for, x_real_ip, true_client_ip, x_forwarded_host: one request.
ProbeWithHeader(c) ==
  /\ single[c] = "running"
  /\ \/ /\ link # "sound"
        /\ single' = [single EXCEPT ![c] = "error"]
        /\ UNCHANGED cacheVars
     \/ /\ link # "malformed"
        /\ LET reflected == FindMarker(Answer({Sends[c]}), MarkerIn(Sends[c]))
           IN single' = [single EXCEPT ![c] = IF reflected THEN "found"
                                                           ELSE "clean"]
        /\ Ask({Sends[c]})
  /\ UNCHANGED <<siteVars, consistency, injection, vhost>>

\* forwarded_consistency: one request with both headers.
ProbeWithHeaders ==
  /\ consistency = "running"
  /\ \/ /\ link # "sound"
        /\ consistency' = "error"
        /\ UNCHANGED cacheVars
     \/ /\ link # "malformed"
        /\ LET forwarded == FindMarker(Answer(Pair), MarkerIn("Forwarded"))
               legacy == FindMarker(Answer(Pair), MarkerIn("X-Forwarded-For"))
           IN consistency' = IF forwarded /\ legacy THEN "both" ELSE
                             IF forwarded # legacy THEN "inconsistent"
                                                   ELSE "clean"
        /\ Ask(Pair)
  /\ UNCHANGED <<siteVars, single, injection, vhost>>

\* Mutant of NextPath: a path whose request fails ends the check.
NextPathUnlessLost(failed) ==
  injection' = IF failed = {}
               THEN [injection EXCEPT !.at = @ + 1]
               ELSE [injection EXCEPT !.lost = @ \cup failed, !.result = "clean"]

\* continue, after a request that failed or one without a reflection.
NextPath(failed) ==
  injection' = [injection EXCEPT !.at = @ + 1, !.lost = @ \cup failed]

MorePaths == injection.at <= NP

\* The page answers with the Host in it.
Reflected(path) == path \in echoes

\* host_header_injection: the marker as Host, at the next path; the first
\* reflection is the check's finding.  A path whose request fails is passed
\* over.
ProbeWithHost ==
  /\ injection.result = "running" /\ MorePaths
  /\ \/ /\ link = "malformed"
        /\ injection' = [injection EXCEPT !.result = "error"]
     \/ /\ link = "lossy"
        /\ NextPath({injection.at})
     \/ /\ link # "malformed" /\ Reflected(injection.at)
        /\ injection' = [injection EXCEPT !.result = "found"]
     \/ /\ link # "malformed" /\ ~Reflected(injection.at)
        /\ NextPath({})
  /\ UNCHANGED <<siteVars, cacheVars, single, consistency, vhost>>

InjectionReturns ==
  /\ injection.result = "running" /\ ~MorePaths
  /\ injection' = [injection EXCEPT !.result = "clean"]
  /\ UNCHANGED <<siteVars, cacheVars, single, consistency, vhost>>

----------------------------------------------------------------------------
\* vhost_confusion: the page under the target's own host.
FetchBaseline ==
  /\ vhost.result = "running" /\ vhost.at = 0
  /\ \/ /\ link # "sound"
        /\ vhost' = [vhost EXCEPT !.result = "error"]
        /\ UNCHANGED cacheVars
     \/ /\ link # "malformed"
        /\ vhost' = [vhost EXCEPT !.at = 1, !.baseline = Body(0, Answer({}))]
        /\ Ask({})
  /\ UNCHANGED <<siteVars, single, consistency, injection>>

\* Mutant of Confused: the first host that is answered otherwise is enough.
ConfusedOnce ==
  vhost' = [vhost EXCEPT !.at = NH + 1, !.found = @ \cup {vhost.at}]

\* The finding, and the next host.
Confused == vhost' = [vhost EXCEPT !.at = @ + 1, !.found = @ \cup {vhost.at}]

\* Under the next candidate host, which no marker accompanies and no other
\* request has put into the cache.  A request that fails is passed over.
FetchWithHost ==
  /\ vhost.result = "running" /\ vhost.at \in Hosts
  /\ \/ /\ link = "lossy"
        /\ vhost' = [vhost EXCEPT !.at = @ + 1, !.lost = @ \cup {vhost.at}]
     \/ /\ Body(vhost.at, {}) = vhost.baseline
        /\ vhost' = [vhost EXCEPT !.at = @ + 1]
     \/ /\ Body(vhost.at, {}) # vhost.baseline
        /\ Confused
  /\ UNCHANGED <<siteVars, cacheVars, single, consistency, injection>>

VhostReturns ==
  /\ vhost.result = "running" /\ vhost.at = NH + 1
  /\ vhost' = [vhost EXCEPT !.result = "returned"]
  /\ UNCHANGED <<siteVars, cacheVars, single, consistency, injection>>

----------------------------------------------------------------------------
checkVars == <<single, consistency, injection, vhost>>

\* Another visitor asks for the page; what the cache holds may expire.
Visit == Ask({}) /\ UNCHANGED <<siteVars, checkVars>>

Expire ==
  /\ stored
  /\ stored' = FALSE
  /\ cached' = {}
  /\ UNCHANGED <<siteVars, checkVars>>

Next == \/ \E c \in HeaderChecks : ProbeWithHeader(c)
        \/ ProbeWithHeaders
        \/ ProbeWithHost \/ InjectionReturns
        \/ FetchBaseline \/ FetchWithHost \/ VhostReturns
        \/ Visit \/ Expire

Spec == Init /\ [][Next]_vars

----------------------------------------------------------------------------
(***************************************************************************)
(* Properties.                                                             *)
(***************************************************************************)

\* Whatever a cache mixes up, a finding has a cause at the site: some header
\* the scan sends with that check's marker is one the site trusts.  (The
\* markers are told apart, and none occurs by itself.)
FindingsHaveACause ==
  \A c \in HeaderChecks : single[c] = "found" =>
    \E h \in trusted : MarkerIn(h) = MarkerIn(Sends[c])

\* "Both Forwarded and X-Forwarded-For are trusted" is said only of a site
\* that trusts both, cache or no cache: the answer that holds both markers
\* can only be the one to forwarded_consistency's own request.
BothIsTrue == consistency = "both" => Pair \subseteq trusted

\* Without a cache each check says exactly what the site does: a header is
\* reported if and only if it is trusted, the two formats are judged alike,
\* the first echoing path is found whose request did not fail, and (where
\* pages do not echo the Host) no host that reaches the target's backend.
UncachedFindingsAreExact ==
  ~caching =>
    /\ \A c \in HeaderChecks :
         /\ single[c] = "found" => Sends[c] \in trusted
         /\ single[c] = "clean" => Sends[c] \notin trusted
    /\ consistency = "both" => Pair \subseteq trusted
    /\ consistency = "clean" => Pair \cap trusted = {}
    /\ consistency = "inconsistent" =>
         ~(Pair \subseteq trusted) /\ Pair \cap trusted # {}
    /\ injection.result = "found" =>
         /\ injection.at \in echoes
         /\ \A p \in (echoes \cap Paths) \ injection.lost : p >= injection.at
    /\ injection.result = "clean" => echoes \cap Paths \subseteq injection.lost
    /\ ~(0 \in echoes /\ inBody) => vhost.found \subseteq elsewhere

\* A backend that a candidate host reaches is never missed, whatever the
\* caches hold and the pages echo, unless its own request failed.
NoBackendIsMissed ==
  vhost.result = "returned" => elsewhere \subseteq vhost.found \cup vhost.lost
=============================================================================
