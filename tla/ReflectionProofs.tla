-------------------------- MODULE ReflectionProofs --------------------------
(***************************************************************************)
(* ReflectionChecks for every set of single-header checks, every number of *)
(* paths and hosts, every site and every schedule of checks, visitors and  *)
(* expiries.                                                               *)
(***************************************************************************)
EXTENDS ReflectionChecks, TLAPS

\* What a cache may hold: markers that some trusted header put there, and
\* the marker of Forwarded only after forwarded_consistency has sent it.
CacheInv ==
  /\ stored => caching
  /\ cached \subseteq {MarkerIn(h) : h \in trusted}
  /\ consistency = "running" => "SpoofedForwardedMarker" \notin cached

\* Of the checks that set one header.
SingleInv ==
  \A c \in HeaderChecks :
    /\ single[c] = "found" =>
         MarkerIn(Sends[c]) \in {MarkerIn(h) : h \in trusted}
    /\ (~caching /\ single[c] = "found") => Sends[c] \in trusted
    /\ (~caching /\ single[c] = "clean") => Sends[c] \notin trusted

\* Of forwarded_consistency.
ConsistencyInv ==
  /\ consistency = "both" => Pair \subseteq trusted
  /\ (~caching /\ consistency = "clean") => Pair \cap trusted = {}
  /\ (~caching /\ consistency = "inconsistent") =>
       ~(Pair \subseteq trusted) /\ Pair \cap trusted # {}

\* Of host_header_injection: the paths it has left behind echo nothing, but
\* for those whose request failed.
InjectionInv ==
  /\ injection.result = "found" => injection.at \in echoes
  /\ injection.result = "clean" => injection.at = NP + 1
  /\ \A p \in (echoes \cap Paths) \ injection.lost : p >= injection.at

\* Of vhost_confusion: the baseline is the target's own backend's, and every
\* host it has left behind that reaches another backend is found or lost.
VhostInv ==
  /\ vhost.baseline.backend = 0
  /\ vhost.result = "returned" => vhost.at = NH + 1
  /\ \A h \in elsewhere : h < vhost.at => h \in vhost.found \cup vhost.lost
  /\ (~caching /\ vhost.at > 0) => vhost.baseline = Body(0, {})
  /\ (~caching /\ ~(0 \in echoes /\ inBody)) => vhost.found \subseteq elsewhere

ReflectionInv ==
  /\ ReflectionTypeOK
  /\ CacheInv
  /\ SingleInv
  /\ ConsistencyInv
  /\ InjectionInv
  /\ VhostInv

----------------------------------------------------------------------------
(***************************************************************************)
(* Markers and answers.                                                    *)
(***************************************************************************)

\* No check but forwarded_consistency sends the marker of Forwarded.
LEMMA SentMarkers ==
  ASSUME NEW c \in HeaderChecks
  PROVE  /\ Sends[c] \in SentHeaders
         /\ MarkerIn(Sends[c]) \in Markers
         /\ MarkerIn(Sends[c]) # "SpoofedForwardedMarker"
<1>1. c \in SingleHeaderChecks
  BY HeaderCheckAssumption
<1>2. Sends[c] \in {"X-Forwarded-For", "X-Real-IP", "True-Client-IP",
                    "X-Forwarded-Host"}
  BY <1>1 DEF Sends, SingleHeaderChecks
<1> QED
  BY <1>2 DEF SentHeaders, MarkerIn, Markers

\* forwarded_consistency can tell its two markers apart.
LEMMA PairMarkers ==
  /\ MarkerIn("Forwarded") = "SpoofedForwardedMarker"
  /\ MarkerIn("X-Forwarded-For") = "SpoofedIPMarker"
BY DEF MarkerIn

\* What a request with the headers hs is answered and leaves in the cache.
LEMMA AnswerIsCaused ==
  ASSUME ReflectionTypeOK, CacheInv, NEW hs
  PROVE  /\ Answer(hs) \subseteq {MarkerIn(h) : h \in trusted}
         /\ ~caching => Answer(hs) = {MarkerIn(h) : h \in hs \cap trusted}
         /\ (consistency = "running" /\ \A h \in hs : MarkerIn(h) # "SpoofedForwardedMarker")
              => "SpoofedForwardedMarker" \notin Answer(hs)
BY DEF Answer, CacheInv, ReflectionTypeOK

\* Whatever the header, what is sent in it is one of the markers.
LEMMA MarkersAreMarkers ==
  ASSUME NEW h
  PROVE  MarkerIn(h) \in Markers
BY DEF MarkerIn, Markers

\* Asking keeps CacheInv as long as only forwarded_consistency sends Forwarded.
LEMMA AskKeepsCache ==
  ASSUME ReflectionTypeOK, CacheInv, NEW hs, Ask(hs), UNCHANGED siteVars,
         consistency' = "running" =>
           /\ consistency = "running"
           /\ \A h \in hs : MarkerIn(h) # "SpoofedForwardedMarker"
  PROVE  /\ CacheInv'
         /\ stored' \in BOOLEAN
         /\ cached' \subseteq Markers
<1>1. trusted' = trusted /\ caching' = caching
  BY DEF siteVars
<1>2. /\ Answer(hs) \subseteq {MarkerIn(h) : h \in trusted}
      /\ (consistency = "running" /\ \A h \in hs : MarkerIn(h) # "SpoofedForwardedMarker")
           => "SpoofedForwardedMarker" \notin Answer(hs)
  BY AnswerIsCaused
<1>3. /\ stored' = caching
      /\ cached' = IF caching THEN Answer(hs) ELSE {}
  BY DEF Ask
<1>4. {MarkerIn(h) : h \in trusted} \subseteq Markers
  BY MarkersAreMarkers
<1>5. stored' => caching'
  BY <1>1, <1>3
<1>6. cached' \subseteq {MarkerIn(h) : h \in trusted'}
  BY <1>1, <1>2, <1>3
<1>7. consistency' = "running" => "SpoofedForwardedMarker" \notin cached'
  BY <1>2, <1>3
<1>8. CacheInv'
  BY <1>1, <1>5, <1>6, <1>7 DEF CacheInv
<1>9. stored' \in BOOLEAN
  BY <1>3 DEF ReflectionTypeOK
<1>10. cached' \subseteq Markers
  BY <1>2, <1>3, <1>4
<1> QED
  BY <1>8, <1>9, <1>10

----------------------------------------------------------------------------
(***************************************************************************)
(* The invariant holds at the start, and each step keeps it.               *)
(***************************************************************************)

\* Nothing is cached and every check is before its first request.
LEMMA ReflectionInit == Init => ReflectionInv
<1> SUFFICES ASSUME Init
             PROVE  ReflectionInv
  OBVIOUS
<1>1. ReflectionTypeOK
  <2>1. /\ trusted \subseteq SentHeaders /\ echoes \subseteq Paths \cup {0}
        /\ elsewhere \subseteq Hosts
        /\ inBody \in BOOLEAN /\ caching \in BOOLEAN /\ link \in Links
        /\ stored \in BOOLEAN /\ cached \subseteq Markers
    BY DEF Init
  <2>2. single \in [HeaderChecks -> {"running", "error", "clean", "found"}]
    BY DEF Init
  <2>3. injection \in [at : 1..(NP + 1), lost : SUBSET Paths,
                       result : {"running", "error", "clean", "found"}]
    BY ReflectionSizeAssumption DEF Init
  <2>4. vhost \in [at : 0..(NH + 1), baseline : Bodies, found : SUBSET Hosts,
                   lost : SUBSET Hosts, result : {"running", "error", "returned"}]
    BY ReflectionSizeAssumption DEF Init, Bodies, Markers
  <2> QED
    BY <2>1, <2>2, <2>3, <2>4 DEF Init, ReflectionTypeOK
<1>2. CacheInv /\ ConsistencyInv
  BY DEF Init, CacheInv, ConsistencyInv
<1>3. SingleInv
  BY DEF Init, SingleInv
<1>4. InjectionInv
  BY ReflectionSizeAssumption DEF Init, InjectionInv, Paths
<1>5. VhostInv
  BY ReflectionSizeAssumption DEF Init, VhostInv, Hosts
<1> QED
  BY <1>1, <1>2, <1>3, <1>4, <1>5 DEF ReflectionInv

\* The one request of a check that sets one header.
LEMMA SingleStep ==
  ASSUME ReflectionInv, NEW c \in HeaderChecks, ProbeWithHeader(c)
  PROVE  ReflectionInv'
<1> DEFINE asked == {Sends[c]}
           marker == MarkerIn(Sends[c])
<1> USE DEF ReflectionInv
<1>1. UNCHANGED <<siteVars, consistency, injection, vhost>>
  BY DEF ProbeWithHeader
<1>2. InjectionInv' /\ VhostInv' /\ ConsistencyInv'
  BY <1>1 DEF InjectionInv, VhostInv, ConsistencyInv, siteVars, Body
<1>3. /\ Sends[c] \in SentHeaders
      /\ marker # "SpoofedForwardedMarker"
  BY SentMarkers
<1>4. CASE UNCHANGED cacheVars /\ single' = [single EXCEPT ![c] = "error"]
  <2>1. ReflectionTypeOK'
    BY <1>1, <1>4 DEF ReflectionTypeOK, siteVars, cacheVars, Body
  <2>2. CacheInv'
    BY <1>1, <1>4 DEF CacheInv, siteVars, cacheVars
  <2>3. SingleInv'
    BY <1>1, <1>4 DEF SingleInv, ReflectionTypeOK, siteVars
  <2> QED
    BY <1>2, <2>1, <2>2, <2>3
<1>5. CASE /\ Ask(asked)
           /\ single' = [single EXCEPT ![c] =
                           IF FindMarker(Answer(asked), marker) THEN "found"
                                                                ELSE "clean"]
  <2>1. CacheInv' /\ stored' \in BOOLEAN /\ cached' \subseteq Markers
    BY <1>1, <1>3, <1>5, AskKeepsCache
  <2>2. /\ Answer(asked) \subseteq {MarkerIn(h) : h \in trusted}
        /\ ~caching => Answer(asked) = {MarkerIn(h) : h \in asked \cap trusted}
    BY AnswerIsCaused
  <2>3. ReflectionTypeOK'
    BY <1>1, <1>5, <2>1 DEF ReflectionTypeOK, siteVars
  <2>4. single'[c] = IF marker \in Answer(asked) THEN "found" ELSE "clean"
    BY <1>5 DEF ReflectionTypeOK, FindMarker
  <2>5. ~caching => (marker \in Answer(asked) <=> Sends[c] \in trusted)
    BY <2>2
  <2>6. \A d \in HeaderChecks : d # c => single'[d] = single[d]
    BY <1>5 DEF ReflectionTypeOK
  <2>7. trusted' = trusted /\ caching' = caching
    BY <1>1 DEF siteVars
  <2>8. SingleInv'
    BY <2>2, <2>4, <2>5, <2>6, <2>7 DEF SingleInv
  <2> QED
    BY <1>2, <2>1, <2>3, <2>8
<1> QED
  BY <1>4, <1>5 DEF ProbeWithHeader

\* The one request of forwarded_consistency: if the answer holds the marker
\* of Forwarded it did not come from the cache.
LEMMA ConsistencyStep ==
  ASSUME ReflectionInv, ProbeWithHeaders
  PROVE  ReflectionInv'
<1> USE DEF ReflectionInv
<1> DEFINE forwarded == "SpoofedForwardedMarker" \in Answer(Pair)
           legacy == "SpoofedIPMarker" \in Answer(Pair)
<1>1. consistency = "running" /\ UNCHANGED <<siteVars, single, injection, vhost>>
  BY DEF ProbeWithHeaders
<1>2. InjectionInv' /\ VhostInv' /\ SingleInv'
  BY <1>1 DEF InjectionInv, VhostInv, SingleInv, siteVars, Body
<1>3. CASE UNCHANGED cacheVars /\ consistency' = "error"
  <2>1. ReflectionTypeOK'
    BY <1>1, <1>3 DEF ReflectionTypeOK, siteVars, cacheVars
  <2>2. CacheInv' /\ ConsistencyInv'
    BY <1>1, <1>3 DEF CacheInv, ConsistencyInv, siteVars, cacheVars
  <2> QED
    BY <1>2, <2>1, <2>2
<1>4. CASE /\ Ask(Pair)
           /\ consistency' = IF forwarded /\ legacy THEN "both" ELSE
                             IF forwarded # legacy THEN "inconsistent"
                                                   ELSE "clean"
  <2>1. CacheInv' /\ stored' \in BOOLEAN /\ cached' \subseteq Markers
    BY <1>1, <1>4, AskKeepsCache
  <2>2. ReflectionTypeOK'
    BY <1>1, <1>4, <2>1 DEF ReflectionTypeOK, siteVars
  <2>3. forwarded => ~stored
    BY <1>1 DEF CacheInv, Answer
  <2>4. ~stored => /\ forwarded <=> "Forwarded" \in trusted
                   /\ legacy <=> "X-Forwarded-For" \in trusted
    BY DEF Answer, Pair, MarkerIn
  <2>5. ~caching => ~stored
    BY DEF CacheInv
  <2>6. trusted' = trusted /\ caching' = caching
    BY <1>1 DEF siteVars
  <2>7. ConsistencyInv'
    BY <1>4, <2>3, <2>4, <2>5, <2>6 DEF ConsistencyInv, Pair
  <2> QED
    BY <1>2, <2>1, <2>2, <2>7
<1> QED
  BY <1>3, <1>4, PairMarkers DEF ProbeWithHeaders, FindMarker

\* The loop of host_header_injection, which never touches the cached page.
LEMMA InjectionStep ==
  ASSUME ReflectionInv, ProbeWithHost \/ InjectionReturns
  PROVE  ReflectionInv'
<1> USE DEF ReflectionInv
<1>1. /\ UNCHANGED <<siteVars, cacheVars, single, consistency, vhost>>
      /\ injection.result = "running"
  BY DEF ProbeWithHost, InjectionReturns
<1>2. CacheInv' /\ SingleInv' /\ ConsistencyInv' /\ VhostInv'
  BY <1>1
     DEF CacheInv, SingleInv, ConsistencyInv, VhostInv, siteVars, cacheVars, Body
<1>3. /\ injection \in [at : 1..(NP + 1), lost : SUBSET Paths,
                        result : {"running", "error", "clean", "found"}]
      /\ NP \in Nat
  BY ReflectionSizeAssumption DEF ReflectionTypeOK
<1>4. /\ injection' \in [at : 1..(NP + 1), lost : SUBSET Paths,
                         result : {"running", "error", "clean", "found"}]
      /\ InjectionInv'
  <2>1. CASE injection' = [injection EXCEPT !.result = "error"]
    BY <1>1, <1>3, <2>1 DEF InjectionInv, siteVars
  <2>2. CASE MorePaths /\ NextPath({injection.at})
    <3>1. injection.at \in Paths
      BY <1>3, <2>2 DEF MorePaths, Paths
    <3>2. injection' = [at |-> injection.at + 1,
                        lost |-> injection.lost \cup {injection.at},
                        result |-> injection.result]
      BY <1>3, <2>2 DEF NextPath
    <3>3. \A p \in (echoes \cap Paths) \ injection'.lost : p >= injection.at + 1
      BY <1>3, <3>2 DEF InjectionInv, Paths
    <3>. QED
      BY <1>1, <1>3, <3>1, <3>2, <3>3 DEF InjectionInv, siteVars, Paths
  <2>3. CASE /\ Reflected(injection.at)
             /\ injection' = [injection EXCEPT !.result = "found"]
    BY <1>1, <1>3, <2>3 DEF InjectionInv, siteVars, Reflected
  <2>4. CASE MorePaths /\ ~Reflected(injection.at) /\ NextPath({})
    <3>1. injection.at \in Paths
      BY <1>3, <2>4 DEF MorePaths, Paths
    <3>2. injection' = [at |-> injection.at + 1, lost |-> injection.lost,
                        result |-> injection.result]
      BY <1>3, <2>4 DEF NextPath
    <3>3. \A p \in (echoes \cap Paths) \ injection.lost : p >= injection.at + 1
      BY <1>3, <2>4 DEF InjectionInv, Paths, Reflected
    <3>. QED
      BY <1>1, <1>3, <3>1, <3>2, <3>3 DEF InjectionInv, siteVars, Paths
  <2>5. CASE ~MorePaths /\ injection' = [injection EXCEPT !.result = "clean"]
    BY <1>1, <1>3, <2>5 DEF InjectionInv, siteVars, MorePaths
  <2> QED
    BY <2>1, <2>2, <2>3, <2>4, <2>5 DEF ProbeWithHost, InjectionReturns
<1>5. ReflectionTypeOK'
  BY <1>1, <1>4 DEF ReflectionTypeOK, siteVars, cacheVars
<1> QED
  BY <1>2, <1>4, <1>5

\* A host that another backend answers is told from the target's own.
LEMMA BodiesDiffer ==
  ASSUME ReflectionTypeOK, NEW host \in Hosts
  PROVE  /\ host \in elsewhere => Body(host, {}).backend # 0
         /\ (host \notin elsewhere /\ ~(0 \in echoes /\ inBody))
              => Body(host, {}) = Body(0, {})
<1>1. host # 0 /\ 0 \notin elsewhere
  BY ReflectionSizeAssumption DEF ReflectionTypeOK, Hosts
<1> QED
  BY <1>1 DEF Body

\* The baseline and the loop of vhost_confusion.
LEMMA VhostStep ==
  ASSUME ReflectionInv, FetchBaseline \/ FetchWithHost \/ VhostReturns
  PROVE  ReflectionInv'
<1> USE DEF ReflectionInv
<1>1. /\ UNCHANGED <<siteVars, single, consistency, injection>>
      /\ vhost.result = "running"
  BY DEF FetchBaseline, FetchWithHost, VhostReturns
<1>2. SingleInv' /\ ConsistencyInv' /\ InjectionInv'
  BY <1>1 DEF SingleInv, ConsistencyInv, InjectionInv, siteVars
<1>3. CacheInv' /\ stored' \in BOOLEAN /\ cached' \subseteq Markers
  <2>1. CASE UNCHANGED cacheVars
    BY <1>1, <2>1 DEF CacheInv, ReflectionTypeOK, siteVars, cacheVars
  <2>2. CASE Ask({})
    BY <1>1, <2>2, AskKeepsCache
  <2> QED
    BY <2>1, <2>2 DEF FetchBaseline, FetchWithHost, VhostReturns
<1>4. \A h, ms : Body(h, ms)' = Body(h, ms)
  BY <1>1 DEF Body, siteVars
<1>5. /\ vhost \in [at : 0..(NH + 1), baseline : Bodies, found : SUBSET Hosts,
                    lost : SUBSET Hosts, result : {"running", "error", "returned"}]
      /\ NH \in Nat
      /\ elsewhere \subseteq 1..NH
  BY ReflectionSizeAssumption DEF ReflectionTypeOK, Hosts
<1> DEFINE VhostType ==
             vhost \in [at : 0..(NH + 1), baseline : Bodies, found : SUBSET Hosts,
                        lost : SUBSET Hosts, result : {"running", "error", "returned"}]
           SameSite == /\ elsewhere' = elsewhere /\ link' = link
                       /\ caching' = caching /\ echoes' = echoes
                       /\ inBody' = inBody
<1>6. SameSite
  BY <1>1 DEF siteVars
<1>7. VhostType' /\ VhostInv'
  <2>1. CASE FetchBaseline
    <3>1. CASE vhost' = [vhost EXCEPT !.result = "error"]
      BY <1>4, <1>5, <1>6, <3>1 DEF VhostInv
    <3>2. CASE vhost' = [vhost EXCEPT !.at = 1, !.baseline = Body(0, Answer({}))]
      <4>1. Body(0, Answer({})).backend = 0
        BY <1>5 DEF Body
      <4>2. ~caching => Answer({}) = {}
        BY AnswerIsCaused
      <4>3. Body(0, Answer({})) \in Bodies
        <5>1. Answer({}) \subseteq Markers
          BY AnswerIsCaused, MarkersAreMarkers
        <5> QED
          BY <1>5, <5>1 DEF Body, Bodies
      <4>4. /\ vhost'.at = 1 /\ vhost'.baseline = Body(0, Answer({}))
            /\ vhost'.found = vhost.found /\ vhost'.result = "running"
        BY <1>1, <1>5, <3>2
      <4>5. VhostType'
        <5>1. vhost' = [at |-> 1, baseline |-> Body(0, Answer({})),
                        found |-> vhost.found, lost |-> vhost.lost,
                        result |-> vhost.result]
          BY <1>5, <3>2
        <5> QED
          BY <1>5, <4>3, <5>1
      <4>6. \A h \in elsewhere' : ~(h < vhost'.at)
        BY <1>5, <1>6, <4>4
      <4> QED
        BY <1>4, <1>6, <4>1, <4>2, <4>4, <4>5, <4>6 DEF VhostInv
    <3> QED
      BY <2>1, <3>1, <3>2 DEF FetchBaseline
  <2>2. CASE FetchWithHost
    <3>1. vhost.at \in Hosts /\ vhost.at \in 1..NH
      BY <2>2 DEF FetchWithHost, Hosts
    <3>2. /\ vhost.at \in elsewhere => Body(vhost.at, {}).backend # 0
          /\ (vhost.at \notin elsewhere /\ ~(0 \in echoes /\ inBody))
               => Body(vhost.at, {}) = Body(0, {})
      BY <3>1, BodiesDiffer
    <3>3. CASE \/ vhost' = [vhost EXCEPT !.at = @ + 1,
                                         !.lost = @ \cup {vhost.at}]
               \/ /\ Body(vhost.at, {}) = vhost.baseline
                  /\ vhost' = [vhost EXCEPT !.at = @ + 1]
      <4>1. /\ vhost'.at = vhost.at + 1 /\ vhost'.baseline = vhost.baseline
            /\ vhost'.found = vhost.found /\ vhost'.result = "running"
            /\ vhost.lost \subseteq vhost'.lost
        BY <1>1, <1>5, <3>3
      <4>2. VhostType'
        <5>1. PICK L \in {vhost.lost, vhost.lost \cup {vhost.at}} :
                vhost' = [at |-> vhost.at + 1, baseline |-> vhost.baseline,
                          found |-> vhost.found, lost |-> L,
                          result |-> vhost.result]
          BY <1>5, <3>3
        <5>2. L \in SUBSET Hosts
          BY <1>5, <3>1
        <5> QED
          BY <1>5, <3>1, <5>1, <5>2
      <4>3. vhost.at \in elsewhere => vhost.at \in vhost'.lost
        BY <1>5, <3>2, <3>3 DEF VhostInv
      <4>4. \A h \in elsewhere :
              h < vhost.at + 1 => h \in vhost.found \cup vhost'.lost
        <5> SUFFICES ASSUME NEW h \in elsewhere, h < vhost.at + 1
                     PROVE  h \in vhost.found \cup vhost'.lost
          OBVIOUS
        <5>1. h < vhost.at \/ h = vhost.at
          BY <1>5, <3>1
        <5> QED
          BY <4>1, <4>3, <5>1 DEF VhostInv
      <4>5. vhost.at > 0
        BY <3>1
      <4> QED
        BY <1>4, <1>6, <4>1, <4>2, <4>4, <4>5 DEF VhostInv
    <3>4. CASE Body(vhost.at, {}) # vhost.baseline /\ Confused
      <4>1. /\ vhost'.at = vhost.at + 1 /\ vhost'.baseline = vhost.baseline
            /\ vhost'.found = vhost.found \cup {vhost.at}
            /\ vhost'.lost = vhost.lost /\ vhost'.result = "running"
        BY <1>1, <1>5, <3>4 DEF Confused
      <4>2. VhostType'
        <5>1. vhost' = [at |-> vhost.at + 1, baseline |-> vhost.baseline,
                        found |-> vhost.found \cup {vhost.at},
                        lost |-> vhost.lost, result |-> vhost.result]
          BY <1>5, <3>4 DEF Confused
        <5>2. vhost.found \cup {vhost.at} \in SUBSET Hosts
          BY <1>5, <3>1
        <5> QED
          BY <1>5, <3>1, <5>1, <5>2
      <4>3. vhost.at > 0
        BY <3>1
      <4>4. \A h \in elsewhere :
              h < vhost.at + 1 => h \in vhost'.found \cup vhost'.lost
        <5> SUFFICES ASSUME NEW h \in elsewhere, h < vhost.at + 1
                     PROVE  h \in vhost'.found \cup vhost'.lost
          OBVIOUS
        <5>1. h = vhost.at \/ h < vhost.at
          BY <1>5, <3>1
        <5>2. h < vhost.at => h \in vhost.found \cup vhost.lost
          BY DEF VhostInv
        <5> QED
          BY <4>1, <5>1, <5>2
      <4>5. (~caching /\ ~(0 \in echoes /\ inBody)) => vhost.at \in elsewhere
        BY <3>2, <3>4, <4>3 DEF VhostInv
      <4> QED
        BY <1>4, <1>6, <4>1, <4>2, <4>3, <4>4, <4>5 DEF VhostInv
    <3> QED
      BY <2>2, <3>3, <3>4 DEF FetchWithHost
  <2>3. CASE VhostReturns
    <3>1. /\ vhost' = [vhost EXCEPT !.result = "returned"]
          /\ vhost.at = NH + 1
      BY <2>3 DEF VhostReturns
    <3> QED
      BY <1>4, <1>5, <1>6, <3>1 DEF VhostInv
  <2> QED
    BY <2>1, <2>2, <2>3
<1>8. ReflectionTypeOK'
  BY <1>1, <1>3, <1>7 DEF ReflectionTypeOK, siteVars
<1> QED
  BY <1>2, <1>3, <1>7, <1>8

\* Visitors, expiry, and stuttering.
LEMMA CacheStep ==
  ASSUME ReflectionInv, Visit \/ Expire \/ UNCHANGED vars
  PROVE  ReflectionInv'
<1> USE DEF ReflectionInv
<1>1. UNCHANGED siteVars /\ UNCHANGED checkVars
  BY DEF Visit, Expire, vars, checkVars
<1>2. SingleInv' /\ ConsistencyInv' /\ InjectionInv' /\ VhostInv'
  BY <1>1 DEF SingleInv, ConsistencyInv, InjectionInv, VhostInv, siteVars,
              checkVars, Body
<1>3. CacheInv' /\ stored' \in BOOLEAN /\ cached' \subseteq Markers
  <2>1. CASE Visit
    BY <1>1, <2>1, AskKeepsCache DEF Visit, checkVars
  <2>2. CASE Expire
    BY <1>1, <2>2 DEF Expire, CacheInv, siteVars, checkVars
  <2>3. CASE UNCHANGED vars
    BY <2>3 DEF vars, siteVars, cacheVars, CacheInv, ReflectionTypeOK
  <2> QED
    BY <2>1, <2>2, <2>3
<1>4. ReflectionTypeOK'
  BY <1>1, <1>3 DEF ReflectionTypeOK, siteVars, checkVars
<1> QED
  BY <1>2, <1>3, <1>4

\* The header-trust checks keep the invariant the theorems below rest on.
THEOREM ReflectionInvariant == Spec => []ReflectionInv
<1>1. Init => ReflectionInv
  BY ReflectionInit
<1>2. ReflectionInv /\ [Next]_vars => ReflectionInv'
  BY SingleStep, ConsistencyStep, InjectionStep, VhostStep, CacheStep DEF Next
<1> QED
  BY <1>1, <1>2, PTL DEF Spec

----------------------------------------------------------------------------
(***************************************************************************)
(* The properties of ReflectionChecks.                                     *)
(***************************************************************************)

\* The checks' variables keep their types; host_header_injection and
\* vhost_confusion never walk past the last path or host.
THEOREM ReflectionTypeCorrect == Spec => []ReflectionTypeOK
<1>1. ReflectionInv => ReflectionTypeOK
  BY DEF ReflectionInv
<1> QED
  BY <1>1, ReflectionInvariant, PTL

\* However the cache mixes the checks' answers, a marker that is found was
\* put there by a header the site trusts.
THEOREM FindingsAreCaused == Spec => []FindingsHaveACause
<1>1. ReflectionInv => FindingsHaveACause
  BY DEF ReflectionInv, SingleInv, FindingsHaveACause
<1> QED
  BY <1>1, ReflectionInvariant, PTL

\* forwarded_consistency calls both headers trusted only if both are.
THEOREM BothIsAlwaysTrue == Spec => []BothIsTrue
<1>1. ReflectionInv => BothIsTrue
  BY DEF ReflectionInv, ConsistencyInv, BothIsTrue
<1> QED
  BY <1>1, ReflectionInvariant, PTL

\* Without a shared cache each check says exactly what the site does.
THEOREM UncachedIsExact == Spec => []UncachedFindingsAreExact
<1>1. ReflectionInv => UncachedFindingsAreExact
  <2> SUFFICES ASSUME ReflectionInv, ~caching
               PROVE  UncachedFindingsAreExact
    BY DEF UncachedFindingsAreExact
  <2>1. \A c \in HeaderChecks :
          /\ single[c] = "found" => Sends[c] \in trusted
          /\ single[c] = "clean" => Sends[c] \notin trusted
    BY DEF ReflectionInv, SingleInv
  <2>2. ConsistencyInv
    BY DEF ReflectionInv
  <2>3. injection.result = "found" =>
          /\ injection.at \in echoes
          /\ \A p \in (echoes \cap Paths) \ injection.lost : p >= injection.at
    BY DEF ReflectionInv, InjectionInv
  <2>4. injection.result = "clean" => echoes \cap Paths \subseteq injection.lost
    BY ReflectionSizeAssumption DEF ReflectionInv, InjectionInv, Paths
  <2>5. ~(0 \in echoes /\ inBody) => vhost.found \subseteq elsewhere
    BY DEF ReflectionInv, VhostInv
  <2> QED
    BY <2>1, <2>2, <2>3, <2>4, <2>5 DEF UncachedFindingsAreExact, ConsistencyInv
<1> QED
  BY <1>1, ReflectionInvariant, PTL

\* vhost_confusion misses no backend a candidate host reaches, whatever the
\* caches hold and the pages echo, but for a host whose own request failed.
THEOREM NoBackendIsEverMissed == Spec => []NoBackendIsMissed
<1>1. ReflectionInv => NoBackendIsMissed
  <2> SUFFICES ASSUME ReflectionInv, vhost.result = "returned"
               PROVE  elsewhere \subseteq vhost.found \cup vhost.lost
    BY DEF NoBackendIsMissed
  <2>1. /\ vhost.at = NH + 1
        /\ \A h \in elsewhere : h < vhost.at => h \in vhost.found \cup vhost.lost
    BY DEF ReflectionInv, VhostInv
  <2>2. \A h \in elsewhere : h < NH + 1
    BY ReflectionSizeAssumption DEF ReflectionInv, ReflectionTypeOK, Hosts
  <2> QED
    BY <2>1, <2>2
<1> QED
  BY <1>1, ReflectionInvariant, PTL
=============================================================================
