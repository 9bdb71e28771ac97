----------------------------- MODULE ScanProofs -----------------------------
(***************************************************************************)
(* Proofs about ScanEngine and ScanCommand, for every set of registered    *)
(* checks and however often the target changes.  First the engine by       *)
(* itself; then the command, whose steps are steps of the engine or leave  *)
(* it alone, so that all that holds of the engine holds of the command.    *)
(***************************************************************************)
EXTENDS ScanCommand, TLAPS

\* The entries of the registry agree with each other: whatever reads a
\* probe's data is guarded by a skip rule on it, and whatever has a skip rule
\* on a probe depends on it (check.go and check.yaml of every check).
LEMMA RegistryCoherent ==
  /\ HTTPFetch # TLSInfo
  /\ RunReadsFetch \subseteq SkipUnlessFetchedChecks
  /\ RunReadsTLSInfo \subseteq SkipUnlessHandshakeChecks
  /\ SkipUnlessFetchedChecks \cup SkipUnlessNginxChecks \subseteq FetchDependents
  /\ SkipUnlessHandshakeChecks \subseteq TLSDependents
  /\ SkipUnlessFetchedChecks \cap SkipUnlessNginxChecks = {}
  /\ FetchDependents \cap TLSDependents = {}
  /\ \A p \in Probes : /\ p \notin FetchDependents
                       /\ p \notin TLSDependents
                       /\ p \notin StoreOnly
BY DEF HTTPFetch, TLSInfo, Probes, RunReadsFetch, RunReadsTLSInfo,
       SkipUnlessFetchedChecks, SkipUnlessNginxChecks,
       SkipUnlessHandshakeChecks, FetchDependents, TLSDependents, StoreOnly,
       HeaderChecks, CachingChecks

\* A check with a skip rule on a probe depends on that probe.
LEMMA SkipRuleHasDependency ==
  ASSUME NEW c
  PROVE  /\ c \in SkipUnlessFetchedChecks \cup SkipUnlessNginxChecks
              => HTTPFetch \in DependsOn(c)
         /\ c \in SkipUnlessHandshakeChecks => TLSInfo \in DependsOn(c)
BY RegistryCoherent DEF DependsOn, Probes

\* The shared probes have no skip rule.
LEMMA ProbesAreNotSkipped == \A p \in Probes : ~Skips(p)
BY RegistryCoherent DEF Skips

----------------------------------------------------------------------------
\* A probe is done exactly when the store holds its data.
ProbeStored ==
  /\ status[HTTPFetch] # "skipped" /\ status[TLSInfo] # "skipped"
  /\ status[HTTPFetch] = "done" <=> fetched # "none"
  /\ status[TLSInfo] = "done" <=> tlsInfo # "none"

EngineInv == EngineTypeOK /\ ProbeStored /\ InputsAvailable /\ NoSpuriousSkip

LEMMA ProbesRegistered ==
  HTTPFetch \in Registered /\ TLSInfo \in Registered /\ HTTPFetch # TLSInfo
BY RegistrationAssumption, RegistryCoherent DEF Probes

\* EngineInit establishes the invariant.
LEMMA EngineInitInv == EngineInit => EngineInv
BY ProbesRegistered, FlapsAssumption
   DEF EngineInit, EngineInv, EngineTypeOK, ProbeStored, InputsAvailable,
       NoSpuriousSkip, Schemes, Reachability, FetchResult, TLSResult

\* Every step of the engine preserves it.
LEMMA EngineNextInv == EngineInv /\ [EngineNext]_engineVars => EngineInv'
<1> SUFFICES ASSUME EngineInv, [EngineNext]_engineVars
             PROVE  EngineInv'
  OBVIOUS
<1> USE ProbesRegistered
<1>1. ASSUME NEW c \in Registered, Start(c)
      PROVE  EngineInv'
  <2>1. /\ UNCHANGED <<scheme, net, flaps, fetched, tlsInfo, answered,
                       observed, errored>>
        /\ status[c] = "pending"
        /\ \A d \in DependsOn(c) : Finished(d)
        /\ status' = [status EXCEPT ![c] = IF Skips(c) THEN "skipped"
                                                       ELSE "running"]
    BY <1>1 DEF Start, envVars, storeVars
  <2>2. EngineTypeOK'
    BY <2>1 DEF EngineInv, EngineTypeOK
  <2>3. ProbeStored'
    BY <2>1, ProbesAreNotSkipped DEF EngineInv, EngineTypeOK, ProbeStored, Probes
  <2>4. \A d \in Registered \ {c} : status'[d] = status[d]
    BY <2>1 DEF EngineInv, EngineTypeOK
  <2>5. status'[c] = IF Skips(c) THEN "skipped" ELSE "running"
    BY <2>1 DEF EngineInv, EngineTypeOK
  <2>6. InputsAvailable'
    <3>1. ~Skips(c) => /\ c \in RunReadsFetch => fetched \in Usable
                       /\ c \in RunReadsTLSInfo => tlsInfo \in Handshaken
      BY RegistryCoherent
         DEF Skips, SkipUnlessFetched, SkipUnlessHandshake
    <3>2. QED
      BY <2>1, <2>4, <2>5, <3>1 DEF EngineInv, InputsAvailable
  <2>7. NoSpuriousSkip'
    <3>1. /\ HTTPFetch \in DependsOn(c) => fetched # "none"
          /\ TLSInfo \in DependsOn(c) => tlsInfo # "none"
      BY <2>1 DEF EngineInv, ProbeStored, Finished
    <3>2. Skips(c) =>
            /\ c \in SkipUnlessFetchedChecks => fetched = "failed"
            /\ c \in SkipUnlessNginxChecks => fetched \in {"failed", "other"}
            /\ c \in SkipUnlessHandshakeChecks => tlsInfo = "failed"
      BY <3>1, SkipRuleHasDependency, RegistryCoherent
         DEF Usable, Handshaken, Skips, SkipUnlessFetched, SkipUnlessNginx, SkipUnlessHandshake,
             EngineInv, EngineTypeOK, FetchResult, TLSResult
    <3>3. QED
      BY <2>1, <2>4, <2>5, <3>2 DEF EngineInv, NoSpuriousSkip
  <2>8. QED
    BY <2>2, <2>3, <2>6, <2>7 DEF EngineInv
<1>2. CASE status[HTTPFetch] = "running" /\ RunHTTPFetch
  <2>1. /\ UNCHANGED <<scheme, net, flaps, tlsInfo, observed, errored>>
        /\ status' = [status EXCEPT ![HTTPFetch] = "done"]
        /\ fetched' \in FetchResult \ {"none"}
        /\ answered' \subseteq Registered
    BY <1>2 DEF RunHTTPFetch, envVars, EngineInv, EngineTypeOK, FetchResult,
                Usable
  <2>2. EngineTypeOK'
    BY <2>1 DEF EngineInv, EngineTypeOK
  <2>3. fetched = "none"
    BY <1>2 DEF EngineInv, ProbeStored
  <2>4. ProbeStored'
    BY <2>1, <2>2 DEF EngineInv, EngineTypeOK, ProbeStored
  <2>5. /\ \A d \in Registered \ {HTTPFetch} : status'[d] = status[d]
        /\ status'[HTTPFetch] = "done"
    BY <2>1 DEF EngineInv, EngineTypeOK
  <2>6. HTTPFetch \notin RunReadsFetch /\ HTTPFetch \notin RunReadsTLSInfo
    BY RegistryCoherent DEF Probes
  <2>7. InputsAvailable'
    BY <2>1, <2>3, <2>5, <2>6 DEF EngineInv, InputsAvailable, Usable
  <2>8. NoSpuriousSkip'
    BY <2>1, <2>3, <2>5 DEF EngineInv, NoSpuriousSkip
  <2>9. QED
    BY <2>2, <2>4, <2>7, <2>8 DEF EngineInv
<1>3. CASE status[TLSInfo] = "running" /\ RunTLSInfo
  <2>1. /\ UNCHANGED <<scheme, net, flaps, fetched, observed, errored>>
        /\ status' = [status EXCEPT ![TLSInfo] = "done"]
        /\ tlsInfo' \in TLSResult \ {"none"}
        /\ answered' \subseteq Registered
    BY <1>3 DEF RunTLSInfo, VerifyCertificate, envVars, EngineInv, EngineTypeOK, TLSResult,
                Handshaken
  <2>2. EngineTypeOK'
    BY <2>1 DEF EngineInv, EngineTypeOK
  <2>3. tlsInfo = "none"
    BY <1>3 DEF EngineInv, ProbeStored
  <2>4. ProbeStored'
    BY <2>1, <2>2 DEF EngineInv, EngineTypeOK, ProbeStored
  <2>5. /\ \A d \in Registered \ {TLSInfo} : status'[d] = status[d]
        /\ status'[TLSInfo] = "done"
    BY <2>1 DEF EngineInv, EngineTypeOK
  <2>6. TLSInfo \notin RunReadsFetch /\ TLSInfo \notin RunReadsTLSInfo
    BY RegistryCoherent DEF Probes
  <2>7. InputsAvailable'
    BY <2>1, <2>3, <2>5, <2>6 DEF EngineInv, InputsAvailable, Handshaken
  <2>8. NoSpuriousSkip'
    BY <2>1, <2>3, <2>5 DEF EngineInv, NoSpuriousSkip
  <2>9. QED
    BY <2>2, <2>4, <2>7, <2>8 DEF EngineInv
<1>4. ASSUME NEW c \in Registered \ Probes,
             \/ RunStoreOnly(c)
             \/ RunTLSDialer(c)
             \/ RunHTTPCheck(c)
      PROVE  EngineInv'
  <2>1. /\ UNCHANGED <<scheme, net, flaps, fetched, tlsInfo>>
        /\ status[c] = "running"
        /\ status' = [status EXCEPT ![c] = "done"]
        /\ answered' \subseteq Registered
        /\ observed' \subseteq Registered
        /\ errored' \subseteq Registered
    BY <1>4 DEF RunStoreOnly, RunTLSDialer, RunHTTPCheck, envVars, EngineInv,
                EngineTypeOK
  <2>2. EngineTypeOK'
    BY <2>1 DEF EngineInv, EngineTypeOK
  <2>3. /\ \A d \in Registered \ {c} : status'[d] = status[d]
        /\ status'[c] = "done"
    BY <2>1 DEF EngineInv, EngineTypeOK
  <2>4. ProbeStored'
    BY <2>1, <2>3 DEF EngineInv, ProbeStored, Probes
  <2>5. InputsAvailable'
    BY <2>1, <2>3 DEF EngineInv, InputsAvailable
  <2>6. NoSpuriousSkip'
    BY <2>1, <2>3 DEF EngineInv, NoSpuriousSkip
  <2>7. QED
    BY <2>2, <2>4, <2>5, <2>6 DEF EngineInv
<1>5. ASSUME NEW c \in Registered, Answer(c)
      PROVE  EngineInv'
  <2>1. /\ UNCHANGED <<scheme, net, flaps, status, fetched, tlsInfo,
                       observed, errored>>
        /\ answered' \subseteq Registered
    BY <1>5 DEF Answer, envVars, storeVars, EngineInv, EngineTypeOK
  <2>2. QED
    BY <2>1 DEF EngineInv, EngineTypeOK, ProbeStored, InputsAvailable,
                NoSpuriousSkip
<1>6. CASE Flap
  <2>1. /\ UNCHANGED <<scheme, status, answered, fetched, tlsInfo, observed,
                       errored>>
        /\ net' \in Reachability
        /\ flaps' \in 0..MaxFlaps
    BY <1>6, FlapsAssumption DEF Flap, storeVars, EngineInv, EngineTypeOK
  <2>2. QED
    BY <2>1 DEF EngineInv, EngineTypeOK, ProbeStored, InputsAvailable,
                NoSpuriousSkip
<1>7. CASE UNCHANGED engineVars
  BY <1>7 DEF engineVars, EngineInv, EngineTypeOK, ProbeStored,
              InputsAvailable, NoSpuriousSkip
<1>8. ASSUME NEW c \in Registered, RunCheck(c)
      PROVE  EngineInv'
  <2>1. CASE c = HTTPFetch /\ RunHTTPFetch
    BY <2>1, <1>2 DEF RunHTTPFetch
  <2>2. CASE c = TLSInfo /\ RunTLSInfo
    BY <2>2, <1>3 DEF RunTLSInfo
  <2>3. CASE RunStoreOnly(c)
    BY <2>3, <1>4, RegistryCoherent DEF RunStoreOnly
  <2>4. CASE RunTLSDialer(c)
    BY <2>4, <1>4 DEF RunTLSDialer
  <2>5. CASE RunHTTPCheck(c)
    BY <2>5, <1>4 DEF RunHTTPCheck
  <2>6. QED
    BY <1>8, <2>1, <2>2, <2>3, <2>4, <2>5 DEF RunCheck
<1>9. QED
  BY <1>1, <1>5, <1>6, <1>7, <1>8 DEF EngineNext, EngineStep

\* The invariant holds in every reachable state.
THEOREM EngineInvariant == EngineSpec => []EngineInv
BY EngineInitInv, EngineNextInv, PTL DEF EngineSpec

\* Type correctness of the scan, for any registered checks.
THEOREM EngineTypeCorrect == EngineSpec => []EngineTypeOK
<1>1. EngineInv => EngineTypeOK
  BY DEF EngineInv
<1>2. QED
  BY <1>1, EngineInvariant, PTL

\* No check runs without the probe data its Run reads: ErrFetchUnavailable
\* and errNoCertificate are unreachable, whatever checks are registered and
\* however the engine interleaves them.
THEOREM InputsAlwaysAvailable == EngineSpec => []InputsAvailable
<1>1. EngineInv => InputsAvailable
  BY DEF EngineInv
<1>2. QED
  BY <1>1, EngineInvariant, PTL

\* No check is skipped because it was scheduled before its probe had stored
\* anything: a skip always reports a probe that ran and said no.
THEOREM SkipsAreJustified == EngineSpec => []NoSpuriousSkip
<1>1. EngineInv => NoSpuriousSkip
  BY DEF EngineInv
<1>2. QED
  BY <1>1, EngineInvariant, PTL
----------------------------------------------------------------------------
\* certificate, once done with an unverified chain in the store, has said so.
ChainReported ==
  ( /\ "certificate" \in Registered
    /\ status["certificate"] = "done" /\ tlsInfo = "unverified" )
    => "certificate" \in observed

LEMMA ChainReportedInit == EngineInit => ChainReported
BY DEF EngineInit, ChainReported

\* Where certificate stands in the registry.
LEMMA CertificateEntry ==
  /\ "certificate" \in StoreOnly
  /\ "certificate" \in RunReadsTLSInfo
  /\ "certificate" \in SkipUnlessHandshakeChecks
  /\ "certificate" \notin RunReadsFetch
  /\ "certificate" \notin TLSDialers
  /\ "certificate" \notin HTTPSenders
  /\ HTTPFetch # "certificate" /\ TLSInfo # "certificate"
BY DEF HTTPFetch, TLSInfo, RunReadsFetch, RunReadsTLSInfo, HeaderChecks,
       SkipUnlessHandshakeChecks, StoreOnly, TLSDialers, HTTPSenders

\* A step preserves it: what certificate judged does not change afterwards,
\* and certificate alone writes its own result.
LEMMA ChainReportedNext ==
  EngineInv /\ ChainReported /\ [EngineNext]_engineVars => ChainReported'
<1> SUFFICES ASSUME EngineInv, ChainReported, [EngineNext]_engineVars,
                    "certificate" \in Registered,
                    status'["certificate"] = "done",
                    tlsInfo' = "unverified"
             PROVE  "certificate" \in observed'
  BY DEF ChainReported
<1> USE CertificateEntry, ProbesRegistered
<1>0. /\ status \in [Registered -> {"pending", "running", "skipped", "done"}]
      /\ status["certificate"] = "done" => tlsInfo # "none"
  BY DEF EngineInv, EngineTypeOK, InputsAvailable, Handshaken
<1>1. ASSUME NEW c \in Registered, Start(c)
      PROVE  "certificate" \in observed'
  <2>1. /\ tlsInfo' = tlsInfo /\ observed' = observed
        /\ status' = [status EXCEPT ![c] = IF Skips(c) THEN "skipped"
                                                       ELSE "running"]
    BY <1>1 DEF Start, storeVars
  <2>2. status["certificate"] = "done"
    BY <1>0, <2>1
  <2>3. QED
    BY <2>1, <2>2 DEF ChainReported
<1>2. CASE RunHTTPFetch
  <2>1. /\ tlsInfo' = tlsInfo /\ observed' = observed
        /\ status' = [status EXCEPT ![HTTPFetch] = "done"]
    BY <1>2 DEF RunHTTPFetch
  <2>2. status["certificate"] = "done"
    BY <1>0, <2>1
  <2>3. QED
    BY <2>1, <2>2 DEF ChainReported
<1>3. CASE RunTLSInfo
  <2>1. /\ status[TLSInfo] = "running"
        /\ status' = [status EXCEPT ![TLSInfo] = "done"]
    BY <1>3 DEF RunTLSInfo
  <2>2. tlsInfo = "none"
    BY <2>1 DEF EngineInv, ProbeStored
  <2>3. QED
    BY <1>0, <2>1, <2>2
<1>4. ASSUME NEW c \in Registered, RunStoreOnly(c)
      PROVE  "certificate" \in observed'
  <2>1. /\ tlsInfo' = tlsInfo
        /\ status[c] = "running"
        /\ status' = [status EXCEPT ![c] = "done"]
        /\ observed \subseteq observed'
    BY <1>4 DEF RunStoreOnly
  <2>2. CASE c = "certificate"
    <3>1. tlsInfo \in Handshaken
      BY <2>1, <2>2 DEF EngineInv, InputsAvailable
    <3>2. ~(\/ c \in RunReadsFetch /\ fetched \notin Usable
            \/ c \in RunReadsTLSInfo /\ tlsInfo \notin Handshaken)
      BY <2>2, <3>1
    <3>3. \/ observed' = observed \cup {c}
          \/ ~(c = "certificate" /\ tlsInfo = "unverified")
      BY <1>4, <3>2 DEF RunStoreOnly
    <3>4. QED
      BY <2>1, <2>2, <3>3
  <2>3. CASE c # "certificate"
    <3>1. status["certificate"] = "done"
      BY <1>0, <2>1, <2>3
    <3>2. QED
      BY <2>1, <3>1 DEF ChainReported
  <2>4. QED
    BY <2>2, <2>3
<1>5. ASSUME NEW c \in Registered, RunTLSDialer(c) \/ RunHTTPCheck(c)
      PROVE  "certificate" \in observed'
  <2>1. /\ tlsInfo' = tlsInfo
        /\ status' = [status EXCEPT ![c] = "done"]
        /\ observed \subseteq observed'
        /\ c # "certificate"
    BY <1>5 DEF RunTLSDialer, RunHTTPCheck
  <2>2. status["certificate"] = "done"
    BY <1>0, <2>1
  <2>3. QED
    BY <2>1, <2>2 DEF ChainReported
<1>6. ASSUME \/ \E c \in Registered : Answer(c)
             \/ Flap
             \/ UNCHANGED engineVars
      PROVE  "certificate" \in observed'
  <2>1. UNCHANGED <<status, tlsInfo, observed>>
    BY <1>6 DEF Answer, Flap, engineVars, storeVars
  <2>2. QED
    BY <2>1 DEF ChainReported
<1>7. QED
  BY <1>1, <1>2, <1>3, <1>4, <1>5, <1>6 DEF EngineNext, EngineStep, RunCheck

\* certificate cannot have been skipped if the handshake got through.
LEMMA ChainGivesReport == EngineInv /\ ChainReported => BadChainIsReported
<1> SUFFICES ASSUME EngineInv, ChainReported, AllFinished,
                    tlsInfo = "unverified", "certificate" \in Registered
             PROVE  "certificate" \in observed
  BY DEF BadChainIsReported
<1>1. status["certificate"] \in {"skipped", "done"}
  BY DEF AllFinished, Finished
<1>2. status["certificate"] # "skipped"
  BY CertificateEntry DEF EngineInv, NoSpuriousSkip
<1>3. QED
  BY <1>1, <1>2 DEF ChainReported

\* An untrusted chain is reported in every finished scan whose handshake got
\* through, for any registered checks.
THEOREM BadChainIsAlwaysReported == EngineSpec => []BadChainIsReported
<1>2. EngineSpec => []ChainReported
  BY EngineInvariant, ChainReportedInit, ChainReportedNext, PTL DEF EngineSpec
<1>3. QED
  BY ChainGivesReport, <1>2, EngineInvariant, PTL

\* A check that only reads the store never returns an error: what it would
\* return one for, missing data, does not occur.
StoreReadersNeverFail == errored \cap StoreOnly = {}

LEMMA StoreReadersNext ==
  EngineInv /\ StoreReadersNeverFail /\ [EngineNext]_engineVars
    => StoreReadersNeverFail'
<1> SUFFICES ASSUME EngineInv, StoreReadersNeverFail, [EngineNext]_engineVars
             PROVE  StoreReadersNeverFail'
  OBVIOUS
<1>1. ASSUME NEW c \in Registered, RunStoreOnly(c)
      PROVE  errored' = errored
  <2>1. ~(\/ c \in RunReadsFetch /\ fetched \notin Usable
          \/ c \in RunReadsTLSInfo /\ tlsInfo \notin Handshaken)
    BY <1>1 DEF EngineInv, InputsAvailable, RunStoreOnly
  <2>. QED
    BY <1>1, <2>1 DEF RunStoreOnly
<1>2. ASSUME NEW c \in Registered, RunHTTPCheck(c)
      PROVE  errored' \subseteq errored \cup {c} /\ c \notin StoreOnly
  BY <1>2 DEF RunHTTPCheck, HTTPSenders
<1>3. \/ errored' = errored
      \/ \E c \in Registered : RunHTTPCheck(c)
  BY <1>1
  DEF EngineNext, EngineStep, RunCheck, Start, RunHTTPFetch, RunTLSInfo,
      RunTLSDialer, Answer, Flap, storeVars, engineVars
<1>. QED
  BY <1>2, <1>3 DEF StoreReadersNeverFail

\* ErrFetchUnavailable and errNoCertificate appear in no Result of any scan.
THEOREM StoreReadersSucceed == EngineSpec => []StoreReadersNeverFail
<1>1. EngineInit => StoreReadersNeverFail
  BY DEF EngineInit, StoreReadersNeverFail
<1>. QED
  BY <1>1, EngineInvariant, StoreReadersNext, PTL DEF EngineSpec

----------------------------------------------------------------------------
(***************************************************************************)
(* What the engine has decided or stored stands until the report is made.  *)
(***************************************************************************)

\* The data of a probe, and the result of a check that has finished, are
\* never changed.
StoredStands ==
  /\ fetched # "none" => fetched' = fetched
  /\ tlsInfo # "none" => tlsInfo' = tlsInfo
  /\ \A c \in Registered : Finished(c) =>
       /\ status'[c] = status[c]
       /\ c \in observed' <=> c \in observed
       /\ c \in errored' <=> c \in errored

\* A step touches the result of one running check at most, and a probe's data
\* only while that probe runs.
LEMMA StoredStandsNext == EngineInv /\ [EngineNext]_engineVars => StoredStands
<1> SUFFICES ASSUME EngineInv, [EngineNext]_engineVars PROVE StoredStands
  OBVIOUS
<1> USE ProbesRegistered
<1>0. status \in [Registered -> {"pending", "running", "skipped", "done"}]
  BY DEF EngineInv, EngineTypeOK
<1>1. ASSUME NEW c \in Registered, Start(c)
      PROVE  StoredStands
  BY <1>0, <1>1 DEF Start, storeVars, StoredStands, Finished
<1>2. CASE RunHTTPFetch
  <2>1. fetched = "none"
    BY <1>2 DEF RunHTTPFetch, EngineInv, ProbeStored
  <2>. QED
    BY <1>0, <1>2, <2>1 DEF RunHTTPFetch, StoredStands, Finished
<1>3. CASE RunTLSInfo
  <2>1. tlsInfo = "none"
    BY <1>3 DEF RunTLSInfo, EngineInv, ProbeStored
  <2>. QED
    BY <1>0, <1>3, <2>1 DEF RunTLSInfo, StoredStands, Finished
<1>4. ASSUME NEW c \in Registered,
             RunStoreOnly(c) \/ RunTLSDialer(c) \/ RunHTTPCheck(c)
      PROVE  StoredStands
  <2>1. /\ UNCHANGED <<fetched, tlsInfo>> /\ status[c] = "running"
        /\ status' = [status EXCEPT ![c] = "done"]
        /\ observed' \in {observed, observed \cup {c}}
        /\ errored' \in {errored, errored \cup {c}}
    BY <1>4 DEF RunStoreOnly, RunTLSDialer, RunHTTPCheck
  <2>. QED
    BY <1>0, <2>1 DEF StoredStands, Finished
<1>5. CASE (\E c \in Registered : Answer(c)) \/ Flap \/ UNCHANGED engineVars
  BY <1>5 DEF Answer, Flap, engineVars, storeVars, StoredStands
<1>. QED
  BY <1>1, <1>2, <1>3, <1>4, <1>5 DEF EngineNext, EngineStep, RunCheck

\* Results are final, however the checks interleave and whatever the target
\* does: what a later check, the report and sharedFetchErr read off the store
\* is what the probe or the check left there.
THEOREM ResultsAreFinal == EngineSpec => [][StoredStands]_engineVars
  BY EngineInvariant, StoredStandsNext, PTL DEF EngineSpec

\* The skip rule of a check that ran or was skipped says the same now as when
\* it was evaluated.
SkipDecisionStands ==
  \A c \in Registered :
    /\ status[c] \in {"running", "done"} => ~Skips(c)
    /\ status[c] = "skipped" => Skips(c)

\* A probe whose data a skip rule reads has finished before the rule is
\* evaluated.
StartedAfterProbes ==
  \A c \in Registered : status[c] # "pending" =>
    /\ c \in SkipUnlessFetchedChecks \cup SkipUnlessNginxChecks
         => fetched # "none"
    /\ c \in SkipUnlessHandshakeChecks => tlsInfo # "none"

LEMMA SkipDecisionNext ==
  EngineInv /\ StartedAfterProbes /\ SkipDecisionStands
    /\ [EngineNext]_engineVars
    => StartedAfterProbes' /\ SkipDecisionStands'
<1> SUFFICES ASSUME EngineInv, StartedAfterProbes, SkipDecisionStands,
                    [EngineNext]_engineVars
             PROVE  StartedAfterProbes' /\ SkipDecisionStands'
  OBVIOUS
<1> USE ProbesRegistered
<1>0. /\ status \in [Registered -> {"pending", "running", "skipped", "done"}]
      /\ StoredStands
  BY StoredStandsNext DEF EngineInv, EngineTypeOK
<1>1. ASSUME NEW c \in Registered, Start(c)
      PROVE  StartedAfterProbes' /\ SkipDecisionStands'
  <2>1. /\ UNCHANGED <<fetched, tlsInfo>>
        /\ status' = [status EXCEPT ![c] = IF Skips(c) THEN "skipped"
                                                       ELSE "running"]
        /\ \A d \in DependsOn(c) : Finished(d)
    BY <1>1 DEF Start, storeVars
  <2>2. /\ HTTPFetch \in DependsOn(c) => fetched # "none"
        /\ TLSInfo \in DependsOn(c) => tlsInfo # "none"
    BY <2>1 DEF EngineInv, ProbeStored, Finished
  <2>3. StartedAfterProbes'
    BY <1>0, <2>1, <2>2, SkipRuleHasDependency DEF StartedAfterProbes
  <2>4. \A d \in Registered : Skips(d)' <=> Skips(d)
    BY <2>1
    DEF Skips, SkipUnlessFetched, SkipUnlessNginx, SkipUnlessHandshake
  <2>5. SkipDecisionStands'
    BY <1>0, <2>1, <2>4 DEF SkipDecisionStands
  <2>. QED
    BY <2>3, <2>5
<1>2. ASSUME NEW c \in Registered, RunCheck(c)
      PROVE  StartedAfterProbes' /\ SkipDecisionStands'
  <2>1. /\ status[c] = "running"
        /\ status' = [status EXCEPT ![c] = "done"]
    BY <1>2
    DEF RunCheck, RunHTTPFetch, RunTLSInfo, RunStoreOnly, RunTLSDialer,
        RunHTTPCheck
  <2>2. StartedAfterProbes'
    BY <1>0, <2>1 DEF StartedAfterProbes, StoredStands
  <2>3. \A d \in Registered : status[d] # "pending" => (Skips(d)' <=> Skips(d))
    BY <1>0
    DEF StartedAfterProbes, StoredStands, Skips, SkipUnlessFetched,
        SkipUnlessNginx, SkipUnlessHandshake
  <2>4. SkipDecisionStands'
    BY <1>0, <2>1, <2>3 DEF SkipDecisionStands
  <2>. QED
    BY <2>2, <2>4
<1>3. CASE (\E c \in Registered : Answer(c)) \/ Flap \/ UNCHANGED engineVars
  <2>1. UNCHANGED <<status, fetched, tlsInfo>>
    BY <1>3 DEF Answer, Flap, engineVars, storeVars
  <2>. QED
    BY <2>1
    DEF StartedAfterProbes, SkipDecisionStands, Skips, SkipUnlessFetched,
        SkipUnlessNginx, SkipUnlessHandshake
<1>. QED
  BY <1>1, <1>2, <1>3 DEF EngineNext, EngineStep

\* A skip decision, taken once, is the one the final store would give: the
\* report never shows a check as skipped beside a probe that succeeded, nor
\* one that ran beside a probe that failed.
THEOREM SkipDecisionsStand == EngineSpec => []SkipDecisionStands
<1>1. EngineInit => StartedAfterProbes /\ SkipDecisionStands
  BY DEF EngineInit, StartedAfterProbes, SkipDecisionStands
<1>. QED
  BY <1>1, EngineInvariant, SkipDecisionNext, PTL DEF EngineSpec

----------------------------------------------------------------------------
\* A check is running, or waits for nothing any more.
MayGoOn(c) == \/ status[c] = "running"
              \/ status[c] = "pending" /\ \A d \in DependsOn(c) : Finished(d)

\* The probes wait for no check.
LEMMA ProbesWaitForNothing == \A p \in Probes : DependsOn(p) = {}
BY RegistryCoherent DEF DependsOn

\* The checks never all wait for each other: until all have finished there is
\* one that is running or may be started, whichever checks are registered.
\* (That it then does return is EngineFinishes, which the run checks.)
THEOREM NobodyWaitsInVain ==
  EngineSpec => [](AllFinished \/ \E c \in Registered : MayGoOn(c))
<1>1. EngineTypeOK => AllFinished \/ \E c \in Registered : MayGoOn(c)
  <2> SUFFICES ASSUME EngineTypeOK, NEW c \in Registered, ~Finished(c)
               PROVE  \E d \in Registered : MayGoOn(d)
    BY DEF AllFinished
  <2>0. \A d \in Registered :
          Finished(d) \/ status[d] = "pending" \/ status[d] = "running"
    BY DEF EngineTypeOK, Finished
  <2>1. CASE \A p \in Probes : Finished(p)
    <3>1. \A d \in DependsOn(c) : Finished(d)
      BY <2>1 DEF DependsOn
    <3>. QED
      BY <2>0, <3>1 DEF MayGoOn
  <2>2. ASSUME NEW p \in Probes, ~Finished(p)
        PROVE  \E d \in Registered : MayGoOn(d)
    BY <2>0, <2>2, ProbesWaitForNothing, RegistrationAssumption DEF MayGoOn
  <2>. QED
    BY <2>1, <2>2
<1>. QED
  BY <1>1, EngineTypeCorrect, PTL

----------------------------------------------------------------------------
(***************************************************************************)
(* The command: the exit code is the promised function of what the run     *)
(* learned, and the process never exits before telemetry and the report    *)
(* sinks are closed.                                                       *)
(***************************************************************************)

Before == {"parse", "preRun", "lookup", "sinks", "flags"}
After == {"deferred", "postRun", "succeeded", "failed"}

\* The scan completed and has nothing to report.
Clean == /\ AllFinished
         /\ fetched \in Usable
         /\ observed \subseteq errored
         /\ "certificate" \in Registered => tlsInfo # "unverified"
         /\ ~reportFailed /\ ~found

\* What the error RunE returned says about the run.
RetMatches ==
  /\ ret = "nil" => Clean
  /\ ret = "usage" => fetched = "none" /\ ~reportFailed /\ ~found
  /\ ret = "findings" => found /\ ~reportFailed /\ fetched # "failed"
  /\ ret = "reporting" => reportFailed
  /\ ret = "connecting" => fetched = "failed"

\* What each stage knows.
StageInv ==
  /\ pc \in Before => fetched = "none"
  /\ pc \in Before \cup {"scanning"} => ret = "nil" /\ ~reportFailed /\ ~found
  /\ pc = "classify" =>
       /\ ret = "nil"
       /\ AllFinished
       /\ observed \ errored # {} => found
  /\ pc \in After => RetMatches
  /\ pc \in {"postRun", "succeeded"} => ret = "nil"
  /\ pc = "failed" => ret # "nil"
  /\ pc = "exited" /\ code = 0 => Clean

\* otelShutdown and how often it was called.
TelemetryInv ==
  /\ pc \in {"parse", "preRun"} => telemetry = "off"
  /\ shutdowns = IF telemetry = "shut" THEN 1 ELSE 0
  /\ pc = "exited" => telemetry # "live"

SinksInv ==
  /\ pc \in {"parse", "preRun", "lookup", "sinks"} => sinks = "none"
  /\ pc \in {"failed", "postRun", "succeeded", "exited"} => sinks # "open"

CommandInv ==
  /\ CommandTypeOK
  /\ EngineInv /\ ChainReported /\ StoreReadersNeverFail
  /\ StageInv /\ TelemetryInv /\ SinksInv

LEMMA CommandInitInv == Init => CommandInv
<1> SUFFICES ASSUME Init
             PROVE  CommandInv
  OBVIOUS
<1>1. EngineInv /\ EngineTypeOK /\ ChainReported /\ StoreReadersNeverFail
  BY EngineInitInv, ChainReportedInit
  DEF Init, EngineInv, EngineInit, StoreReadersNeverFail
<1>2. fetched = "none"
  BY DEF Init, EngineInit
<1>3. CommandTypeOK
  <2>1. reportFailed \in BOOLEAN /\ found \in BOOLEAN
    BY DEF Init
  <2>2. shutdowns \in Nat /\ code \in 0..2
    BY DEF Init
  <2>3. /\ pc \in Stages /\ ret \in Errors
        /\ telemetry \in {"off", "live", "shut"}
        /\ sinks \in {"none", "open", "closed"}
    BY DEF Init, Stages, Errors
  <2>4. QED
    BY <1>1, <2>1, <2>2, <2>3 DEF CommandTypeOK
<1>4. StageInv
  BY <1>2 DEF Init, StageInv, Before, After
<1>5. TelemetryInv /\ SinksInv
  BY DEF Init, TelemetryInv, SinksInv
<1>6. QED
  BY <1>1, <1>3, <1>4, <1>5 DEF CommandInv

\* Every step of the command is a step of the engine, or leaves it alone.
LEMMA CommandStepIsEngineStep == [Next]_vars => [EngineNext]_engineVars
BY DEF Next, vars, CommandStep, Scan, ScanStart, ScanRun, ScanAnswer,
       EngineFails, Interrupt, TargetChanges, ParseCommandLine,
       PersistentPreRun, LookupEngine, OpenSinks, ReadReportFlags,
       EngineReturns, Classify, RunDeferred, PersistentPostRun,
       ExecuteSucceeds, ExecuteFails, EngineNext, EngineStep

\* The store as it stands when every check has finished.
LEMMA FinishedStore ==
  ASSUME EngineInv, AllFinished, fetched # "failed"
  PROVE  fetched \in Usable
BY ProbesRegistered
   DEF EngineInv, EngineTypeOK, ProbeStored, AllFinished, Finished,
       FetchResult

\* A chain that is not trusted is among the observations, and not beside an
\* error.
LEMMA FinishedChain ==
  ASSUME EngineInv, ChainReported, StoreReadersNeverFail, AllFinished,
         observed \subseteq errored, "certificate" \in Registered
  PROVE  tlsInfo # "unverified"
BY ChainGivesReport, CertificateEntry
DEF BadChainIsReported, StoreReadersNeverFail

LEMMA CommandNextInv == CommandInv /\ [Next]_vars => CommandInv'
<1> SUFFICES ASSUME CommandInv, [Next]_vars
             PROVE  CommandInv'
  OBVIOUS
<1>e. EngineInv' /\ ChainReported' /\ StoreReadersNeverFail'
  BY CommandStepIsEngineStep, EngineNextInv, ChainReportedNext,
     StoreReadersNext
  DEF CommandInv
<1>t. EngineTypeOK'
  BY <1>e DEF EngineInv
<1> USE DEF CommandInv, CommandTypeOK, StageInv, TelemetryInv, SinksInv,
            Before, After, Stages, Errors, RuntimeErrors
<1>1. CASE ParseCommandLine
  BY <1>1, <1>e, <1>t DEF ParseCommandLine, Return, engineVars, RetMatches
<1>2. CASE PersistentPreRun
  BY <1>2, <1>e, <1>t DEF PersistentPreRun, engineVars
<1>3. CASE LookupEngine
  BY <1>3, <1>e, <1>t DEF LookupEngine, Return, engineVars, RetMatches
<1>4. CASE OpenSinks
  BY <1>4, <1>e, <1>t DEF OpenSinks, Return, engineVars, RetMatches
<1>5. CASE ReadReportFlags
  BY <1>5, <1>e, <1>t DEF ReadReportFlags, Return, engineVars, RetMatches
<1>6. CASE EngineReturns
  BY <1>6, <1>e, <1>t DEF EngineReturns, engineVars, AllFinished, Finished
<1>7. CASE Classify
  <2>1. ~reportFailed /\ fetched # "failed" /\ ~found => Clean
    BY <1>7, FinishedStore, FinishedChain DEF Classify, Clean
  <2>2. RetMatches'
    BY <1>7, <2>1 DEF Classify, Return, SharedFetchErr, RetMatches, Clean,
                      AllFinished, Finished, engineVars
  <2>3. QED
    BY <1>7, <1>e, <1>t, <2>2 DEF Classify, Return, engineVars
<1>8. CASE RunDeferred
  <2>1. RetMatches'
    BY <1>8 DEF RunDeferred, RetMatches, Clean, AllFinished, Finished,
                engineVars
  <2>2. QED
    BY <1>8, <1>e, <1>t, <2>1 DEF RunDeferred, engineVars
<1>9. CASE PersistentPostRun
  <2>1. RetMatches'
    BY <1>9 DEF PersistentPostRun, RetMatches, Clean, AllFinished, Finished,
                engineVars
  <2>2. QED
    BY <1>9, <1>e, <1>t, <2>1 DEF PersistentPostRun, ShutdownTelemetry,
                                  engineVars
<1>10. CASE ExecuteSucceeds
  <2>1. Clean'
    BY <1>10 DEF ExecuteSucceeds, RetMatches, Clean, AllFinished, Finished,
                 engineVars
  <2>2. QED
    BY <1>10, <1>e, <1>t, <2>1 DEF ExecuteSucceeds, ShutdownTelemetry,
                                   engineVars
<1>11. CASE ExecuteFails
  BY <1>11, <1>e, <1>t DEF ExecuteFails, ErrorCode, ShutdownTelemetry, engineVars
<1>12. CASE Scan
  <2>1. pc = "scanning" /\ UNCHANGED <<pc, commandVars>>
    BY <1>12 DEF Scan, ScanStart, ScanRun, ScanAnswer
  <2>2. QED
    BY <2>1, <1>e, <1>t DEF commandVars
<1>13. CASE EngineFails
  BY <1>13, <1>e, <1>t DEF EngineFails, Return, engineVars, RetMatches
<1>14. CASE Interrupt
  BY <1>14, <1>e, <1>t DEF Interrupt, engineVars, commandVars
<1>15. CASE TargetChanges
  <2>1. /\ UNCHANGED <<pc, commandVars, status, fetched, tlsInfo, observed,
                       errored>>
        /\ AllFinished' <=> AllFinished
    BY <1>15 DEF TargetChanges, Flap, storeVars, AllFinished, Finished
  <2>2. QED
    BY <2>1, <1>e, <1>t DEF commandVars, RetMatches, Clean
<1>16. CASE UNCHANGED vars
  BY <1>16, <1>e, <1>t DEF vars, commandVars, engineVars, RetMatches, Clean,
                           AllFinished, Finished
<1>17. QED
  BY <1>1, <1>2, <1>3, <1>4, <1>5, <1>6, <1>7, <1>8, <1>9, <1>10, <1>11,
     <1>12, <1>13, <1>14, <1>15, <1>16 DEF Next, CommandStep

THEOREM CommandInvariant == Spec => []CommandInv
BY CommandInitInv, CommandNextInv, PTL DEF Spec

\* The scan of a command is a run of the engine, stopped where the command
\* stops, and fairness aside: no hook or error path of the command touches
\* the store or a check's result.
THEOREM CommandRunsTheEngine == Spec => EngineInit /\ [][EngineNext]_engineVars
<1>1. Init => EngineInit
  BY DEF Init
<1>. QED
  BY <1>1, CommandStepIsEngineStep, PTL DEF Spec

\* So what was shown of the engine holds of the command, whatever it was doing
\* when it stopped.
THEOREM CommandKeepsTheEnginesWord ==
  Spec => [](InputsAvailable /\ NoSpuriousSkip /\ BadChainIsReported)
<1>1. EngineInv /\ ChainReported
        => InputsAvailable /\ NoSpuriousSkip /\ BadChainIsReported
  BY ChainGivesReport DEF EngineInv
<1>2. CommandInv => EngineInv /\ ChainReported
  BY DEF CommandInv
<1>. QED
  BY <1>1, <1>2, CommandInvariant, PTL

\* The invariant's conjuncts give the properties the runs check.
LEMMA CommandInvGives ==
  CommandInv => /\ CommandTypeOK
                /\ TelemetryShutOnce
                /\ SinksClosedBeforeExit
                /\ CleanExitMeansReached
BY DEF CommandInv, CommandTypeOK, TelemetryInv, SinksInv, StageInv, Clean,
       TelemetryShutOnce, SinksClosedBeforeExit, CleanExitMeansReached

\* Type correctness of the whole command.
THEOREM CommandTypeCorrect == Spec => []CommandTypeOK
BY CommandInvariant, CommandInvGives, PTL

\* Telemetry that was started is shut down once on every exit path.
THEOREM TelemetryIsShutOnce == Spec => []TelemetryShutOnce
BY CommandInvariant, CommandInvGives, PTL

\* The report sinks' cleanup always runs before the process exits.
THEOREM SinksAreClosed == Spec => []SinksClosedBeforeExit
BY CommandInvariant, CommandInvGives, PTL

\* Exit code 0 is only given by a scan that reached the target, finished
\* every check and found nothing.
THEOREM CleanExitIsHonest == Spec => []CleanExitMeansReached
BY CommandInvariant, CommandInvGives, PTL

----------------------------------------------------------------------------
(***************************************************************************)
(* The command implements ExitVerdict.                                     *)
(***************************************************************************)

LEMMA VerdictInit == Init => Verdict!Init
BY DEF Init, EngineInit, Verdict!Init, SharedFetchErr

\* The facts the verdict is made of are learned and never lost.
LEMMA FetchErrorIsKept ==
  ASSUME CommandInv, [Next]_vars, SharedFetchErr
  PROVE  SharedFetchErr'
<1>1. EngineInv /\ [EngineNext]_engineVars
  BY CommandStepIsEngineStep DEF CommandInv
<1>2. ~(status[HTTPFetch] = "running")
  BY <1>1 DEF EngineInv, ProbeStored, SharedFetchErr
<1>3. fetched' = fetched
  BY <1>1, <1>2
     DEF EngineNext, EngineStep, Start, RunCheck, RunHTTPFetch, RunTLSInfo,
         RunStoreOnly, RunTLSDialer, RunHTTPCheck, Answer, Flap, storeVars,
         engineVars
<1>4. QED
  BY <1>3 DEF SharedFetchErr

\* Every step of the command is a step of the abstract verdict, or none.
LEMMA VerdictStep == CommandInv /\ [Next]_vars => [Verdict!Next]_Verdict!vars
<1> SUFFICES ASSUME CommandInv, [Next]_vars
             PROVE  [Verdict!Next]_Verdict!vars
  OBVIOUS
<1>k. SharedFetchErr => SharedFetchErr'
  BY FetchErrorIsKept
<1>b. /\ reportFailed \in BOOLEAN /\ found \in BOOLEAN
      /\ pc \in Stages
  BY DEF CommandInv, CommandTypeOK
<1> DEFINE Working == pc \notin {"exited", "killed"}
<1>1. ASSUME Working, Working', code' = code, found => found',
             found' \in BOOLEAN, reportFailed => reportFailed',
             ret = "usage" => ret' = "usage",
             ret = "scanning" => ret' = "scanning"
      PROVE  Verdict!Learn
  BY <1>1, <1>k DEF Verdict!Learn
<1>2. CASE Working /\ Working' /\ ~Scan /\ ~TargetChanges /\ ~UNCHANGED vars
  <2>1. CASE ParseCommandLine \/ PersistentPreRun \/ LookupEngine \/ OpenSinks
               \/ ReadReportFlags \/ EngineReturns \/ EngineFails \/ Classify
    <3>1. ret = "nil" /\ (found => found') /\ (reportFailed => reportFailed')
      BY <2>1 DEF CommandInv, StageInv, Before, ParseCommandLine,
                  PersistentPreRun, LookupEngine, OpenSinks, ReadReportFlags,
                  EngineReturns, EngineFails, Classify
    <3>2. found' \in BOOLEAN /\ code' = code
      BY <1>b, <2>1 DEF ParseCommandLine, PersistentPreRun, LookupEngine,
                  OpenSinks, ReadReportFlags, EngineReturns, EngineFails,
                  Classify
    <3>3. QED
      BY <1>1, <1>2, <3>1, <3>2 DEF Verdict!Next
  <2>2. CASE RunDeferred \/ PersistentPostRun
    BY <1>1, <1>2, <1>b, <2>2 DEF RunDeferred, PersistentPostRun, Verdict!Next
  <2>3. QED
    BY <1>2, <2>1, <2>2
       DEF Next, CommandStep, ExecuteSucceeds, ExecuteFails, Interrupt
<1>3. CASE Working /\ (Scan \/ TargetChanges)
  <2>1. UNCHANGED <<pc, commandVars>>
    BY <1>3 DEF Scan, ScanStart, ScanRun, ScanAnswer, TargetChanges
  <2>2. Verdict!Learn
    BY <1>1, <1>3, <1>b, <2>1 DEF commandVars
  <2>3. QED
    BY <2>2 DEF Verdict!Next
<1>4. CASE ExecuteSucceeds
  <2>1. ret = "nil" /\ fetched # "failed" /\ ~reportFailed /\ ~found
    BY <1>4 DEF ExecuteSucceeds, CommandInv, StageInv, After, RetMatches,
                Clean, Usable
  <2>2. QED
    BY <1>4, <2>1 DEF ExecuteSucceeds, engineVars, Verdict!Next, Verdict!Exit,
                      Verdict!ExitCode, SharedFetchErr
<1>5. CASE ExecuteFails
  <2>1. ret # "nil" /\ RetMatches /\ ret \in Errors
    BY <1>5 DEF ExecuteFails, CommandInv, CommandTypeOK, StageInv, After
  <2>2. /\ pc = "failed" /\ pc' = "exited"
        /\ UNCHANGED <<fetched, reportFailed, found, ret>>
        /\ code' = IF ret \in RuntimeErrors THEN 2 ELSE 1
    BY <1>5 DEF ExecuteFails, ErrorCode, engineVars
  <2>3. CASE ret \in RuntimeErrors
    BY <2>1, <2>2, <2>3
       DEF RetMatches, RuntimeErrors, Verdict!Next, Verdict!Exit,
           Verdict!ExitCode, SharedFetchErr
  <2>4. CASE ret \in {"usage", "findings"}
    BY <2>1, <2>2, <2>4
       DEF RetMatches, RuntimeErrors, Verdict!Next, Verdict!Exit,
           Verdict!ExitCode, SharedFetchErr
  <2>5. QED
    BY <2>1, <2>3, <2>4 DEF Errors
<1>6. CASE Interrupt
  BY <1>6 DEF Interrupt, engineVars, commandVars, Verdict!Next, Verdict!Kill,
              SharedFetchErr
<1>7. CASE UNCHANGED vars
  BY <1>7 DEF vars, commandVars, engineVars, Verdict!vars, SharedFetchErr
<1>8. CASE ~Working /\ ~UNCHANGED vars
  <2>1. TargetChanges
    BY <1>8, <1>b DEF Next, CommandStep, Scan, ScanStart, ScanRun, ScanAnswer,
       ParseCommandLine, PersistentPreRun, LookupEngine, OpenSinks,
       ReadReportFlags, EngineReturns, EngineFails, Classify, RunDeferred,
       PersistentPostRun, ExecuteSucceeds, ExecuteFails, Interrupt
  <2>2. QED
    BY <2>1 DEF TargetChanges, Flap, storeVars, commandVars, Verdict!vars,
                SharedFetchErr
<1>9. QED
  <2>1. CASE Working /\ ~Working'
    BY <2>1, <1>b, <1>3, <1>4, <1>5, <1>6, <1>7
       DEF Next, CommandStep, ParseCommandLine, PersistentPreRun,
           LookupEngine, OpenSinks, ReadReportFlags, EngineReturns,
           EngineFails, Classify, RunDeferred, PersistentPostRun, Return
  <2>2. QED
    BY <2>1, <1>2, <1>3, <1>7, <1>8

\* On every path through RunE, cobra's hooks and Execute, for every set of
\* registered checks, the exit code is the one the abstract verdict gives.
THEOREM CommandImplementsVerdict == Spec => VerdictSpec
<1>1. Spec => []CommandInv
  BY CommandInvariant
<1>2. QED
  BY <1>1, VerdictInit, VerdictStep, PTL DEF Spec, VerdictSpec, Verdict!Spec
=============================================================================
