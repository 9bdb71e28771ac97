----------------------------- MODULE ScanEngine -----------------------------
(***************************************************************************)
(* One harnessx.Engine.Run over the checks of proxy.AllChecks.             *)
(*                                                                         *)
(* harnessx is a library outside this repository: it starts a check once   *)
(* every check it depends on has finished, evaluates the check's skip rule *)
(* against the ResultStore, and stores the Result.  Nothing in this        *)
(* repository fixes an order or a degree of parallelism beyond depends_on, *)
(* so the model lets any number of ready checks be in progress at once.    *)
(*                                                                         *)
(* The target is the environment: it answers, refuses connections or       *)
(* accepts them and never answers, and may change between those while the  *)
(* scan runs.                                                              *)
(***************************************************************************)
EXTENDS CheckRegistry, Naturals

CONSTANTS
  Registered,  \* the checks handed to harnessx.WithChecks
  MaxFlaps     \* bound on how often the target changes while being scanned

\* A set of checks is registered with the probes its members depend on.
ASSUME RegistrationAssumption ==
  /\ Registered \subseteq AllChecks
  /\ Probes \subseteq Registered

ASSUME FlapsAssumption == MaxFlaps \in Nat

VARIABLES
  scheme,    \* how the target URL is served: see Schemes
  net,       \* how the target answers now: see Reachability
  flaps,     \* how often net has changed
  status,    \* per check: pending, running, skipped or done
  fetched,   \* what probebase.Fetch(store) finds
  tlsInfo,   \* what probebase.Info(store) finds
  answered,  \* checks that got an answer (or a handshake) from the target
  observed,  \* checks whose Result carries Observations
  errored    \* checks whose Result carries Err

envVars == <<scheme, net, flaps>>
storeVars == <<fetched, tlsInfo, observed, errored>>
engineVars == <<scheme, net, flaps, status, fetched, tlsInfo, answered,
                observed, errored>>

\* An https:// target presents a chain the client trusts or one it does not
\* (expired, self-signed, other host); an http:// one is plain.
Schemes == {"trusted", "untrusted", "plain"}

\* up: answers; down: refuses or resets; stalled: accepts, never answers.
Reachability == {"up", "down", "stalled"}

\* FetchResult: absent, Err set, or a response whose Server header contains
\* "nginx" or does not.
Usable == {"nginx", "other"}
FetchResult == {"none", "failed"} \cup Usable

\* TLSInfo: absent, Err set, or a completed handshake whose VerifyErr is nil
\* (verified) or not (unverified).
Handshaken == {"verified", "unverified"}
TLSResult == {"none", "failed"} \cup Handshaken

EngineTypeOK ==
  /\ scheme \in Schemes
  /\ net \in Reachability
  /\ flaps \in 0..MaxFlaps
  /\ status \in [Registered -> {"pending", "running", "skipped", "done"}]
  /\ fetched \in FetchResult
  /\ tlsInfo \in TLSResult
  /\ answered \subseteq Registered
  /\ observed \subseteq Registered
  /\ errored \subseteq Registered

EngineInit ==
  /\ scheme \in Schemes
  /\ net \in Reachability
  /\ flaps = 0
  /\ status = [c \in Registered |-> "pending"]
  /\ fetched = "none"
  /\ tlsInfo = "none"
  /\ answered = {}
  /\ observed = {}
  /\ errored = {}

----------------------------------------------------------------------------
(***************************************************************************)
(* Skip rules: what the check is skipped for, read off the store.          *)
(***************************************************************************)

\* probebase.SkipUnlessFetched: !ok || fetched.Err != nil.
SkipUnlessFetched == fetched \notin Usable

\* skipUnlessNginx: the same, and a Server header without "nginx".  The
\* --engine hint (ScanContext.Engine) is not consulted.
SkipUnlessNginx == fetched # "nginx"

\* The rule of the three tls checks: !ok || info.Err != nil (certificate's
\* also asks for a peer certificate, which every handshake yields).
SkipUnlessHandshake == tlsInfo \notin Handshaken

Skips(c) ==
  \/ c \in SkipUnlessFetchedChecks /\ SkipUnlessFetched
  \/ c \in SkipUnlessNginxChecks /\ SkipUnlessNginx
  \/ c \in SkipUnlessHandshakeChecks /\ SkipUnlessHandshake

----------------------------------------------------------------------------
Finished(c) == status[c] \in {"skipped", "done"}

\* The engine starts c: its dependencies have finished, and its skip rule is
\* evaluated first.
Start(c) ==
  /\ status[c] = "pending"
  /\ \A d \in DependsOn(c) : Finished(d)
  /\ status' = [status EXCEPT ![c] = IF Skips(c) THEN "skipped"
                                                 ELSE "running"]
  /\ UNCHANGED <<envVars, storeVars, answered>>

\* Mutant of RequestEnds: a refused connection is tried again for ever.
RequestEndsInResponse == net = "up"

\* A request can only end, in a response or in an error, at a target that
\* does not hold it open: http.DefaultClient has no timeout.
RequestEnds == net # "stalled"

\* HTTPFetchCheck: one GET through the client, which verifies the chain.  A
\* failed request is stored in FetchResult.Err, never in Result.Err.  Even a
\* target that is up may fail it (a malformed URL, a redirect to a dead
\* host).
RunHTTPFetch ==
  /\ status[HTTPFetch] = "running"
  /\ RequestEnds
  /\ \/ /\ fetched' = "failed"
        /\ answered' = answered
     \/ /\ net = "up"
        /\ scheme # "untrusted"
        /\ fetched' \in Usable
        /\ answered' = answered \cup {HTTPFetch}
  /\ status' = [status EXCEPT ![HTTPFetch] = "done"]
  /\ UNCHANGED <<envVars, tlsInfo, observed, errored>>

\* VerifyCertificate on the chain of a completed handshake.  TargetHost dials
\* port 443 for an http:// target too, whose chain may be either.
VerifyCertificate == CASE scheme = "trusted" -> {"verified"}
                       [] scheme = "untrusted" -> {"unverified"}
                       [] OTHER -> Handshaken

\* TLSInfoCheck: one handshake under DialTimeout that skips verification,
\* which is done afterwards so that a bad chain leaves a handshake to report.
RunTLSInfo ==
  /\ status[TLSInfo] = "running"
  /\ \/ /\ tlsInfo' = "failed"
        /\ answered' = answered
     \/ /\ net = "up"
        /\ tlsInfo' \in VerifyCertificate
        /\ answered' = answered \cup {TLSInfo}
  /\ status' = [status EXCEPT ![TLSInfo] = "done"]
  /\ UNCHANGED <<envVars, fetched, observed, errored>>

\* A check that only reads the store: without its probe's data it answers
\* ErrFetchUnavailable (errNoCertificate); otherwise the data decides.  A
\* chain that does not verify always is a finding.
RunStoreOnly(c) ==
  /\ c \in StoreOnly
  /\ status[c] = "running"
  /\ LET missing == \/ c \in RunReadsFetch /\ fetched \notin Usable
                    \/ c \in RunReadsTLSInfo /\ tlsInfo \notin Handshaken
     IN \/ /\ missing
           /\ errored' = errored \cup {c}
           /\ observed' = observed
        \/ /\ ~missing
           /\ errored' = errored
           /\ \/ observed' = observed \cup {c}
              \/ /\ ~(c = "certificate" /\ tlsInfo = "unverified")
                 /\ observed' = observed
  /\ status' = [status EXCEPT ![c] = "done"]
  /\ UNCHANGED <<envVars, fetched, tlsInfo, answered>>

\* Mutant of RunTLSDialer: the extra dials have no DialTimeout.
RunTLSDialerUnbounded(c) ==
  /\ c \in TLSDialers \ Probes
  /\ status[c] = "running"
  /\ RequestEnds
  /\ status' = [status EXCEPT ![c] = "done"]
  /\ UNCHANGED <<envVars, fetched, tlsInfo, answered, observed, errored>>

\* protocol_version and cipher_strength: a failed dial is the secure outcome,
\* a completed one a finding; cipher_strength also judges the stored
\* handshake's suite.  DialTimeout ends the dials at a stalled target.
RunTLSDialer(c) ==
  /\ c \in TLSDialers \ Probes
  /\ status[c] = "running"
  /\ \/ /\ UNCHANGED <<answered, observed>>
     \/ /\ net = "up"
        /\ answered' = answered \cup {c}
        /\ observed' = observed \cup {c}
     \/ /\ c \in RunReadsTLSInfo
        /\ tlsInfo \in Handshaken
        /\ answered' = answered
        /\ observed' = observed \cup {c}
  /\ status' = [status EXCEPT ![c] = "done"]
  /\ UNCHANGED <<envVars, fetched, tlsInfo, errored>>

\* One request of an HTTP check is answered.
Answer(c) ==
  /\ c \in HTTPSenders \ Probes
  /\ status[c] = "running"
  /\ net = "up"
  /\ answered' = answered \cup {c}
  /\ UNCHANGED <<envVars, status, storeVars>>

\* An HTTP check returns: with an error, with findings its answers gave, with
\* both (a Result has room for both; see BypassLoop), or clean.
RunHTTPCheck(c) ==
  /\ c \in HTTPSenders \ Probes
  /\ status[c] = "running"
  /\ RequestEnds
  /\ errored' \in {errored, errored \cup {c}}
  /\ \/ observed' = observed
     \/ c \in answered /\ observed' = observed \cup {c}
  /\ status' = [status EXCEPT ![c] = "done"]
  /\ UNCHANGED <<envVars, fetched, tlsInfo, answered>>

----------------------------------------------------------------------------
\* The target's reachability changes.
Flap ==
  /\ flaps < MaxFlaps
  /\ flaps' = flaps + 1
  /\ net' \in Reachability \ {net}
  /\ UNCHANGED <<scheme, status, storeVars, answered>>

RunCheck(c) == \/ c = HTTPFetch /\ RunHTTPFetch
               \/ c = TLSInfo /\ RunTLSInfo
               \/ RunStoreOnly(c)
               \/ RunTLSDialer(c)
               \/ RunHTTPCheck(c)

EngineStep == \E c \in Registered : Start(c) \/ RunCheck(c) \/ Answer(c)

EngineNext == EngineStep \/ Flap

AllFinished == \A c \in Registered : Finished(c)

\* What the engine's and Go's scheduling give: a ready check is started, a
\* running one whose request can end returns.
EngineFairness ==
  \A c \in Registered : WF_engineVars(Start(c)) /\ WF_engineVars(RunCheck(c))

EngineSpec == EngineInit /\ [][EngineNext]_engineVars /\ EngineFairness

----------------------------------------------------------------------------
(***************************************************************************)
(* Properties.                                                             *)
(***************************************************************************)

\* A check's Run is never reached without the probe data it reads
\* (ErrFetchUnavailable: "SkipUnlessFetched normally prevents a check's Run
\* from being reached in that state"): the skip rule and depends_on, written
\* in two files per check, together make the missing case unreachable.
InputsAvailable ==
  \A c \in Registered :
    status[c] \in {"running", "done"} =>
      /\ c \in RunReadsFetch => fetched \in Usable
      /\ c \in RunReadsTLSInfo => tlsInfo \in Handshaken

\* A check is skipped for want of a probe only if that probe ran and failed:
\* never because the check was scheduled before the probe had stored its
\* data, which would look the same in the report.
NoSpuriousSkip ==
  \A c \in Registered :
    status[c] = "skipped" =>
      /\ c \in SkipUnlessFetchedChecks => fetched = "failed"
      /\ c \in SkipUnlessNginxChecks => fetched \in {"failed", "other"}
      /\ c \in SkipUnlessHandshakeChecks => tlsInfo = "failed"

\* An untrusted chain is reported whenever the handshake got through: the
\* certificate finding does not depend on the HTTP fetch, which the same
\* chain makes fail.
BadChainIsReported ==
  (AllFinished /\ tlsInfo = "unverified" /\ "certificate" \in Registered)
    => "certificate" \in observed

\* DialTimeout bounds every TLS handshake: whatever the target does, a check
\* that only dials TLS or reads the store returns.
TLSChecksReturn ==
  \A c \in Registered \cap (TLSDialers \cup StoreOnly) :
    (status[c] = "running") ~> (status[c] = "done")

\* The scan finishes at a target that does not hold requests open forever
\* (the dependency edges of the registry admit an order).
EngineFinishes == <>[](net # "stalled") => <>AllFinished
=============================================================================
