# Verification of proxyaudit

TLA+ models of `proxyaudit`, a command that scans one reverse proxy with a
fixed set of checks and reports, through findings and an exit code, what is
misconfigured. The models are translated from `src/`; TLC checks them on small
instances and TLAPS proves the main results for every value of the constants.

proxyaudit has no state that outlives a run, no server loop and no protocol of
its own. What can go wrong in it is the *conclusion*: a check that never ran is
read as a clean one; two answers given at different times are compared as if
they were one; the exit code loses a fact on its way out. The properties are
about that.

## 1. Inventory

| component | source | state | operations |
|---|---|---|---|
| process and command | `main.go`, `cmd/root.go`, `cmd/scan.go` | telemetry handle, report sinks, the error travelling up, exit code | cobra's hooks, `RunE`, deferred cleanup, `Execute` and its error branch |
| check registry | `proxy/checks.go`, every `check.yaml` | none (a constant list) | `AllChecks`: order, `depends_on`, `WithSkip` |
| engine and shared probes | `proxy/probebase/httpfetch.go`, `tlsinfo.go`, `proxy/scanctx` (and harnessx, a library) | result store: the shared fetch, the shared handshake; status of each check | start, skip, run, store |
| access-control bypass checks | `path_bypass`, `method_bypass`, `headertrust/acl_bypass` | position in two nested loops, findings | baseline GET, retry, break |
| WAF checks | `waf/*`, `probebase/wafprobe.go`, `wafpayload.go` | control answers, per-payload outcomes | control, payload, variant, delivery |
| nginx alias check | `nginx_alias_traversal` | two bodies | skip by `Server` header, compare |
| TLS checks | `tls/*` | none | dial a version or suite; read the handshake; parse HSTS; follow a redirect |
| header checks | `headers/*`, `corsprobe.go` | none (CORS: position among paths and requests) | read the shared response |
| header-trust checks | `headertrust/*`, `reflection.go`, `hostprobe.go` | marker, bodies | send a marked header, look for its reflection |
| disclosure checks | `disclosure/*`, `pathsignature.go` | position in the table | GET known paths, match a signature |
| caching checks | `caching/*`, `adapt/adapt.go` (and cache-detective, a library) | an inner result store | adapt, skip, chain |

**Interaction.** `main` calls `Execute`, which runs cobra; `RunE` builds one
`ScanContext` and one harnessx engine over `AllChecks` and blocks in
`Engine.Run`. The engine starts a check when everything it `depends_on` has
finished, evaluates its skip rule against the result store, runs it, stores its
`Result`. Two probes leave data that others read: `http_fetch` (one GET) and
`tls_info` (one handshake). All other checks share only the target - the checks
of one category may disturb each other through it (a burst of attack strings
triggers a rate limit, a marker stays in a cache). `RunE` then reads the summary
and turns it into one of a handful of errors, and `Execute` turns that into the
exit code.

**What is hard here.**
* Ordering: nothing in the repository orders checks but `depends_on`, and the
  edge (in `check.yaml`) and the skip rule (in `check.go`) are written apart.
* Failure: a probe failure is kept in `Data`, not in `Err`; `os.Exit` runs no
  deferred call; cobra skips `PersistentPostRun` on errors.
* Time: the client has no timeout, TLS dials have one; the target's
  reachability, its access control and its rate limit may change between the
  two requests whose answers a check compares.
* Plausible nonsense: redirects that are followed, an answer that is neither
  granted nor rejected, a target URL that damages the probe's query.

**What makes each component correct.**
* command: the exit code is a function of what the run learned; 0 is never
  given to a target that was not reached, nor to one whose certificate chain is
  untrusted; telemetry and sinks are released exactly once on every voluntary
  path.
* registry and engine: no check runs without the data it reads, none is skipped
  for a probe that has not failed, a bad certificate is reported although it
  breaks the fetch, what a check was skipped for or has reported stands, no two
  checks wait for each other, and the scan ends whenever requests do.
* bypass checks: exactly the bypasses of a stable site, one finding a path; of a
  changing site, nothing it gave no cause for and nothing missed that was there
  all the time; no writing verb to a path that is open anyway.
* WAF checks: nothing reported as passed that the filter rejects; no payload
  falls between the three checks; they do not contradict each other.
* header-trust checks: a finding has a cause at the site whatever a cache mixes
  up; without a cache findings are exact; no backend is missed.
* path probes (disclosure, nginx alias): a finding has a cause at the site even
  where unknown paths are answered with a page; an open interface is missed only
  with its own request; an error comes before the first finding, never after one.
* header checks: what the checks say of a header is what a browser makes of it;
  a failed request of `cors` costs its own finding only.
* TLS checks: an old version is found although any failed dial counts as a
  rejection; an expired certificate is called so whenever its date passes; a
  clean `https_redirect` and `hsts` mean that visitors are sent to HTTPS and that
  the page they are shown there keeps them.
* caching checks: one client for all checks whatever the race on it; nothing is
  planted unasked; the second of two chained runs judges the first one's
  analysis or does not run.

## 2. Modules

| module | models | checked by | proved in |
|---|---|---|---|
| `CheckRegistry` | `AllChecks`, dependencies, skip rules, what each `Run` reads | (with the engine) | (with the engine) |
| `ScanEngine` (extends `CheckRegistry`) | one engine run against a target that flaps | `scan_engine` | `ScanProofs` |
| `ExitVerdict` | abstract: what a CI job may conclude from the exit code | as property `VerdictSpec` | `ScanProofs` |
| `ScanCommand` (extends `ScanEngine`) | `Execute`, hooks, `RunE`, exit | `scan_command` | `ScanProofs` |
| `HonestReport` | abstract: what a check promises about its report while the site changes | as property `ReportIsHonest` | `BypassLoopProofs`, `PathProbesProofs`, `HeaderChecksProofs` |
| `BypassLoop` | the loop the three bypass checks share | `bypass_checks` | `BypassLoopProofs` |
| `MethodBypass` (extends `BypassLoop`) | the verbs of `method_bypass`, which the site may carry out | `bypass_checks` | `BypassLoopProofs` |
| `WafChecks` | the three WAF checks side by side | `waf_checks`, `flagged_payloads_were_sent` | `WafChecksProofs` |
| `ReflectionChecks` | the header-trust checks side by side behind a shared cache | `reflection_checks` | `ReflectionProofs` |
| `PathProbes` | the disclosure checks and `nginx_alias_traversal` | `path_probes`, `listed_paths_are_probed` | `PathProbesProofs` |
| `SignatureTables` | the paths and words the disclosure checks look for | (with the path probes) | |
| `HeaderChecks` | the checks of `headers/`, the loop of `cors` among them | `header_checks`, `missing_same_site` | `HeaderChecksProofs` |
| `TransportChecks` | the checks of `tls/` and the two probes | `transport_checks` | `TransportProofs` |
| `CachingChecks` | the adapters of `caching/` over one `ScanContext` | `caching_checks` | `CachingProofs` |
| `MCScanEngine`, `MCScanCommand`, `MCPathProbes`, `MCHeaderChecks`, `MCTransportChecks`, `MCCachingChecks` | the constants of the small instances | | |

### How the models correspond to the code

**ScanEngine.** `status[c]` is harnessx's view of check `c`; `fetched` and
`tlsInfo` are what `probebase.Fetch(store)` and `probebase.Info(store)` return,
reduced to what skip rules and checks tell apart (absent, `Err` set, `Server`
names nginx or not; handshake verified or not). `Start` is the engine's (a
library): dependencies finished, then the skip rule. `RunHTTPFetch` and
`RunTLSInfo` are the probes. The other checks fall into four classes by how
they talk to the target - store only, TLS dialers, HTTP senders - and each class
has one `Run` action. `net` and `Flap` are the target, which answers, refuses
or stalls, and may change a bounded number of times. `answered` is a history
variable: which checks have had any answer.

**ScanCommand.** `pc` walks the stages of one invocation in the order of the
code; `ret` is the error `RunE` returns (its kind, not its text); `telemetry`,
`sinks` and `shutdowns` are the resources. `Classify` keeps the order of tests
of `cmd/scan.go:104-120`. While `pc = "scanning"` the engine's actions are the
steps. `--engine` is not in the state: a known value changes nothing (see 7).

**BypassLoop.** `path` and `request` are the two loop counters (`request = 0`
is the plain GET); `policy` is the site's answer to each request, which `Drift`
changes. `Seen` is what `probebase.do` leaves of an answer: a redirect has been
followed, so a login page that answers 200 is a 2xx, and one that answers 403 a
denial. `malformed` is the one way in which
building a request can fail; it does not depend on the path, which is why an
error carries no findings. `ever` is a history variable, no state of the code:
the answers the site has given a request's turn at any time, against which the
report of a run on a changing site is judged (`MayBypass`, `AlwaysBypass`).

**HonestReport** is what a check promises its reader when the site may change
between two requests: one report, never amended, that holds nothing the site gave
no cause for (`possible`) and everything it gave cause for throughout
(`certain`), or an error and nothing else. The bypass loop maps `possible` to
the paths that had a denied GET and a granted retry at some time each, and
`certain` to those that had both all the time; the path checks to the entries
with a `Cause` and to the recognisable ones whose request was not lost; `cors`
to what the site's policies show and to what was answered.

**MethodBypass** adds where a writing verb was sent (`sentTo`). Whether the site
carries one out is not in the status the check sees: it may do so and answer with
a page, a failure, nothing, or a redirect (Post/Redirect/Get). So each path in
`sentTo` may have been changed, the property is about all of them, and none
says that a write which was carried out is reported: it need not be.

**WafChecks.** `base`, `enc` and `cons` are the local variables of the three
`Run` functions; one action is one request and what the code makes of its
answer up to the next request. `Served` is the site: its fixed policy, or 429
while it throttles (`Throttle` toggles that, a bounded number of times). Payloads, techniques and
deliveries are numbers: no property looks at their bytes, except that a target
whose first parameter name holds `#` cuts the query off (`Policy`).

**ReflectionChecks.** The site is constant: which headers it puts into its
answers (`trusted`), which pages echo the Host (`echoes`), in the body or in a
header (`inBody`), which hosts reach another backend (`elsewhere`), how requests
fare (`link`); a lost request is lost for its path or host only (`lost`), which
the properties excuse and nothing after it. `single`, `consistency`, `injection` and `vhost` are where each
check is; one action is one request and what the code makes of its answer. The
cache is the environment's: `stored` and `cached` are the target's page in it;
`Ask` is a request for that page, of a check or of a visitor; `Expire` empties
it. Its key has the host and the path and none of the probed headers, which is
the case the checks exist for. Redirects (which `ProbeWithHeaders` does not
follow and `FetchWithHost` does) are part of what a page is.

**PathProbes.** `at` is the loop's position in the table of one check
(`SignatureTables`: paths and marker words as in the code; a page is its status
and the words it says). The site is which entries are `open`, which prefixes
have a file behind a well-formed location (`strict`), and the page for paths it
does not know, which may change (`Drift`). `Resolved` is `ResolvePath`, which
escapes a `?`. `Lost` and `Answered` are the two ways a request ends;
`nginx_alias_traversal` sends two and holds the first body in `baseline`.

**HeaderChecks.** `page` is the shared fetch's answer as header classes;
`Inspect` is one of the seven checks reading it. `path` and `step` are where
`cors` is, `policy` is what the site answers to an `Origin` at each path. A
browser's reading of the same headers (`MayRead`, `Framable`) stands next to the
code's, and the properties relate the two.

**TransportChecks.** `server` is what the target offers: versions, suites
(AEAD with ECDHE, CBC with ECDHE, and the ones `crypto/tls` calls insecure),
trust, where port 80 and the https answers redirect to, and the HSTS directives of
each page a request can end at (`Landings`: the target's host, another host, a
page over plain HTTP). `Landing` is where `client.Do` ends, and `hsts` reads the
header there, whosever it is. `Handshakes` is `crypto/tls` as far
as the checks rely on it: the highest common version, then a suite of that
version out of the offer. `validity` is the certificate against the clock, which
`Age` moves between any two steps. Up to `MaxLost` dials fail for no reason of the
server's. The probes are here once more, beside `ScanEngine`'s, because these
properties are about the handshake's content; there they are about its arrival.

**CachingChecks.** `pc[c]` walks `TargetContext` (a read and a write of
`HTTPClient`, with no lock), `ProbeCtx`, `Skip.EvalResource` and `RunResource`.
`running` is the cache-detective check an adapter is running and `first` its
local `cacheabilityResult`; `Dependency` is the store `Run` was seeded with. Which
adapters there are, which library check each starts with (`Adapted`) and which
other checks share the `ScanContext` (`Senders`) are constants; `Send` is a
request of one of the latter, which reads `HTTPClient` again and would
dereference a nil one (`probebase/pathprobe.go:47`). The
library is external: `Verdicts` and `Plants` say what it may answer, given its
`ProbeCtx` and store. Of its behaviour three things are taken from the comments
of the adapters: `Check` leaves an analysis, `AuthCheck` judges the one it finds,
and the two intrusive checks plant only if `ProbeCtx.Aggressive`.

## 3. Runs

| run | question | instance |
|---|---|---|
| `scan_engine` | Can any schedule and any flapping target make a check run without its data, be skipped unjustly, or hide a bad chain? Does the scan end? | both probes and one check of each class (7 checks), 1 flap |
| `scan_command` | Does every path to an exit give the promised code, release the resources, implement `ExitVerdict`, end? | both probes, `certificate`, `nginx_alias_traversal`, 1 flap |
| `bypass_checks` | Exactly the bypasses of a stable site, once each? Of a changing one, an honest report (`HonestReport`), empty with an error? Where do writes go? Does it end? | 2 paths, 2 retries, 4 answers, 1 drift |
| `waf_checks` | Can the three checks report a rejected payload, miss one, or contradict each other? | 2 payloads, 2 deliveries, 2 techniques, 1 change of throttling |
| `reflection_checks` | Can a cache shared by the checks and by visitors make them report what the site gives no cause for, or miss a backend? Are they exact without it, whatever request is lost? | `x_real_ip`, `forwarded_consistency`, `host_header_injection` with 2 paths, `vhost_confusion` with 2 hosts |
| `path_probes` | Can a catch-all page, a lost request or a change between two requests make a check report what the site gives no cause for, or hide an open interface? Is the report an honest one? | the tables of the code, the alias check, 2 open entries at most, 1 lost request, 1 change |
| `header_checks` | Do checks and browsers read the same headers alike? Does a failed request hide more than its own finding? | 7 pages, 3 policies, 2 paths, 1 lost request |
| `transport_checks` | Are old versions, weak suites and an expired certificate reported, in any order of checks and whatever dial is lost? Are visitors of a clean target sent to HTTPS, and kept there by the page they are shown? | versions, suites, trust, redirects to the target's host and elsewhere, and HSTS values of `MCTransportChecks`, 1 lost dial, the clock at every step |
| `caching_checks` | Can the race on `HTTPClient` give checks different clients, or none? Can something be planted unasked, or a verdict stand on a failed first run? | three adapters (one that chains two runs, one that plants, one that does neither), one check that sends for itself, the two probes |
| `flagged_payloads_were_sent`, `listed_paths_are_probed`, `missing_same_site` | statements of the documentation that the code does not keep (section 7) | as the run beside it, or smaller |

**Why the bounds are enough.** The checks within a class are
interchangeable: no action tells two of them apart but by the sets of
`CheckRegistry`, so one of each class meets every rule. One flap gives every
pair of reachabilities for any two requests, which is all a check compares.
Two paths are the least at which a finding, a baseline or a counter of one path
can leak into the next, two retries the least with a first and a last. Two
payloads likewise show lists that outlive their round; the second delivery can
drop out because its control is rejected. One single-header check next to
`forwarded_consistency` is enough for a marker to be read by another check
(X-Forwarded-For shares it); two hosts are the least with one before and one
after a finding. The tables of `path_probes` are the code's, so their words
meet as they do there; two open entries show one hiding the other. The pages and
policies of `header_checks` have each rule of a check once obeyed and once
broken, and one of each way in which a browser and a check differ. `caching_checks`
has one adapter of each kind (`cache_deception` differs from `cache_poisoning`
by its name only), and with the probes and one sender every pair of a reader and
a writer of `HTTPClient`. The theorems of section 5 remove the bounds for every
safety property of every run.

Deadlock checking is off everywhere: a scan, a check and a process do stop.

**Mutants.** Beside the definition it changes, each module holds the mutated
operators (marked "Mutant of"): a lost `depends_on`, a lost skip rule, a
dropped `break`, tests in another order, a missing `otelShutdown = nil`, an
error where a lost request should be passed over. Each property is shown to fail under one of them.

**Type invariants.** Each module states one. All are theorems (section 5), which
hold for every value of the constants, and no run repeats them.

## 4. Liveness and fairness

`EngineFairness` is weak fairness of each check's `Start` and `Run`: a check
that is ready is started and a goroutine that can go on does. It does **not**
promise that a request is answered: `RunCheck` of an HTTP check is disabled
while the target stalls, because `http.DefaultClient` has no timeout and the
command's context no deadline (`scanctx/context.go:73`). So `EngineFinishes` and
`CommandEnds` assume that the target does not stall for ever
(`<>[](net # "stalled")`). `TLSChecksReturn` needs no such assumption:
`DialTimeout` bounds every dial. `CheckEnds` (`BypassLoop`) assumes only that
the check's own steps go on; `reset` there stands for any failed request, and a
site that never answers is the engine's subject. So with `ProbesEnd`
(`PathProbes`) and `ChecksEnd` (`HeaderChecks`): weak fairness of the check's own
steps, a request ends in an answer or in an error, and it is the loop that must
not go round for ever. `TransportChecks` and `CachingChecks` state no liveness:
the dials of the one are `TLSChecksReturn`'s subject, and the adapters of the
other have no loop, so that they end whenever requests do is `EngineFinishes`.

`CommandFairness` is weak fairness of the command's sequential code and of the
engine's steps. None of `Interrupt`, `Flap`, `Drift`, `Throttle`,
`Age` and `Expire` is fair.

## 5. Proofs

Each proof module extends the module it is about and rests on its named
constant assumptions only (sizes are natural numbers, the answers a site gives
are among `AllAnswers`, the registered checks include the probes).

* `ScanProofs`, of the engine: `EngineInv` = type, `ProbeStored` (a probe that is done
  has left a result, one that is not has left none), `InputsAvailable`,
  `NoSpuriousSkip`. `ProbeStored` is the strengthening: that a check's data is
  there when it runs follows from its dependency being finished only if
  finishing implies storing - and from the probes themselves never being
  skipped (`ProbesAreNotSkipped`). The lemma `RegistryCoherent` is the place where the
  two files per check meet: every skip rule and every read has its edge.
  `BadChainIsAlwaysReported` adds `ChainReported` (a `certificate` that is done
  with an unverified chain in the store has said so) and takes from `EngineInv` that it
  cannot have been skipped and that the store does not change under it.
  Four more facts, which no run checks, are proved on top of it. `StoredStands`:
  a probe's data and a finished check's result are never changed, which is what
  makes it sound that the report and `sharedFetchErr` read them at the end.
  `SkipDecisionStands`, with `StartedAfterProbes` as its strengthening: the skip
  rule of a check that started or was skipped says the same at every later
  moment. `StoreReadersNeverFail`: a check that only reads the store never ends
  in an error. `NobodyWaitsInVain`: until all have finished some check may go on,
  so `depends_on` leaves no circle for any set of registered checks - the
  safety half of `EngineFinishes`.
* `ScanProofs`, of the command: `CommandRunsTheEngine` says that every step of the
  command is a step of the engine or leaves it alone, so `CommandInv` takes over the
  engine's invariants, and `CommandKeepsTheEnginesWord` its properties. It adds
  `StageInv` (what each stage knows), `TelemetryInv`, `SinksInv`. From it come the
  four properties - that exit 0 is never given to an untrusted chain needs
  `ChainReported` from the engine and `Classify` from the command - and
  `CommandImplementsVerdict`: every step of the command is a step of
  `ExitVerdict` (learn, exit with the promised code, be killed) or a stutter.
* `BypassLoopProofs`: `LoopInv` says what has been established at each position:
  findings are of earlier paths, at most one each; without a drift they are
  exactly the bypasses below `path`, and the retries below `request` were all
  refused. `HonestInv` is the
  same argument for a site that changes: what `LoopInv` says of the policy now is
  said of its history. `MethodInv` extends it by where verbs were sent, so that
  `OpenPathsAreNotWritten` holds of a changing site as well. `TriedOnce` (the path at hand was denied at some time, and
  each retry behind the loop was refused at some time) is the strengthening that makes
  `FindingsMayBypass` and `AlwaysIsFound` inductive. `BypassReportsAreHonest`
  and `MethodReportsAreHonest` are the refinements of `HonestReport`: drifts map
  to `Change`, the end of the loop to `Publish`, a malformed target to `Fail`.
* `WafChecksProofs`: one invariant per check (`BaseInv`, `EncInv`, `ConsInv`), each
  in two halves: what holds however the site throttles, and what holds while it
  has not. The key lemma is `BlockedIsRejected`: against a usable control the
  comparison of two statuses in `WAFBlocked` decides nothing. `NothingIsMissed`
  puts the three invariants together; it needs that the query delivery is
  usable for one check exactly when it is for the others.

* `ReflectionProofs`: `CacheInv` is the strengthening: what the cache holds was put
  there by some trusted header, and the marker of `Forwarded` is not in it before
  `forwarded_consistency` has sent it. The latter is why that check's verdict on
  both headers is about its own request even behind a cache, while the other
  checks' findings are only known to have *some* cause. `InjectionInv` and
  `VhostInv` say what each loop has established about what it has left behind.

* `PathProbesProofs`: `PathInv` is `FoundBehind` (every open entry before `at`
  was reported, if it can be recognised and its request was not lost),
  `BaselineHeld` (a baseline in hand is the file of that prefix or a page the site
  has shown, so a changing catch-all page cannot leave a finding without a
  cause), `FindingsHaveACause` itself and `MalformedFindsNothing` (the one error
  there is comes before any finding). `PathReportsAreHonest` refines `HonestReport`
  from it, for every table.
* `HeaderChecksProofs`: `ReportsInv` (a check that has read the page has reported its
  rule), `FoundInv` (every request behind `path` and `step` has left what it
  showed, or is lost) and `ShownInv` (every observation was shown by its
  own path's policy). `CorsReportsAreHonest` refines `HonestReport` from these.
* `TransportProofs`: `InfoInv` (what the stored handshake says of the server and of
  the certificate, which only grows older) and one conjunct for each check, saying
  what its report is once it is done. `FrameInv` is the lemma that a step of one check
  leaves the others' conjuncts alone. `OldVersionsAreAlwaysFound` puts two
  checks together: the legacy suite that keeps an old version from `protocol_version`
  is what `cipher_strength` offers. `VisitorsAreAlwaysProtected` ties the
  verdict of `hsts` to the page the fetch ended at; `LandingIsOne` says that it
  ends at one of the pages or fails.

* `CachingProofs`: `ClientInv` (a check that has been through `TargetContext` finds
  the client filled in, and nothing empties it), `PlantInv` (an adapter is at
  work only after the shared fetch reached the target, and its run's flag is the
  scan's), `ChainInv` (a second run is started on a first one that was skipped or
  left an analysis, and on no other). `ClientStays` is the action property behind
  the race: the late write of a check that read `nil` changes nothing.

Not proved is liveness (`EngineFinishes`, `TLSChecksReturn`, `CommandEnds`,
`CheckEnds`, `ProbesEnd`, `ChecksEnd`), which is out of the prover's
reach (fairness, `ENABLED`) and stays with the model checker. Every safety
property of every passing run is a theorem. The constants of `CheckRegistry` and
the tables of `SignatureTables` are the repository's own; `PathProbes` takes its
tables as a constant and is proved for any.

## 6. Plan

Done, in this order: registry, engine, command and abstract verdict; bypass,
WAF and header-trust checks; path probes; header checks; TLS checks; caching
adapters; the abstract `HonestReport`, which the bypass checks, the path
checks and `cors` implement; theorems about the caching adapters for any set of
them. Every component that has state or control of its own is modelled.

Left, in the order of what it would add:

1. `HonestReport` for the other checks that compare answers given at different
   times: the WAF checks, whose certain and possible findings come apart when
   the site throttles, and the TLS checks with their lost dials; for the
   header-trust checks, whose causes a cache mixes up, a weaker promise;
2. one composition of checks of different categories at one shared cache
   (`cache_poisoning` beside the header-trust checks, whose markers meet what it
   plants), once the library's requests are modelled in detail.

## 7. Where documentation and code differ

Three are shown by runs (the counterexample is the run's output):

* `flagged_payloads_were_sent` - a `%23` in the first parameter's name cuts
  all payloads off, and all are reported as passed.
* `listed_paths_are_probed` - the `?` of `/haproxy?stats` is escaped, so
  HAProxy's statistics page is never asked for.
* `missing_same_site` - `cookie_flags` compares with the constant for an
  unrecognised SameSite value, so a cookie without the attribute passes.

Noticed while reading and modelling, without a run of their own:

*Command.*
* Exit code 1, "findings present" (`README.md:80`), is also given to usage errors
  (`cmd/root.go:78`).
* An untrusted chain ends the scan with "connecting to target" and code 2
  (`cmd/scan.go:108-113`), although the handshake got an answer and a finding.
* `--aggressive` is said to have no effect (`docs/reference/cli/scan.mdx:24`,
  "not yet present in v0.1", `scanctx/context.go:39`); the caching checks read it.
* Without `--aggressive` the two intrusive caching checks "are skipped"
  (`README.md:85-88`); they run, plant nothing and are reported as clean.
* `--engine` "overrides auto-detection" (`cmd/scan.go:125`), but no check reads
  `ScanContext.Engine`; the nginx check goes by the `Server` header.

*Checks that ask.*
* `method_bypass` sends POST, PUT, PATCH and DELETE without `--aggressive`;
  `README.md:84-85` says "non-destructive and read-only by default". A write that
  is carried out and then answered by a failure or a redirect is not reported.
* The client follows redirects, so a bypass retry that is sent to a login page
  answering 200 counts as granted ("the identical path, reached with a
  different verb", `method_bypass/check.go:67`). `BypassLoop` has that answer
  (`Seen`).
* `content_type_consistency` takes its controls once; a rate limit that sets in
  between two deliveries reads as a filter that "only inspects the content
  types [...] it parses". `WafChecks` has that behaviour (`Throttle`).
* `baseline_payloads` says the payload's answer was the control's ("and so did
  the payload", `check.go:64`); a backend error counts as passed as well.
* Four checks share one marker and one page (`reflection.go:13-15` promises
  attribution "to that header"): behind a shared cache a check can blame its own
  header for another's, and a visitor can be served the marker, without
  `--aggressive` (`README.md:85-88`). `ReflectionChecks` has both behaviours.
* `vhost_confusion` reports every candidate host when the page merely echoes the
  Host, as bodies are compared for equality.
* `nginx_alias_traversal` reports every prefix of a site that answers 200 with
  one page to everything; `config_exposure` takes words as common as `image:` for
  a configuration. `PathProbes` names these causes (`Cause`).
* `config_exposure` asks for `/web.config`, but none of its words is one an IIS
  configuration holds; `OpenOnesAreFound` is about what it can recognise.

*Checks that read.*
* `cors` says of the null origin that it allows "credentialed cross-origin requests"
  without looking at `Access-Control-Allow-Credentials` (`cors/check.go:70-73`); calls a
  max-age between 2 and 24 hours longer "than any browser will actually honor"
  beside "Firefox caps at 24h" (`:41-44`); ignores one that does not fit an int
  (`:159`), the longest there are; and does not look at the methods a preflight allows.
* `frame_options` takes any non-empty X-Frame-Options for protection and, like
  `csp`, reads the first Content-Security-Policy only, so a `frame-ancestors`
  in a second one is overlooked. `ReadAlike` leaves such pages out.
* "the single shared GET request against the target" (`httpfetch.go:53`): it follows
  redirects to other hosts and keeps the last answer only. Cookies set on the way
  are not seen by `cookie_flags`, and `hsts` reads the header of the host it ends
  at, so that it and `https_redirect` are silent on a target whose own host sends
  none. `TransportChecks` has that case (`Landings`); `VisitorsAreProtected` is
  about the host whose page is shown.
* `hsts` reads a max-age that is quoted as 0 and reports it as too short, whatever
  it says. It takes a signed one, and keeps the last of repeated directives, where
  RFC 6797 has a browser drop the header; `VisitorsAreProtected` leaves those two
  out (`Lenient`).
* `https_redirect` keeps an explicit port of the target (`check.go:33-34`), and so
  asks the TLS port for plain HTTP. `VisitorsAreProtected` is about targets
  without one.

*TLS dials.*
* "Negotiated cipher suite lacks forward secrecy" is never reported: the
  default handshake offers ECDHE suites only, and with a server that has none all
  three checks are skipped. `WeakFindingsAreTrue` says so.
* Any failed dial is "the desired, secure outcome" (`protocol_version/check.go:47-48`),
  a lost packet included.
* The forced dials of old versions offer ECDHE suites only; a server that speaks
  TLS 1.0 with RSA key exchange is left to `cipher_strength`
  (`OldVersionsAreFound`).
* "a CBC-mode suite" (`cipher_strength/check.go:52`): the ECDHE suites with
  CBC and SHA-1 are not among those `crypto/tls` calls insecure.

## 8. Not modelled, and why

* Telemetry, cobra, harnessx, the report sinks, cache-detective: outside the
  repository. Their outcomes are chosen freely where the code distinguishes them;
  what they write is not looked at.
* The race on `ScanContext.HTTPClient` is modelled with reads and writes that are
  single steps, as a pointer's are on the platforms Go supports; that a re-read
  returns an older value, which Go's memory model does not rule out, is not.
* What the four cache-detective checks send, and so whether what one of them plants
  is read by another: their code is not in the repository.
* CVSS vectors, titles and wording of findings, the check metadata they come from;
  `internal/wafstub` (tests only).
* Bodies cut off at `MaxBodyBytes` or by a broken connection: a page is what has
  been read of it.
* A 307 or 308 redirect, which carries a writing verb on to another path: `sentTo`
  has the path `method_bypass` sends it to.
* Suites that `crypto/tls` does not implement (DHE key exchange, for one): the forced
  dials cannot meet them, and `OldVersionsAreFound` is about the others.
* Certificates that are not valid yet: the checks look at `NotAfter` only, and
  such a chain is one that does not verify.
* `CachingChecks`' one client is the one in `ScanContext`. Some checks copy it into
  a client of their own with other redirect rules; what they share is its transport.
* Markers of the header-trust checks in a cache: `PlantedOnlyOnRequest` is about the
  library's two intrusive checks, not about those (section 7).
