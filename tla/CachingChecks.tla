---------------------------- MODULE CachingChecks ----------------------------
(***************************************************************************)
(* The checks of caching/: adapters that run the checks of the             *)
(* cache-detective library against the one URL of the scan.  They run      *)
(* concurrently, next to the two shared probes and to the checks that send *)
(* requests of their own, over one ScanContext: TargetContext reads its    *)
(* HTTPClient and fills it in with no lock, so the read and the write are  *)
(* steps of their own here.                                                *)
(*                                                                         *)
(* What a cache-detective check makes of the site is external and chosen   *)
(* freely, within the inputs adapt.Run hands it: a ProbeCtx and the        *)
(* results its store was seeded with.                                      *)
(***************************************************************************)
EXTENDS FiniteSets

CONSTANTS
  Adapters,  \* the checks that go through adapt.Run
  Adapted,   \* the library's check each of them starts with
  Senders    \* checks that wait for no probe and send through HTTPClient

Probes == {"http_fetch", "tls_info"}
Checks == Probes \cup Adapters \cup Senders

LibraryChecks == {"cacheability", "varykey", "unkeyed_header",
                  "cache_deception"}

ASSUME AdaptedAssumption == Adapted \in [Adapters -> LibraryChecks]
ASSUME ChecksAssumption == /\ Probes \cap (Adapters \cup Senders) = {}
                           /\ Adapters \cap Senders = {}

VARIABLES
  aggressive,  \* ScanContext.Aggressive, the flag of the command line
  client,      \* ScanContext.HTTPClient
  fetched,     \* the shared fetch reached the target
  planted,     \* the checks that have planted content in the site's cache
  pc,          \* where each check is
  running,     \* the cache-detective check an adapter runs
  pctx,        \* the ProbeCtx of that run
  first,       \* cacheabilityResult of an adapter that chains two runs
  used,        \* the client each check has sent its requests through
  report       \* what each adapter has returned

sctxVars == <<aggressive, client>>
runVars == <<running, pctx, first>>
vars == <<sctxVars, fetched, planted, pc, runVars, used, report>>

----------------------------------------------------------------------------
\* Result: "failed" carries a Result.Err, "err" is an error of the call.
NoResult == [kind |-> "none", analysis |-> "none"]
Failures == {"failed", "err"}
Judged == {"clean", "finding"}
Analyses == {"uncacheable", "optedIn", "cacheable"}
Result == [kind : {"none", "skipped"} \cup Failures \cup Judged,
           analysis : {"none"} \cup Analyses]

Bare(kind) == [NoResult EXCEPT !.kind = kind]

----------------------------------------------------------------------------
(***************************************************************************)
(* The engine starts the probes at once and an adapter when its            *)
(* dependency has ended; SkipUnlessFetched is evaluated first.             *)
(***************************************************************************)
Start(c) ==
  /\ pc[c] = "waiting" /\ c \in Adapters
  /\ pc["http_fetch"] = "done" /\ fetched
  /\ pc' = [pc EXCEPT ![c] = "context"]
  /\ UNCHANGED <<sctxVars, fetched, planted, runVars, used, report>>

\* SkipUnlessFetched: the engine skips the check instead.
Skip(c) ==
  /\ pc[c] = "waiting" /\ c \in Adapters
  /\ pc["http_fetch"] = "done" /\ ~fetched
  /\ pc' = [pc EXCEPT ![c] = "done"]
  /\ report' = [report EXCEPT ![c] = Bare("skipped")]
  /\ UNCHANGED <<sctxVars, fetched, planted, runVars, used>>

\* TargetContext: "if sctx.HTTPClient == nil".
ReadClient(c) ==
  /\ pc[c] = "context"
  /\ pc' = [pc EXCEPT ![c] = IF client = "nil" THEN "assign" ELSE "ready"]
  /\ UNCHANGED <<sctxVars, fetched, planted, runVars, used, report>>

\* Mutant of AssignClient: each check fills in a client of its own.
AssignClientOfItsOwn(c) ==
  /\ pc[c] = "assign"
  /\ client' = c
  /\ pc' = [pc EXCEPT ![c] = "ready"]
  /\ UNCHANGED <<aggressive, fetched, planted, runVars, used, report>>

\* TargetContext: "sctx.HTTPClient = http.DefaultClient".
AssignClient(c) ==
  /\ pc[c] = "assign"
  /\ client' = "DefaultClient"
  /\ pc' = [pc EXCEPT ![c] = "ready"]
  /\ UNCHANGED <<aggressive, fetched, planted, runVars, used, report>>

\* The shared fetch sends its request and ends, with an answer or without;
\* the TLS probe dials by itself and leaves the client alone.
Fetch ==
  /\ pc["http_fetch"] = "ready"
  /\ used' = [used EXCEPT !["http_fetch"] = @ \cup {client}]
  /\ fetched' \in BOOLEAN
  /\ pc' = [pc EXCEPT !["http_fetch"] = "done"]
  /\ UNCHANGED <<sctxVars, planted, runVars, report>>

DialTLS ==
  /\ pc["tls_info"] = "ready"
  /\ pc' = [pc EXCEPT !["tls_info"] = "done"]
  /\ UNCHANGED <<sctxVars, fetched, planted, runVars, used, report>>

\* A check that sends for itself: each request reads HTTPClient again.
Send(c) ==
  /\ pc[c] = "ready"
  /\ used' = [used EXCEPT ![c] = @ \cup {client}]
  /\ pc' \in {pc, [pc EXCEPT ![c] = "done"]}
  /\ UNCHANGED <<sctxVars, fetched, planted, runVars, report>>

----------------------------------------------------------------------------
(***************************************************************************)
(* adapt.Run.                                                              *)
(***************************************************************************)

\* Mutant of ProbeCtx: the library's default in place of the scan's flag.
ProbeCtxByDefault == [client |-> client, aggressive |-> TRUE]

\* ProbeCtx: what a run takes over from the ScanContext.
ProbeCtx == [client |-> client, aggressive |-> aggressive]

\* store.GetForResource: the result a run's store was seeded with.
Dependency(c) ==
  IF running[c] = "auth_cacheability" THEN first[c] ELSE NoResult

\* innerTarget and resource: the run's own context, then jc.Skip.
Prepare(c) ==
  /\ pc[c] = "ready" /\ c \in Adapters
  /\ pctx' = [pctx EXCEPT ![c] = ProbeCtx]
  /\ pc' = [pc EXCEPT ![c] = "prepared"]
  /\ UNCHANGED <<sctxVars, fetched, planted, running, first, used, report>>

\* RunResource: cacheability.Check stores an analysis of the answer to a
\* request with credentials, and AuthCheck judges the one in its store; the
\* others judge answers of their own.
Verdicts(c) ==
  CASE running[c] = "cacheability" ->
         {[kind |-> "clean", analysis |-> a] : a \in Analyses}
    [] running[c] = "auth_cacheability" ->
         {Bare(IF Dependency(c).analysis = "cacheable"
               THEN "finding" ELSE "clean")}
    [] OTHER -> {Bare(kind) : kind \in Judged}

\* The library's two intrusive checks look at the flag themselves.
Plants(c) ==
  /\ running[c] \in {"unkeyed_header", "cache_deception"}
  /\ pctx[c].aggressive

\* Mutant of Chains: a Result.Err of the first run is passed over.
ChainsUnlessErr(c, r) == running[c] = "cacheability" /\ r.kind # "err"

\* authenticated_caching: "if err != nil || cacheabilityResult.Err != nil".
Chains(c, r) == running[c] = "cacheability" /\ r.kind \notin Failures

\* The second adapt.Run of authenticated_caching.
NextRun(c) ==
  /\ running' = [running EXCEPT ![c] = "auth_cacheability"]
  /\ pc' = [pc EXCEPT ![c] = "context"]

Return(c, r) ==
  /\ report' = [report EXCEPT ![c] = r]
  /\ pc' = [pc EXCEPT ![c] = "done"]

Ends(c, r) ==
  /\ first' = IF running[c] = "cacheability" THEN [first EXCEPT ![c] = r]
                                             ELSE first
  /\ \/ Chains(c, r) /\ NextRun(c) /\ UNCHANGED report
     \/ ~Chains(c, r) /\ Return(c, r) /\ UNCHANGED running
  /\ UNCHANGED <<sctxVars, fetched, pctx>>

EvalSkip(c) ==
  /\ pc[c] = "prepared"
  /\ Ends(c, Bare("skipped"))
  /\ UNCHANGED <<planted, used>>

RunResource(c) ==
  /\ pc[c] = "prepared"
  /\ used' = [used EXCEPT ![c] = @ \cup {pctx[c].client}]
  /\ planted' = IF Plants(c) THEN planted \cup {c} ELSE planted
  /\ \E r \in Verdicts(c) \cup {Bare(kind) : kind \in Failures} : Ends(c, r)

----------------------------------------------------------------------------
Init ==
  /\ aggressive \in BOOLEAN
  /\ client = "nil"
  /\ fetched = FALSE
  /\ planted = {}
  /\ pc = [c \in Checks |-> IF c \in Adapters THEN "waiting" ELSE "context"]
  /\ running = Adapted
  /\ pctx = [c \in Adapters |-> [client |-> "nil", aggressive |-> FALSE]]
  /\ first = [c \in Adapters |-> NoResult]
  /\ used = [c \in Checks |-> {}]
  /\ report = [c \in Adapters |-> NoResult]

AdapterStep(c) ==
  Start(c) \/ Skip(c) \/ Prepare(c) \/ EvalSkip(c) \/ RunResource(c)

CheckStep(c) ==
  \/ ReadClient(c)
  \/ AssignClient(c)
  \/ c = "http_fetch" /\ Fetch
  \/ c = "tls_info" /\ DialTLS
  \/ c \in Senders /\ Send(c)
  \/ c \in Adapters /\ AdapterStep(c)

Next == \E c \in Checks : CheckStep(c)

Spec == Init /\ [][Next]_vars

----------------------------------------------------------------------------
(***************************************************************************)
(* Properties.                                                             *)
(***************************************************************************)

Clients == {"nil", "DefaultClient"}

\* Each check is at one of its steps, and has reported when, and only when,
\* it is an adapter that has ended (adapt.Run).
CachingTypeOK ==
  /\ aggressive \in BOOLEAN /\ fetched \in BOOLEAN
  /\ client \in Clients
  /\ planted \subseteq Adapters
  /\ pc \in [Checks -> {"waiting", "context", "assign", "ready", "prepared",
                        "done"}]
  /\ running \in [Adapters -> LibraryChecks \cup {"auth_cacheability"}]
  /\ pctx \in [Adapters -> [client : Clients, aggressive : BOOLEAN]]
  /\ first \in [Adapters -> Result]
  /\ used \in [Checks -> SUBSET Clients]
  /\ report \in [Adapters -> Result]
  /\ \A c \in Adapters :
       /\ pc[c] = "done" <=> report[c] # NoResult
       /\ \/ running[c] = Adapted[c]
          \/ Adapted[c] = "cacheability" /\ running[c] = "auth_cacheability"

\* However the unlocked reads and writes of ScanContext.HTTPClient fall,
\* every request of the scan goes through one client, and none through a nil
\* one, which the code dereferences (context.go: TargetContext).
OneClientForAll ==
  \A c, d \in Checks : \A a \in used[c], b \in used[d] : a = b /\ a # "nil"

\* Content is planted in the site's shared cache only in a scan started with
\* --aggressive, and only once the shared fetch has reached the target: the
\* flag reaches the library through the ScanContext and each run's ProbeCtx
\* (adapt.go: ProbeCtx, WithSkip).
PlantedOnlyOnRequest == planted # {} => aggressive /\ fetched

\* What authenticated_caching returns stands on the analysis of its own first
\* run: it flags a cacheable answer and no other, and never passes a first
\* run that failed, or a cacheable answer, for a clean one (check.go: Check).
VerdictStandsOnTheAnalysis ==
  \A c \in Adapters : Adapted[c] = "cacheability" =>
    /\ report[c].kind = "finding" => first[c].analysis = "cacheable"
    /\ report[c].kind = "clean" =>
         \/ first[c].kind = "skipped"
         \/ first[c].analysis \in {"uncacheable", "optedIn"}
    /\ first[c].kind \in Failures /\ report[c] # NoResult
         => report[c] = first[c]
=============================================================================
