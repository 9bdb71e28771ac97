---------------------------- MODULE ScanCommand ----------------------------
(***************************************************************************)
(* One invocation of `proxyaudit scan <url>`, from Execute (cmd/root.go)   *)
(* through cobra's hooks and the RunE of cmd/scan.go to the process's exit *)
(* code.  While pc = "scanning" the steps are those of the engine.         *)
(*                                                                         *)
(* cobra, telemetryx, cobrareportx, harnessreport and harnessx are outside *)
(* this repository: the outcomes RunE distinguishes are chosen freely.     *)
(***************************************************************************)
EXTENDS ScanEngine

VARIABLES
  pc,           \* where the invocation is: see Stages
  telemetry,    \* otelShutdown: off (nil), live (set), shut (called, nil)
  shutdowns,    \* how often telemetry's shutdown function was called
  sinks,        \* the report sinks: none, open, closed (cleanup ran)
  reportFailed, \* reportxReporter.Err() # nil
  found,        \* len(summary.Observations) > 0
  ret,          \* the error RunE (or cobra) returns
  code          \* the process's exit code, once exited

commandVars == <<telemetry, shutdowns, sinks, reportFailed,
                 found, ret, code>>
vars == <<engineVars, pc, commandVars>>

Stages == {"parse", "preRun", "lookup", "sinks", "flags", "scanning",
           "classify", "deferred", "postRun", "succeeded", "failed",
           "exited", "killed"}

\* Errors RunE wraps in RuntimeError.
RuntimeErrors == {"scanning", "reporting", "connecting"}
Errors == {"nil", "usage", "findings"} \cup RuntimeErrors

CommandTypeOK ==
  /\ EngineTypeOK
  /\ pc \in Stages
  /\ telemetry \in {"off", "live", "shut"}
  /\ shutdowns \in Nat
  /\ sinks \in {"none", "open", "closed"}
  /\ reportFailed \in BOOLEAN
  /\ found \in BOOLEAN
  /\ ret \in Errors
  /\ code \in 0..2

Init ==
  /\ EngineInit
  /\ pc = "parse"
  /\ telemetry = "off"
  /\ shutdowns = 0
  /\ sinks = "none"
  /\ reportFailed = FALSE
  /\ found = FALSE
  /\ ret = "nil"
  /\ code = 0

----------------------------------------------------------------------------
\* RunE (or cobra) returns error e to the stage to.
Return(e, to) == ret' = e /\ pc' = to

\* cobra parses the flags and checks ExactArgs(1); an error skips every hook.
ParseCommandLine ==
  /\ pc = "parse"
  /\ \/ Return("usage", "failed")
     \/ pc' = "preRun" /\ UNCHANGED ret
  /\ UNCHANGED <<engineVars, telemetry, shutdowns, sinks,
                 reportFailed, found, code>>

\* PersistentPreRun: otelShutdown is set, unless --sqa-opt-out is given or
\* telemetryx.New (whose error is dropped) returns none.
PersistentPreRun ==
  /\ pc = "preRun"
  /\ pc' = "lookup"
  /\ telemetry' \in {"off", "live"}
  /\ UNCHANGED <<engineVars, shutdowns, sinks, reportFailed,
                 found, ret, code>>

\* RunE: an --engine that engineNames does not hold is refused; what a known
\* one says is kept in the ScanContext, which no check reads it from.
LookupEngine ==
  /\ pc = "lookup"
  /\ \/ Return("usage", "failed")
     \/ pc' = "sinks" /\ UNCHANGED ret
  /\ UNCHANGED <<engineVars, telemetry, shutdowns, sinks,
                 reportFailed, found, code>>

\* RunE: the sinks are opened and their cleanup deferred.
OpenSinks ==
  /\ pc = "sinks"
  /\ \/ Return("usage", "failed") /\ UNCHANGED sinks
     \/ sinks' = "open" /\ pc' = "flags" /\ UNCHANGED ret
  /\ UNCHANGED <<engineVars, telemetry, shutdowns, reportFailed,
                 found, code>>

\* Mutant of ReadReportFlags: the cleanup is deferred after the flag is read.
ReadReportFlagsUndeferred ==
  /\ pc = "flags"
  /\ \/ Return("usage", "failed")
     \/ pc' = "scanning" /\ UNCHANGED ret
  /\ UNCHANGED <<engineVars, telemetry, shutdowns, sinks,
                 reportFailed, found, code>>

\* RunE: --show-all-findings is read; then the engine is built and run.
ReadReportFlags ==
  /\ pc = "flags"
  /\ \/ Return("usage", "deferred")
     \/ pc' = "scanning" /\ UNCHANGED ret
  /\ UNCHANGED <<engineVars, telemetry, shutdowns, sinks,
                 reportFailed, found, code>>

\* hxEngine.Run is under way: a step of the engine for check c.
ScanStart(c) ==
  /\ pc = "scanning"
  /\ Start(c)
  /\ UNCHANGED <<pc, commandVars>>

ScanRun(c) ==
  /\ pc = "scanning"
  /\ RunCheck(c)
  /\ UNCHANGED <<pc, commandVars>>

ScanAnswer(c) ==
  /\ pc = "scanning"
  /\ Answer(c)
  /\ UNCHANGED <<pc, commandVars>>

\* hxEngine.Run returns an error.
EngineFails ==
  /\ pc = "scanning"
  /\ Return("scanning", "deferred")
  /\ UNCHANGED <<engineVars, telemetry, shutdowns, sinks,
                 reportFailed, found, code>>

\* hxEngine.Run returns its summary, reported to every sink.  Whether the
\* library counts the observations of a Result that also carries Err is its
\* own affair.
EngineReturns ==
  /\ pc = "scanning"
  /\ AllFinished
  /\ pc' = "classify"
  /\ reportFailed' \in BOOLEAN
  /\ found' \in BOOLEAN
  /\ (observed \ errored # {}) => found'
  /\ found' => observed # {}
  /\ UNCHANGED <<engineVars, telemetry, shutdowns, sinks, ret,
                 code>>

\* Mutant of SharedFetchErr: Result.Err is read, which HTTPFetchCheck leaves
\* nil.
SharedResultErr == HTTPFetch \in errored

\* sharedFetchErr(summary): the error HTTPFetchCheck kept in its Data.
SharedFetchErr == fetched = "failed"

\* Mutant of Classify: findings are returned before the fetch is looked at.
ClassifyFindingsFirst ==
  /\ pc = "classify"
  /\ \/ reportFailed /\ Return("reporting", "deferred")
     \/ ~reportFailed /\ found /\ Return("findings", "deferred")
     \/ ~reportFailed /\ ~found /\ SharedFetchErr
          /\ Return("connecting", "deferred")
     \/ ~reportFailed /\ ~found /\ ~SharedFetchErr
          /\ Return("nil", "deferred")
  /\ UNCHANGED <<engineVars, telemetry, shutdowns, sinks,
                 reportFailed, found, code>>

\* The tail of RunE, in its order: a reporting error, then the shared fetch's
\* error, then findings, then success.
Classify ==
  /\ pc = "classify"
  /\ \/ reportFailed /\ Return("reporting", "deferred")
     \/ ~reportFailed /\ SharedFetchErr /\ Return("connecting", "deferred")
     \/ ~reportFailed /\ ~SharedFetchErr /\ found
          /\ Return("findings", "deferred")
     \/ ~reportFailed /\ ~SharedFetchErr /\ ~found
          /\ Return("nil", "deferred")
  /\ UNCHANGED <<engineVars, telemetry, shutdowns, sinks,
                 reportFailed, found, code>>

\* RunE's deferred cleanup, on every return after the sinks were opened.
RunDeferred ==
  /\ pc = "deferred"
  /\ sinks' = "closed"
  /\ pc' = IF ret = "nil" THEN "postRun" ELSE "failed"
  /\ UNCHANGED <<engineVars, telemetry, shutdowns, reportFailed,
                 found, ret, code>>

\* Mutant of ShutdownTelemetry: otelShutdown is not set to nil.
ShutdownTelemetryKept ==
  IF telemetry # "off"
    THEN telemetry' = "shut" /\ shutdowns' = shutdowns + 1
    ELSE UNCHANGED <<telemetry, shutdowns>>

\* if otelShutdown != nil { otelShutdown(...); otelShutdown = nil }
ShutdownTelemetry ==
  IF telemetry = "live"
    THEN telemetry' = "shut" /\ shutdowns' = shutdowns + 1
    ELSE UNCHANGED <<telemetry, shutdowns>>

\* cobra runs PersistentPostRun only when RunE returned nil.
PersistentPostRun ==
  /\ pc = "postRun"
  /\ ShutdownTelemetry
  /\ pc' = "succeeded"
  /\ UNCHANGED <<engineVars, sinks, reportFailed, found, ret,
                 code>>

\* Execute's deferred shutdown, reached only without os.Exit.
ExecuteSucceeds ==
  /\ pc = "succeeded"
  /\ ShutdownTelemetry
  /\ code' = 0
  /\ pc' = "exited"
  /\ UNCHANGED <<engineVars, sinks, reportFailed, found, ret>>

\* A RuntimeError exits 2, every other error 1.
ErrorCode(e) == IF e \in RuntimeErrors THEN 2 ELSE 1

\* Execute's error branch: shutdown now, because os.Exit runs no deferred
\* call.
ExecuteFails ==
  /\ pc = "failed"
  /\ ShutdownTelemetry
  /\ code' = ErrorCode(ret)
  /\ pc' = "exited"
  /\ UNCHANGED <<engineVars, sinks, reportFailed, found, ret>>

\* SIGINT or SIGTERM: no handler is installed, the process just ends.
Interrupt ==
  /\ pc \notin {"exited", "killed"}
  /\ pc' = "killed"
  /\ UNCHANGED <<engineVars, commandVars>>

TargetChanges == Flap /\ UNCHANGED <<pc, commandVars>>

----------------------------------------------------------------------------
CommandStep ==
  \/ ParseCommandLine \/ PersistentPreRun \/ LookupEngine \/ OpenSinks
  \/ ReadReportFlags \/ EngineReturns \/ Classify \/ RunDeferred
  \/ PersistentPostRun \/ ExecuteSucceeds \/ ExecuteFails

Scan == \E c \in Registered : ScanStart(c) \/ ScanRun(c) \/ ScanAnswer(c)

Next == CommandStep \/ Scan \/ EngineFails \/ Interrupt \/ TargetChanges

\* The command's own code is sequential and waits only in the scan, whose
\* checks the engine keeps running (see EngineFairness).
CommandFairness ==
  /\ WF_vars(CommandStep)
  /\ \A c \in Registered : WF_vars(ScanStart(c)) /\ WF_vars(ScanRun(c))

Spec == Init /\ [][Next]_vars /\ CommandFairness

----------------------------------------------------------------------------
(***************************************************************************)
(* Properties.                                                             *)
(***************************************************************************)

\* Whichever way the process ends by itself - PersistentPostRun, Execute's
\* deferred call or its error branch before os.Exit - telemetry that was
\* started has been shut down exactly once (root.go's three call sites).
TelemetryShutOnce ==
  /\ shutdowns <= 1
  /\ pc = "exited" => (shutdowns = 1 <=> telemetry # "off")
  /\ pc = "exited" => telemetry # "live"

\* os.Exit runs no deferred call, so RunE's cleanup of the report sinks must
\* already have run when Execute decides to exit.
SinksClosedBeforeExit ==
  pc \in {"failed", "postRun", "succeeded", "exited"} => sinks # "open"

\* Exit code 0 means "reached the target, found nothing", never "could not
\* look": every check has finished, the shared fetch got a response, no check
\* that ended without an error had observations, and the chain the handshake
\* saw, if any, is a trusted one - of an http:// target too, whose fetch does
\* not look at one.
CleanExitMeansReached ==
  (pc = "exited" /\ code = 0) =>
    /\ AllFinished
    /\ fetched \in Usable
    /\ observed \subseteq errored
    /\ "certificate" \in Registered => tlsInfo # "unverified"

\* The exit code is the promised function of what the run learned, on every
\* path through RunE, cobra's hooks and Execute.
Verdict == INSTANCE ExitVerdict WITH
  stage <- IF pc \in {"exited", "killed"} THEN pc ELSE "working",
  misused <- ret = "usage",
  failed <- ret = "scanning" \/ reportFailed \/ SharedFetchErr

VerdictSpec == Verdict!Spec

\* The command ends unless the target holds a request open forever: a client
\* without a timeout and a context without a deadline leave only a signal.
CommandEnds ==
  <>[](net # "stalled") => <>(pc \in {"exited", "killed"})
=============================================================================
