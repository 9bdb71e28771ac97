---------------------------- MODULE CachingProofs ----------------------------
(***************************************************************************)
(* Proofs about the caching checks, for every set of adapters and of other *)
(* checks that share the ScanContext with them.                            *)
(***************************************************************************)
EXTENDS CachingChecks, TLAPS

\* A check that has been through TargetContext finds the client filled in,
\* and nothing empties or replaces it afterwards.
ClientInv ==
  /\ \A c \in Checks : pc[c] \in {"ready", "prepared"} => client # "nil"
  /\ \A c \in Checks : used[c] \subseteq {"DefaultClient"}
  /\ \A c \in Adapters : pc[c] = "prepared" => pctx[c].client # "nil"

\* The shared fetch ended before any adapter started, and reached the target
\* if one is at work; a run's flag is the scan's.
PlantInv ==
  /\ \A c \in Adapters :
       /\ pc[c] # "waiting" => pc["http_fetch"] = "done"
       /\ pc[c] \notin {"waiting", "done"} => fetched
       /\ pc[c] = "prepared" => pctx[c].aggressive = aggressive
  /\ planted # {} => aggressive /\ fetched /\ pc["http_fetch"] = "done"

\* What a second run is started on: a first run that was skipped, or one
\* that left an analysis.
SeededBy(r) == \/ r.kind = "skipped"
               \/ r.kind = "clean" /\ r.analysis \in Analyses

ChainInv ==
  /\ \A c \in Adapters :
       /\ running[c] = "auth_cacheability" => SeededBy(first[c])
       /\ running[c] = "cacheability" /\ pc[c] # "done"
            => first[c] = NoResult
  /\ VerdictStandsOnTheAnalysis

CachingInv == CachingTypeOK /\ ClientInv /\ PlantInv /\ ChainInv

\* The sets of checks do not overlap.
LEMMA ChecksApart ==
  /\ "http_fetch" \in Checks /\ "tls_info" \in Checks
  /\ "http_fetch" \notin Adapters /\ "tls_info" \notin Adapters
  /\ \A c \in Adapters : c \in Checks
  /\ \A c \in Senders : c \in Checks /\ c \notin Adapters /\ c \notin Probes
BY ChecksAssumption DEF Checks, Probes

\* Every outcome of a run is a Result, and never the absent one.
LEMMA OutcomesAreResults ==
  ASSUME NEW c, NEW r \in Verdicts(c) \cup {Bare(kind) : kind \in Failures}
                            \cup {Bare("skipped")}
  PROVE  r \in Result /\ r # NoResult
BY DEF Verdicts, Bare, Failures, Judged, Result, NoResult, Analyses

\* How a run ends: the adapter goes on to its second one, or returns.
LEMMA HowRunsEnd ==
  ASSUME CachingTypeOK, NEW c \in Adapters, NEW r \in Result, r # NoResult,
         Ends(c, r)
  PROVE  /\ UNCHANGED <<aggressive, client, fetched, pctx>>
         /\ first' = IF running[c] = "cacheability"
                       THEN [first EXCEPT ![c] = r] ELSE first
         /\ \/ /\ running[c] = "cacheability" /\ r.kind \notin Failures
               /\ running' = [running EXCEPT ![c] = "auth_cacheability"]
               /\ pc' = [pc EXCEPT ![c] = "context"]
               /\ report' = report
            \/ /\ running[c] # "cacheability" \/ r.kind \in Failures
               /\ running' = running
               /\ pc' = [pc EXCEPT ![c] = "done"]
               /\ report' = [report EXCEPT ![c] = r]
BY DEF Ends, Chains, NextRun, Return, sctxVars

----------------------------------------------------------------------------
\* The invariant holds when the scan starts.
LEMMA CachingInitInv == Init => CachingInv
<1> SUFFICES ASSUME Init PROVE CachingInv
  OBVIOUS
<1> USE ChecksApart
<1>1. CachingTypeOK
  BY AdaptedAssumption
  DEF Init, CachingTypeOK, Clients, Result, NoResult
<1>2. ClientInv /\ PlantInv
  BY DEF Init, ClientInv, PlantInv
<1>3. ChainInv
  BY AdaptedAssumption
  DEF Init, ChainInv, VerdictStandsOnTheAnalysis, NoResult, Failures,
      LibraryChecks
<1>. QED
  BY <1>1, <1>2, <1>3 DEF CachingInv

\* A step of an adapter that ends one of its runs keeps the types.
LEMMA EndsType ==
  ASSUME CachingTypeOK, NEW c \in Adapters, NEW r \in Result, r # NoResult,
         pc[c] = "prepared", Ends(c, r),
         planted' \subseteq Adapters, used' \in [Checks -> SUBSET Clients]
  PROVE  CachingTypeOK'
<1> USE ChecksApart
<1>0. /\ UNCHANGED <<aggressive, client, fetched, pctx>>
      /\ first' = IF running[c] = "cacheability"
                    THEN [first EXCEPT ![c] = r] ELSE first
      /\ \/ /\ running[c] = "cacheability"
            /\ running' = [running EXCEPT ![c] = "auth_cacheability"]
            /\ pc' = [pc EXCEPT ![c] = "context"]
            /\ report' = report
         \/ /\ running' = running
            /\ pc' = [pc EXCEPT ![c] = "done"]
            /\ report' = [report EXCEPT ![c] = r]
  BY HowRunsEnd
<1>1. /\ first' \in [Adapters -> Result]
      /\ running' \in [Adapters -> LibraryChecks \cup {"auth_cacheability"}]
      /\ report' \in [Adapters -> Result]
      /\ pc' \in [Checks -> {"waiting", "context", "assign", "ready",
                             "prepared", "done"}]
  <2>1. pc[c] # "done" /\ c \in Checks
    OBVIOUS
  <2>. QED
    BY <1>0, <2>1 DEF CachingTypeOK
<1>2. ASSUME NEW d \in Adapters
      PROVE  /\ pc'[d] = "done" <=> report'[d] # NoResult
             /\ \/ running'[d] = Adapted[d]
                \/ Adapted[d] = "cacheability"
                     /\ running'[d] = "auth_cacheability"
  BY <1>0 DEF CachingTypeOK
<1>. QED
  BY <1>0, <1>1, <1>2 DEF CachingTypeOK

\* Every step of every check keeps the types.
LEMMA TypeNext ==
  ASSUME CachingTypeOK, NEW c \in Checks, CheckStep(c)
  PROVE  CachingTypeOK'
<1> USE ChecksApart DEF sctxVars, runVars
<1>1. CASE ReadClient(c)
  BY <1>1 DEF ReadClient, CachingTypeOK
<1>2. CASE AssignClient(c)
  BY <1>2 DEF AssignClient, CachingTypeOK, Clients
<1>3. CASE c = "http_fetch" /\ Fetch
  BY <1>3 DEF Fetch, CachingTypeOK
<1>4. CASE c = "tls_info" /\ DialTLS
  BY <1>4 DEF DialTLS, CachingTypeOK
<1>5. CASE c \in Senders /\ Send(c)
  BY <1>5 DEF Send, CachingTypeOK
<1>6. CASE c \in Adapters /\ Start(c)
  BY <1>6 DEF Start, CachingTypeOK
<1>7. CASE c \in Adapters /\ Skip(c)
  <2>1. Bare("skipped") \in Result /\ Bare("skipped") # NoResult
    BY OutcomesAreResults
  <2>. QED
    BY <1>7, <2>1 DEF Skip, CachingTypeOK
<1>8. CASE c \in Adapters /\ Prepare(c)
  BY <1>8 DEF Prepare, ProbeCtx, CachingTypeOK
<1>9. CASE c \in Adapters /\ EvalSkip(c)
  <2>1. Bare("skipped") \in Result /\ Bare("skipped") # NoResult
    BY OutcomesAreResults
  <2>. QED
    BY <1>9, <2>1, EndsType DEF EvalSkip, CachingTypeOK
<1>10. CASE c \in Adapters /\ RunResource(c)
  <2>1. PICK r \in Verdicts(c) \cup {Bare(kind) : kind \in Failures} :
          Ends(c, r)
    BY <1>10 DEF RunResource
  <2>2. r \in Result /\ r # NoResult
    BY OutcomesAreResults
  <2>3. planted' \subseteq Adapters /\ used' \in [Checks -> SUBSET Clients]
    BY <1>10 DEF RunResource, CachingTypeOK
  <2>. QED
    BY <1>10, <2>1, <2>2, <2>3, EndsType DEF RunResource
<1>. QED
  BY <1>1, <1>2, <1>3, <1>4, <1>5, <1>6, <1>7, <1>8, <1>9, <1>10
  DEF CheckStep, AdapterStep

----------------------------------------------------------------------------
\* What an adapter's run has done when it ends, in either of its ways.
LEMMA HowRunsWork ==
  ASSUME CachingTypeOK, NEW c \in Adapters, EvalSkip(c) \/ RunResource(c)
  PROVE  /\ pc[c] = "prepared"
         /\ UNCHANGED <<aggressive, client, fetched, pctx>>
         /\ pc' \in {[pc EXCEPT ![c] = "context"], [pc EXCEPT ![c] = "done"]}
         /\ used' \in {used, [used EXCEPT ![c] = @ \cup {pctx[c].client}]}
         /\ planted' = planted
              \/ (Plants(c) /\ planted' = planted \cup {c})
         /\ \E r \in Verdicts(c) \cup {Bare(kind) : kind \in Failures}
                       \cup {Bare("skipped")} : Ends(c, r)
<1>1. PICK r \in Verdicts(c) \cup {Bare(kind) : kind \in Failures}
                   \cup {Bare("skipped")} : Ends(c, r)
  BY DEF EvalSkip, RunResource
<1>2. r \in Result /\ r # NoResult
  BY OutcomesAreResults
<1>3. /\ UNCHANGED <<aggressive, client, fetched, pctx>>
      /\ pc' \in {[pc EXCEPT ![c] = "context"], [pc EXCEPT ![c] = "done"]}
  BY <1>1, <1>2, HowRunsEnd
<1>. QED
  BY <1>1, <1>3 DEF EvalSkip, RunResource

\* No interleaving of the unlocked reads and writes leaves a check that is
\* about to send with an empty client, or gives two checks different ones.
LEMMA ClientNext ==
  ASSUME CachingTypeOK, ClientInv, NEW c \in Checks, CheckStep(c)
  PROVE  ClientInv'
<1> USE ChecksApart DEF sctxVars, runVars
<1>1. CASE ReadClient(c)
  BY <1>1 DEF ReadClient, CachingTypeOK, ClientInv
<1>2. CASE AssignClient(c)
  BY <1>2 DEF AssignClient, CachingTypeOK, ClientInv
<1>3. ASSUME /\ pc[c] = "ready"
             /\ used' = [used EXCEPT ![c] = @ \cup {client}]
             /\ pc' \in {pc, [pc EXCEPT ![c] = "done"]}
             /\ UNCHANGED <<client, pctx>>
      PROVE  ClientInv'
  BY <1>3 DEF CachingTypeOK, ClientInv, Clients
<1>4. CASE c = "http_fetch" /\ Fetch
  BY <1>3, <1>4 DEF Fetch
<1>5. CASE c \in Senders /\ Send(c)
  BY <1>3, <1>5 DEF Send
<1>6. ASSUME /\ UNCHANGED <<client, pctx, used>>
             /\ \/ pc' = [pc EXCEPT ![c] = "done"]
                \/ pc' = [pc EXCEPT ![c] = "context"]
      PROVE  ClientInv'
  BY <1>6 DEF CachingTypeOK, ClientInv
<1>7. CASE c = "tls_info" /\ DialTLS
  BY <1>6, <1>7 DEF DialTLS
<1>8. CASE c \in Adapters /\ (Start(c) \/ Skip(c))
  BY <1>6, <1>8 DEF Start, Skip
<1>9. CASE c \in Adapters /\ Prepare(c)
  <2>1. /\ UNCHANGED <<client, used>>
        /\ pc' = [pc EXCEPT ![c] = "prepared"] /\ pc[c] = "ready"
        /\ pctx' = [pctx EXCEPT
                      ![c] = [client |-> client, aggressive |-> aggressive]]
    BY <1>9 DEF Prepare, ProbeCtx
  <2>. QED
    BY <1>9, <2>1 DEF CachingTypeOK, ClientInv
<1>10. CASE c \in Adapters /\ (EvalSkip(c) \/ RunResource(c))
  <2>1. /\ pc[c] = "prepared" /\ UNCHANGED <<client, pctx>>
        /\ pc' \in {[pc EXCEPT ![c] = "context"], [pc EXCEPT ![c] = "done"]}
        /\ used' \in {used, [used EXCEPT ![c] = @ \cup {pctx[c].client}]}
    BY <1>10, HowRunsWork
  <2>2. pctx[c].client = "DefaultClient"
    BY <1>10, <2>1 DEF CachingTypeOK, ClientInv, Clients
  <2>. QED
    BY <1>10, <2>1, <2>2 DEF CachingTypeOK, ClientInv
<1>. QED
  BY <1>1, <1>2, <1>4, <1>5, <1>7, <1>8, <1>9, <1>10
  DEF CheckStep, AdapterStep

\* The flag a run decides by is the scan's, and no run starts before the
\* shared fetch has reached the target.
LEMMA PlantNext ==
  ASSUME CachingTypeOK, PlantInv, NEW c \in Checks, CheckStep(c)
  PROVE  PlantInv'
<1> USE ChecksApart DEF sctxVars, runVars
<1>1. ASSUME UNCHANGED <<aggressive, fetched, planted, pctx>>,
             \/ pc' = pc
             \/ /\ pc[c] # "waiting" /\ c # "http_fetch"
                /\ \E s \in {"context", "assign", "ready", "done"} :
                     /\ pc' = [pc EXCEPT ![c] = s]
                     /\ s # "done" /\ c \in Adapters => pc[c] # "done"
             \/ /\ c = "http_fetch" /\ pc[c] # "done"
                /\ \E s \in {"assign", "ready"} : pc' = [pc EXCEPT ![c] = s]
      PROVE  PlantInv'
  BY <1>1 DEF CachingTypeOK, PlantInv
<1>2. CASE ReadClient(c) \/ AssignClient(c)
  <2>1. /\ UNCHANGED <<aggressive, fetched, planted, pctx>>
        /\ pc[c] \in {"context", "assign"}
        /\ \E s \in {"assign", "ready"} : pc' = [pc EXCEPT ![c] = s]
    BY <1>2 DEF ReadClient, AssignClient
  <2>. QED
    BY <1>1, <2>1
<1>3. CASE c = "http_fetch" /\ Fetch
  BY <1>3 DEF Fetch, CachingTypeOK, PlantInv
<1>4. CASE c = "tls_info" /\ DialTLS
  BY <1>1, <1>4 DEF DialTLS
<1>5. CASE c \in Senders /\ Send(c)
  <2>1. c # "http_fetch"
    BY <1>5 DEF Probes
  <2>. QED
    BY <1>1, <1>5, <2>1 DEF Send
<1>6. CASE c \in Adapters /\ (Start(c) \/ Skip(c))
  BY <1>6 DEF Start, Skip, CachingTypeOK, PlantInv
<1>7. CASE c \in Adapters /\ Prepare(c)
  BY <1>7 DEF Prepare, ProbeCtx, CachingTypeOK, PlantInv
<1>8. CASE c \in Adapters /\ (EvalSkip(c) \/ RunResource(c))
  <2>1. /\ pc[c] = "prepared" /\ UNCHANGED <<aggressive, fetched, pctx>>
        /\ pc' \in {[pc EXCEPT ![c] = "context"], [pc EXCEPT ![c] = "done"]}
        /\ planted' = planted \/ (Plants(c) /\ planted' = planted \cup {c})
    BY <1>8, HowRunsWork
  <2>2. Plants(c) => aggressive /\ fetched /\ pc["http_fetch"] = "done"
    BY <1>8, <2>1 DEF Plants, PlantInv
  <2>. QED
    BY <1>8, <2>1, <2>2 DEF CachingTypeOK, PlantInv
<1>. QED
  BY <1>2, <1>3, <1>4, <1>5, <1>6, <1>7, <1>8 DEF CheckStep, AdapterStep

\* The verdict of a step that touches neither the runs nor the reports.
LEMMA ChainFrame ==
  ASSUME ChainInv, UNCHANGED <<running, first, report>>,
         \A d \in Adapters : pc'[d] # "done" => pc[d] # "done"
  PROVE  ChainInv'
BY DEF ChainInv, VerdictStandsOnTheAnalysis

\* What the library makes of a run: AuthCheck flags the cacheable analysis
\* its store was seeded with, and passes any other.
LEMMA AuthJudgesTheSeed ==
  ASSUME NEW c \in Adapters, running[c] = "auth_cacheability",
         NEW r \in Verdicts(c) \cup {Bare(kind) : kind \in Failures}
                     \cup {Bare("skipped")}
  PROVE  /\ r.kind = "finding" => first[c].analysis = "cacheable"
         /\ r.kind = "clean" => first[c].analysis # "cacheable"
BY DEF Verdicts, Dependency, Bare, Failures, NoResult

\* What a first run leaves, unless it failed.
LEMMA FirstRunSeeds ==
  ASSUME NEW c \in Adapters, running[c] = "cacheability",
         NEW r \in Verdicts(c) \cup {Bare(kind) : kind \in Failures}
                     \cup {Bare("skipped")},
         r.kind \notin Failures
  PROVE  SeededBy(r)
BY DEF Verdicts, Bare, Failures, NoResult, SeededBy

\* A second run is started on a first that was skipped or left an analysis,
\* and on no other; so every verdict stands on the analysis before it.
LEMMA ChainNext ==
  ASSUME CachingTypeOK, ChainInv, NEW c \in Checks, CheckStep(c)
  PROVE  ChainInv'
<1> USE ChecksApart DEF runVars
<1>1. CASE \/ ReadClient(c) \/ AssignClient(c)
           \/ c = "http_fetch" /\ Fetch
           \/ c = "tls_info" /\ DialTLS
           \/ c \in Senders /\ Send(c)
           \/ c \in Adapters /\ (Start(c) \/ Prepare(c))
  <2>1. UNCHANGED <<running, first, report>>
    BY <1>1 DEF ReadClient, AssignClient, Fetch, DialTLS, Send, Start, Prepare
  <2>2. \A d \in Adapters : pc'[d] # "done" => pc[d] # "done"
    BY <1>1
    DEF ReadClient, AssignClient, Fetch, DialTLS, Send, Start, Prepare,
        CachingTypeOK
  <2>. QED
    BY <2>1, <2>2, ChainFrame
<1>2. CASE c \in Adapters /\ Skip(c)
  <2>1. /\ pc[c] = "waiting" /\ pc' = [pc EXCEPT ![c] = "done"]
        /\ report' = [report EXCEPT ![c] = Bare("skipped")]
        /\ UNCHANGED <<running, first>>
    BY <1>2 DEF Skip
  <2>2. /\ Bare("skipped").kind = "skipped"
        /\ NoResult.kind = "none" /\ "none" \notin Failures
        /\ "skipped" \notin Failures /\ "clean" \notin Failures
    BY DEF Bare, NoResult, Failures
  <2>3. Adapted[c] = "cacheability" => first[c].kind \notin Failures
    BY <1>2, <2>1, <2>2 DEF CachingTypeOK, ChainInv, SeededBy
  <2>4. VerdictStandsOnTheAnalysis'
    BY <1>2, <2>1, <2>2, <2>3
    DEF CachingTypeOK, ChainInv, VerdictStandsOnTheAnalysis
  <2>. QED
    BY <1>2, <2>1, <2>4 DEF CachingTypeOK, ChainInv
<1>3. CASE c \in Adapters /\ (EvalSkip(c) \/ RunResource(c))
  <2> DEFINE Outcomes == Verdicts(c) \cup {Bare(kind) : kind \in Failures}
                           \cup {Bare("skipped")}
  <2>1. pc[c] = "prepared" /\ \E r \in Outcomes : Ends(c, r)
    BY <1>3, HowRunsWork
  <2>2. PICK r \in Outcomes : Ends(c, r)
    BY <2>1
  <2>3. r \in Result /\ r # NoResult
    BY OutcomesAreResults
  <2>4. /\ first' = IF running[c] = "cacheability"
                      THEN [first EXCEPT ![c] = r] ELSE first
        /\ \/ /\ running[c] = "cacheability" /\ r.kind \notin Failures
              /\ running' = [running EXCEPT ![c] = "auth_cacheability"]
              /\ pc' = [pc EXCEPT ![c] = "context"]
              /\ report' = report
           \/ /\ running[c] # "cacheability" \/ r.kind \in Failures
              /\ running' = running
              /\ pc' = [pc EXCEPT ![c] = "done"]
              /\ report' = [report EXCEPT ![c] = r]
    BY <1>3, <2>2, <2>3, HowRunsEnd
  <2>5. \A d \in Adapters \ {c} :
          /\ running'[d] = running[d] /\ first'[d] = first[d]
          /\ report'[d] = report[d] /\ pc'[d] = pc[d]
    BY <2>4 DEF CachingTypeOK
  <2>6. CASE running[c] = "cacheability" /\ r.kind \notin Failures
    <3>1. /\ first'[c] = r /\ running'[c] = "auth_cacheability"
          /\ report'[c] = NoResult /\ SeededBy(r)
      BY <1>3, <2>1, <2>4, <2>6, FirstRunSeeds DEF CachingTypeOK
    <3>2. NoResult.kind = "none"
      BY DEF NoResult
    <3>. QED
      BY <2>5, <3>1, <3>2 DEF ChainInv, VerdictStandsOnTheAnalysis
  <2>7. CASE running[c] = "cacheability" /\ r.kind \in Failures
    <3>1. /\ first'[c] = r /\ running'[c] = "cacheability"
          /\ report'[c] = r /\ pc'[c] = "done"
      BY <1>3, <2>1, <2>4, <2>7 DEF CachingTypeOK
    <3>2. r.kind # "finding" /\ r.kind # "clean"
      BY <2>7 DEF Failures
    <3>. QED
      BY <2>5, <3>1, <3>2 DEF ChainInv, VerdictStandsOnTheAnalysis
  <2>8. CASE running[c] # "cacheability"
    <3>1. /\ first' = first /\ running' = running
          /\ report'[c] = r /\ pc'[c] = "done"
      BY <1>3, <2>1, <2>4, <2>8 DEF CachingTypeOK
    <3>2. Adapted[c] = "cacheability" =>
            /\ r.kind = "finding" => first[c].analysis = "cacheable"
            /\ r.kind = "clean" => first[c].analysis # "cacheable"
            /\ SeededBy(first[c])
      BY <1>3, <2>8, AuthJudgesTheSeed DEF CachingTypeOK, ChainInv
    <3>3. Adapted[c] = "cacheability" => first[c].kind \notin Failures
      BY <3>2 DEF SeededBy, Failures
    <3>. QED
      BY <2>5, <3>1, <3>2, <3>3
      DEF ChainInv, VerdictStandsOnTheAnalysis, SeededBy, Analyses
  <2>. QED
    BY <2>6, <2>7, <2>8
<1>. QED
  BY <1>1, <1>2, <1>3 DEF CheckStep, AdapterStep

----------------------------------------------------------------------------
\* Every step of the scan keeps the invariant.
LEMMA CachingNextInv == CachingInv /\ [Next]_vars => CachingInv'
<1> SUFFICES ASSUME CachingInv, [Next]_vars PROVE CachingInv'
  OBVIOUS
<1>1. ASSUME NEW c \in Checks, CheckStep(c) PROVE CachingInv'
  BY <1>1, TypeNext, ClientNext, PlantNext, ChainNext DEF CachingInv
<1>2. CASE UNCHANGED vars
  BY <1>2
  DEF vars, sctxVars, runVars, CachingInv, CachingTypeOK, ClientInv, PlantInv,
      ChainInv, VerdictStandsOnTheAnalysis
<1>. QED
  BY <1>1, <1>2 DEF Next

\* The invariant holds in every scan.
LEMMA CachingInvariant == Spec => []CachingInv
  BY CachingInitInv, CachingNextInv, PTL DEF Spec

\* The variables keep their types, and a check has reported exactly when it
\* has ended.
THEOREM CachingTypeCorrect == Spec => []CachingTypeOK
<1>1. CachingInv => CachingTypeOK
  BY DEF CachingInv
<1>. QED
  BY <1>1, CachingInvariant, PTL

\* However many checks race for ScanContext.HTTPClient, all requests go
\* through one client and none through a nil one.
THEOREM OneClientForEveryCheck == Spec => []OneClientForAll
<1>1. CachingInv => OneClientForAll
  BY DEF CachingInv, ClientInv, OneClientForAll
<1>. QED
  BY <1>1, CachingInvariant, PTL

\* Whatever adapters are registered, nothing is planted in a cache without
\* --aggressive, or before the target was reached.
THEOREM NothingIsPlantedUnasked == Spec => []PlantedOnlyOnRequest
<1>1. CachingInv => PlantedOnlyOnRequest
  BY DEF CachingInv, PlantInv, PlantedOnlyOnRequest
<1>. QED
  BY <1>1, CachingInvariant, PTL

\* Every verdict of a chained check stands on its own first run's analysis,
\* whatever the library answers and wherever it fails.
THEOREM VerdictsStandOnTheAnalysis == Spec => []VerdictStandsOnTheAnalysis
<1>1. CachingInv => VerdictStandsOnTheAnalysis
  BY DEF CachingInv, ChainInv
<1>. QED
  BY <1>1, CachingInvariant, PTL

\* A check that has found the client non-nil can rely on it: no step of any
\* check empties or replaces it, the late writers of the race included.
THEOREM ClientStays == Spec => [][client # "nil" => client' = client]_vars
<1>1. CachingInv /\ [Next]_vars => [client # "nil" => client' = client]_vars
  <2> SUFFICES ASSUME CachingInv, NEW c \in Checks, CheckStep(c),
                      client # "nil"
               PROVE  client' = client
    BY DEF Next
  <2>1. client = "DefaultClient"
    BY DEF CachingInv, CachingTypeOK, Clients
  <2>. QED
    BY <2>1, HowRunsWork
    DEF CachingInv, CheckStep, AdapterStep, ReadClient, AssignClient, Fetch,
        DialTLS, Send, Start, Skip, Prepare, sctxVars
<1>. QED
  BY <1>1, CachingInvariant, PTL DEF Spec
=============================================================================
