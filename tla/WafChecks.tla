----------------------------- MODULE WafChecks -----------------------------
(***************************************************************************)
(* baseline_payloads, encoding_bypass and content_type_consistency: three  *)
(* checks that run side by side against one site and judge, each from its  *)
(* own benign control request, which attack payloads its filter rejects.   *)
(* They share no data, but their reports are read together.                *)
(*                                                                         *)
(* The site filters by a fixed policy.  It also limits the rate of         *)
(* requests, as a filter does that has just met a burst of attack strings: *)
(* while it is throttling, it answers 429 whatever is asked.               *)
(***************************************************************************)
EXTENDS Naturals, FiniteSets

CONSTANTS
  NP,       \* WAFPayloads, numbered in their order
  NB,       \* deliveries in a request body; delivery 0 is the query string
  NT,       \* techniques of EncodingVariants
  Answers,  \* the answers of the site's policy, among AllAnswers
  MaxFlips  \* bound on how often the site starts or stops throttling

\* 200; a backend error (500); 403; 429; a dropped connection.
AllAnswers == {"ok", "fault", "forbidden", "limited", "dropped"}

ASSUME PayloadAssumption == NP \in Nat \ {0} /\ NB \in Nat /\ NT \in Nat \ {0}
ASSUME PolicyAssumption == Answers \subseteq AllAnswers
ASSUME FlipsAssumption == MaxFlips \in Nat

Payloads == 1..NP
Query == 0
Deliveries == 0..NB
Techniques == 1..NT

VARIABLES
  target,    \* the target URL: see Targets
  benign,    \* the site's answer to WAFBenignValue, per delivery
  attack,    \* ... to a payload, per delivery
  variant,   \* ... to a payload re-encoded in the query, per technique
  throttled, \* the site is answering 429
  flips,     \* how often throttled has changed
  base,      \* baseline_payloads: where it is and what it has
  enc,       \* encoding_bypass
  cons       \* content_type_consistency

siteVars == <<target, benign, attack, variant, throttled, flips>>
vars == <<siteVars, base, enc, cons>>

\* The URL's first query parameter, which WAFParamFor takes over unescaped:
\* none or a plain name; one that holds a "#" (escaped in the URL, no longer
\* so in the query string of the probes); or a URL that does not parse.
Targets == {"plain", "hash", "malformed"}

Results == {"running", "returned", "skipped", "error"}

WafTypeOK ==
  /\ target \in Targets
  /\ benign \in [Deliveries -> Answers]
  /\ attack \in [Payloads -> [Deliveries -> Answers]]
  /\ variant \in [Payloads -> [Techniques -> Answers]]
  /\ throttled \in BOOLEAN
  /\ flips \in 0..MaxFlips
  /\ base \in [at : 0..(NP + 1), control : AllAnswers \cup {"none"},
               passed : SUBSET [payload : Payloads],
               blockedAny : BOOLEAN, result : Results]
  /\ enc \in [at : 0..(NP + 1), technique : 0..NT,
              control : AllAnswers \cup {"none"},
              found : SUBSET [payload : Payloads, technique : Techniques],
              result : Results]
  /\ cons \in [at : 1..(NP + 1),
               controls : [Deliveries -> AllAnswers \cup {"none"}],
               blocked : SUBSET Deliveries, passed : SUBSET Deliveries,
               found : SUBSET [payload : Payloads,
                               blocked : SUBSET Deliveries,
                               passed : SUBSET Deliveries],
               result : Results]

Init ==
  /\ target \in Targets
  /\ benign \in [Deliveries -> Answers]
  /\ attack \in [Payloads -> [Deliveries -> Answers]]
  /\ variant \in [Payloads -> [Techniques -> Answers]]
  /\ throttled \in BOOLEAN
  /\ flips = 0
  /\ base = [at |-> 0, control |-> "none", passed |-> {},
             blockedAny |-> FALSE, result |-> "running"]
  /\ enc = [at |-> 0, technique |-> 0, control |-> "none", found |-> {},
            result |-> "running"]
  /\ cons = [at |-> 1, controls |-> [d \in Deliveries |-> "none"],
             blocked |-> {}, passed |-> {}, found |-> {},
             result |-> "running"]

----------------------------------------------------------------------------
(***************************************************************************)
(* The site's answers to ProbeWAF.  In the query string of a "hash" target *)
(* everything from the "#" on, the value included, is a fragment, which is *)
(* not sent: the site sees the same request whatever the value.            *)
(***************************************************************************)
Policy(p, d) == IF d = Query /\ target = "hash" THEN benign[Query]
                                                ELSE attack[p][d]
VariantPolicy(p, t) == IF target = "hash" THEN benign[Query]
                                          ELSE variant[p][t]

Served(answer) == IF throttled THEN "limited" ELSE answer

\* Mutant of wafBlockStatuses: 429 is left out.
wafBlockStatusesWithout429 == {"forbidden"}

wafBlockStatuses == {"forbidden", "limited"}

Rejections == wafBlockStatuses \cup {"dropped"}

WAFControlUsable(control) ==
  control # "dropped" /\ control \notin wafBlockStatuses

WAFBlocked(control, probe) ==
  \/ probe = "dropped"
  \/ probe # control /\ probe \in wafBlockStatuses

----------------------------------------------------------------------------
(***************************************************************************)
(* baseline_payloads.                                                      *)
(***************************************************************************)

\* The benign control: a target URL that does not parse is Result.Err, a
\* control that is itself rejected skips the check.
BaselineControl ==
  /\ base.result = "running" /\ base.at = 0
  /\ LET control == Served(benign[Query])
     IN \/ /\ target = "malformed"
           /\ base' = [base EXCEPT !.result = "error"]
        \/ /\ target # "malformed" /\ ~WAFControlUsable(control)
           /\ base' = [base EXCEPT !.result = "skipped"]
        \/ /\ target # "malformed" /\ WAFControlUsable(control)
           /\ base' = [base EXCEPT !.at = 1, !.control = control]
  /\ UNCHANGED <<siteVars, enc, cons>>

\* Mutant of BaselinePayload: blockedAny tells of the last payload only.
BaselinePayloadLast ==
  /\ base.result = "running" /\ base.at \in Payloads
  /\ LET probe == Served(Policy(base.at, Query))
         stopped == WAFBlocked(base.control, probe)
     IN base' = [base EXCEPT
          !.at = @ + 1, !.blockedAny = stopped,
          !.passed = IF stopped THEN @
                     ELSE @ \cup {[payload |-> base.at]}]
  /\ UNCHANGED <<siteVars, enc, cons>>

\* The next payload, in the query string.
BaselinePayload ==
  /\ base.result = "running" /\ base.at \in Payloads
  /\ LET probe == Served(Policy(base.at, Query))
     IN \/ /\ WAFBlocked(base.control, probe)
           /\ base' = [base EXCEPT !.at = @ + 1, !.blockedAny = TRUE]
        \/ /\ ~WAFBlocked(base.control, probe)
           /\ base' = [base EXCEPT
                !.at = @ + 1,
                !.passed = @ \cup {[payload |-> base.at]}]
  /\ UNCHANGED <<siteVars, enc, cons>>

\* One observation per category of passed, worded by blockedAny.
BaselineReturns ==
  /\ base.result = "running" /\ base.at = NP + 1
  /\ base' = [base EXCEPT !.result = "returned"]
  /\ UNCHANGED <<siteVars, enc, cons>>

----------------------------------------------------------------------------
(***************************************************************************)
(* encoding_bypass.                                                        *)
(***************************************************************************)
EncodingControl ==
  /\ enc.result = "running" /\ enc.at = 0
  /\ LET control == Served(benign[Query])
     IN \/ /\ target = "malformed"
           /\ enc' = [enc EXCEPT !.result = "error"]
        \/ /\ target # "malformed" /\ ~WAFControlUsable(control)
           /\ enc' = [enc EXCEPT !.result = "skipped"]
        \/ /\ target # "malformed" /\ WAFControlUsable(control)
           /\ enc' = [enc EXCEPT !.at = 1, !.control = control]
  /\ UNCHANGED <<siteVars, base, cons>>

\* Mutant of EncodingPlain: the payload's plain form is not tried.
EncodingPlainUntried ==
  /\ enc.result = "running" /\ enc.at \in Payloads /\ enc.technique = 0
  /\ enc' = [enc EXCEPT !.technique = 1]
  /\ UNCHANGED <<siteVars, base, cons>>

\* The plain payload: if it is not blocked there is nothing to bypass.
EncodingPlain ==
  /\ enc.result = "running" /\ enc.at \in Payloads /\ enc.technique = 0
  /\ LET probe == Served(Policy(enc.at, Query))
     IN \/ /\ WAFBlocked(enc.control, probe)
           /\ enc' = [enc EXCEPT !.technique = 1]
        \/ /\ ~WAFBlocked(enc.control, probe)
           /\ enc' = [enc EXCEPT !.at = @ + 1]
  /\ UNCHANGED <<siteVars, base, cons>>

LastTechnique == NT

\* The next variant: the first that gets through is the payload's finding.
EncodingVariant ==
  /\ enc.result = "running" /\ enc.at \in Payloads /\ enc.technique # 0
  /\ LET blocked == WAFBlocked(enc.control,
                               Served(VariantPolicy(enc.at, enc.technique)))
     IN \/ /\ blocked /\ enc.technique < LastTechnique
           /\ enc' = [enc EXCEPT !.technique = @ + 1]
        \/ /\ blocked /\ enc.technique = LastTechnique
           /\ enc' = [enc EXCEPT !.at = @ + 1, !.technique = 0]
        \/ /\ ~blocked
           /\ enc' = [enc EXCEPT
                !.at = @ + 1, !.technique = 0,
                !.found = @ \cup {[payload |-> enc.at,
                                   technique |-> enc.technique]}]
  /\ UNCHANGED <<siteVars, base, cons>>

EncodingReturns ==
  /\ enc.result = "running" /\ enc.at = NP + 1
  /\ enc' = [enc EXCEPT !.result = "returned"]
  /\ UNCHANGED <<siteVars, base, cons>>

----------------------------------------------------------------------------
(***************************************************************************)
(* content_type_consistency.                                               *)
(***************************************************************************)
\* The least member of S, if it has any.
First(S) == {d \in S : \A e \in S : d <= e}

Unasked == {d \in Deliveries : cons.controls[d] = "none"}
Usable == {d \in Deliveries : /\ cons.controls[d] # "none"
                              /\ WAFControlUsable(cons.controls[d])}

\* The usable deliveries the payload has yet to be sent by.
Untried == Usable \ (cons.blocked \cup cons.passed)

\* A control of its own for each delivery.
ConsistencyControl ==
  /\ cons.result = "running" /\ Unasked # {}
  /\ \/ /\ target = "malformed"
        /\ cons' = [cons EXCEPT !.result = "error"]
     \/ /\ target # "malformed"
        /\ \E d \in First(Unasked) :
             cons' = [cons EXCEPT !.controls[d] = Served(benign[d])]
  /\ UNCHANGED <<siteVars, base, enc>>

\* With fewer than two usable deliveries there is nothing to compare.
ConsistencySkips ==
  /\ cons.result = "running" /\ Unasked = {}
  /\ Cardinality(Usable) < 2
  /\ cons' = [cons EXCEPT !.result = "skipped"]
  /\ UNCHANGED <<siteVars, base, enc>>

\* The payload, by the next usable delivery, judged by that delivery's
\* control.
ConsistencyProbe ==
  /\ cons.result = "running" /\ Unasked = {} /\ Cardinality(Usable) >= 2
  /\ cons.at \in Payloads /\ Untried # {}
  /\ \E d \in First(Untried) :
       LET blocked == WAFBlocked(cons.controls[d], Served(Policy(cons.at, d)))
       IN \/ blocked /\ cons' = [cons EXCEPT !.blocked = @ \cup {d}]
          \/ ~blocked /\ cons' = [cons EXCEPT !.passed = @ \cup {d}]
  /\ UNCHANGED <<siteVars, base, enc>>

\* Mutant of NextPayload: the lists are declared outside the loop.
NextPayloadSameLists(found) ==
  cons' = [cons EXCEPT !.at = @ + 1, !.found = found]

\* The lists of the next round are empty.
NextPayload(found) ==
  cons' = [cons EXCEPT !.at = @ + 1, !.found = found,
                       !.blocked = {}, !.passed = {}]

\* A payload blocked by some deliveries and passed by others is a finding.
ConsistencyJudge ==
  /\ cons.result = "running" /\ Unasked = {} /\ Cardinality(Usable) >= 2
  /\ cons.at \in Payloads /\ Untried = {}
  /\ \/ /\ cons.blocked # {} /\ cons.passed # {}
        /\ NextPayload(cons.found \cup {[payload |-> cons.at,
                                         blocked |-> cons.blocked,
                                         passed |-> cons.passed]})
     \/ /\ cons.blocked = {} \/ cons.passed = {}
        /\ NextPayload(cons.found)
  /\ UNCHANGED <<siteVars, base, enc>>

ConsistencyReturns ==
  /\ cons.result = "running" /\ cons.at = NP + 1
  /\ cons' = [cons EXCEPT !.result = "returned"]
  /\ UNCHANGED <<siteVars, base, enc>>

----------------------------------------------------------------------------
\* The site starts or stops throttling.
Throttle ==
  /\ flips < MaxFlips
  /\ flips' = flips + 1
  /\ throttled' = ~throttled
  /\ UNCHANGED <<target, benign, attack, variant, base, enc, cons>>

Baseline == BaselineControl \/ BaselinePayload \/ BaselineReturns
Encoding == EncodingControl \/ EncodingPlain \/ EncodingVariant
              \/ EncodingReturns
Consistency == ConsistencyControl \/ ConsistencySkips \/ ConsistencyProbe
                 \/ ConsistencyJudge \/ ConsistencyReturns

Next == Baseline \/ Encoding \/ Consistency \/ Throttle

Spec == Init /\ [][Next]_vars

----------------------------------------------------------------------------
(***************************************************************************)
(* Properties.                                                             *)
(***************************************************************************)

\* Whatever the rate limit does while the checks run: what a finding of any
\* of them says got through - a payload, a variant, a delivery - is something
\* the site's policy does not reject.  A 429, at the control or later, never
\* turns a blocked payload into a reported one.
PassedMeansNotRejected ==
  /\ \A o \in base.passed : Policy(o.payload, Query) \notin Rejections
  /\ \A o \in enc.found :
       VariantPolicy(o.payload, o.technique) \notin Rejections
  /\ \A o \in cons.found : \A d \in o.passed :
       Policy(o.payload, d) \notin Rejections

Stable == flips = 0 /\ ~throttled

Returned == /\ base.result = "returned"
            /\ enc.result = "returned"
            /\ cons.result = "returned"

GetsThrough(p) ==
  \/ \E d \in Usable : Policy(p, d) \notin Rejections
  \/ \E t \in Techniques : VariantPolicy(p, t) \notin Rejections

\* No payload falls between the checks: encoding_bypass leaves out what is
\* not blocked in plain form ("baseline_payloads already reports" it), and
\* content_type_consistency what every delivery passes, yet a payload that
\* any tried form gets past an undisturbed site is reported by one of them.
NothingFallsThrough ==
  (Returned /\ Stable) =>
    \A p \in Payloads : GetsThrough(p) =>
      \E o \in base.passed \cup enc.found \cup cons.found : o.payload = p

\* On an undisturbed site the checks do not contradict each other: a payload
\* bypasses the filter by encoding only if baseline_payloads saw it blocked.
NoContradiction ==
  Stable => \A o \in base.passed, e \in enc.found : o.payload # e.payload

\* "No baseline payload of any category was blocked, so no WAF or request
\* filtering appears to be in front of the backend": said only if all the
\* payloads passed; and then, on an undisturbed site, encoding_bypass finds
\* no filter to bypass either.
NoFilterClaimIsTrue ==
  (base.result = "returned" /\ ~base.blockedAny) =>
    /\ {o.payload : o \in base.passed} = Payloads
    /\ Stable => enc.found = {}

\* baseline_payloads, check.yaml: "flagging any payload that isn't blocked
\* [...] - i.e. that is passed through to the backend": so a flagged payload
\* was in the request the site got.
FlaggedPayloadsWereSent == base.passed # {} => target # "hash"
=============================================================================
