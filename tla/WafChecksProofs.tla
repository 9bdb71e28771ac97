-------------------------- MODULE WafChecksProofs --------------------------
(***************************************************************************)
(* Proofs about the WAF checks, for every number of payloads, deliveries   *)
(* and techniques, every policy of the filter, and however often the site  *)
(* starts and stops throttling.                                            *)
(***************************************************************************)
EXTENDS WafChecks, TLAPS

\* Against a usable control, "blocked" means rejected, whatever the control
\* was: the comparison of the two statuses decides nothing.
LEMMA BlockedIsRejected ==
  ASSUME NEW control, NEW probe, WAFControlUsable(control)
  PROVE  WAFBlocked(control, probe) <=> probe \in Rejections
  BY DEF WAFControlUsable, WAFBlocked, Rejections

\* An answer that is not a rejection is the policy's, and unthrottled every
\* answer is.
LEMMA ServedAnswers ==
  ASSUME NEW answer
  PROVE  /\ Served(answer) \notin Rejections => answer \notin Rejections
         /\ ~throttled => Served(answer) = answer
  BY DEF Served, Rejections, wafBlockStatuses

----------------------------------------------------------------------------
SiteType ==
  /\ target \in Targets
  /\ benign \in [Deliveries -> Answers]
  /\ attack \in [Payloads -> [Deliveries -> Answers]]
  /\ variant \in [Payloads -> [Techniques -> Answers]]
  /\ throttled \in BOOLEAN
  /\ flips \in 0..MaxFlips

BaseType ==
  base \in [at : 0..(NP + 1), control : AllAnswers \cup {"none"},
            passed : SUBSET [payload : Payloads],
            blockedAny : BOOLEAN, result : Results]

\* baseline_payloads: what it has found, and what it has not missed.
BaseInv ==
  /\ base.at > 0 => WAFControlUsable(base.control)
  /\ base.result = "returned" => base.at = NP + 1
  /\ \A o \in base.passed :
       /\ o.payload < base.at
       /\ Policy(o.payload, Query) \notin Rejections
  /\ ~base.blockedAny =>
       \A p \in Payloads :
         p < base.at => \E o \in base.passed : o.payload = p
  /\ Stable =>
       /\ base.at > 0 => base.control = benign[Query]
       /\ \A p \in Payloads :
            (p < base.at /\ Policy(p, Query) \notin Rejections)
              => \E o \in base.passed : o.payload = p

EncType ==
  enc \in [at : 0..(NP + 1), technique : 0..NT,
           control : AllAnswers \cup {"none"},
           found : SUBSET [payload : Payloads, technique : Techniques],
           result : Results]

\* encoding_bypass likewise; and, at a payload, what it has tried.
EncInv ==
  /\ enc.at > 0 => WAFControlUsable(enc.control)
  /\ enc.result = "returned" => enc.at = NP + 1
  /\ enc.technique # 0 => enc.at \in Payloads
  /\ \A o \in enc.found :
       VariantPolicy(o.payload, o.technique) \notin Rejections
  /\ Stable =>
       /\ \A o \in enc.found : Policy(o.payload, Query) \in Rejections
       /\ enc.technique # 0 =>
            /\ Policy(enc.at, Query) \in Rejections
            /\ \A t \in Techniques :
                 t < enc.technique => VariantPolicy(enc.at, t) \in Rejections
       /\ \A p \in Payloads, t \in Techniques :
            (/\ p < enc.at
             /\ VariantPolicy(p, t) \notin Rejections
             /\ Policy(p, Query) \in Rejections)
              => \E o \in enc.found : o.payload = p

ConsType ==
  cons \in [at : 1..(NP + 1),
            controls : [Deliveries -> AllAnswers \cup {"none"}],
            blocked : SUBSET Deliveries, passed : SUBSET Deliveries,
            found : SUBSET [payload : Payloads,
                            blocked : SUBSET Deliveries,
                            passed : SUBSET Deliveries],
            result : Results]

\* content_type_consistency likewise.
ConsInv ==
  /\ (cons.at > 1 \/ cons.blocked \cup cons.passed # {}) => Unasked = {}
  /\ cons.result = "returned" => cons.at = NP + 1
  /\ cons.blocked \cup cons.passed \subseteq Usable
  /\ \A d \in cons.passed : Policy(cons.at, d) \notin Rejections
  /\ \A o \in cons.found : \A d \in o.passed :
       Policy(o.payload, d) \notin Rejections
  /\ Stable =>
       /\ \A d \in Deliveries : cons.controls[d] \in {"none", benign[d]}
       /\ \A d \in cons.blocked : Policy(cons.at, d) \in Rejections
       /\ \A p \in Payloads, d, e \in Usable :
            (/\ p < cons.at
             /\ Policy(p, d) \notin Rejections
             /\ Policy(p, e) \in Rejections)
              => \E o \in cons.found : o.payload = p

WafInv == /\ SiteType
          /\ BaseType /\ BaseInv
          /\ EncType /\ EncInv
          /\ ConsType /\ ConsInv

\* The checks start with nothing asked and nothing found.
LEMMA WafInitInv == Init => WafInv
<1> SUFFICES ASSUME Init PROVE WafInv
  OBVIOUS
<1>1. SiteType /\ BaseType /\ EncType /\ ConsType
  BY PayloadAssumption, FlipsAssumption
  DEF Init, SiteType, BaseType, EncType, ConsType, Results
<1>2. \A p \in Payloads : ~(p < 0) /\ ~(p < 1)
  BY PayloadAssumption DEF Payloads
<1>3. BaseInv
  <2>1. /\ base.at = 0 /\ base.passed = {} /\ base.result = "running"
    BY DEF Init
  <2>. QED
    BY <1>2, <2>1 DEF BaseInv
<1>4. EncInv
  <2>1. /\ enc.at = 0 /\ enc.technique = 0 /\ enc.found = {}
        /\ enc.result = "running"
    BY DEF Init
  <2>. QED
    BY <1>2, <2>1 DEF EncInv
<1>5. ConsInv
  <2>1. /\ cons.at = 1 /\ cons.blocked = {} /\ cons.passed = {}
        /\ cons.found = {} /\ cons.result = "running"
        /\ \A d \in Deliveries : cons.controls[d] = "none"
    BY DEF Init
  <2>. QED
    BY <1>2, <2>1 DEF ConsInv
<1>. QED
  BY <1>1, <1>3, <1>4, <1>5 DEF WafInv

----------------------------------------------------------------------------
\* What the policy answers to a payload is an answer.
LEMMA PolicyAnswers ==
  ASSUME SiteType, NEW p \in Payloads
  PROVE  /\ Query \in Deliveries
         /\ \A d \in Deliveries : Policy(p, d) \in AllAnswers
         /\ \A t \in Techniques : VariantPolicy(p, t) \in AllAnswers
<1>1. Query \in Deliveries
  BY PayloadAssumption DEF Query, Deliveries
<1>. QED
  BY <1>1, PolicyAssumption DEF SiteType, Policy, VariantPolicy

\* baseline_payloads keeps its invariant.
LEMMA BaselineStep ==
  ASSUME SiteType, BaseType, BaseInv, Baseline
  PROVE  BaseType' /\ BaseInv'
<1>1. CASE BaselineControl
  <2>1. /\ UNCHANGED siteVars /\ base.at = 0 /\ base.passed = {}
        /\ benign[Query] \in AllAnswers
    BY <1>1, PayloadAssumption, PolicyAssumption
    DEF BaselineControl, BaseType, BaseInv, SiteType, Query, Deliveries,
        Payloads
  <2>2. Served(benign[Query]) \in AllAnswers
    BY <2>1 DEF Served, AllAnswers
  <2>3. CASE base' = [base EXCEPT !.result = "error"]
               \/ base' = [base EXCEPT !.result = "skipped"]
    <3>1. BaseType'
      BY <2>3 DEF BaseType, Results
    <3>. QED
      BY <2>1, <2>3, <3>1
      DEF BaseType, BaseInv, siteVars, Stable, Policy, Payloads
  <2>4. CASE /\ WAFControlUsable(Served(benign[Query]))
             /\ base' = [base EXCEPT !.at = 1,
                                     !.control = Served(benign[Query])]
    <3>0. 1 \in 0..(NP + 1)
      BY PayloadAssumption
    <3>1. BaseType'
      BY <2>2, <2>4, <3>0 DEF BaseType
    <3>2. /\ base'.at = 1 /\ base'.control = Served(benign[Query])
          /\ base'.passed = {} /\ base'.result = base.result
      BY <2>1, <2>4 DEF BaseType
    <3>3. base.result # "returned"
      BY <1>1 DEF BaselineControl
    <3>4. \A p \in Payloads : ~(p < 1)
      BY PayloadAssumption DEF Payloads
    <3>5. Stable' => base'.control = benign'[Query]
      BY <2>1, <3>2, ServedAnswers DEF Stable, siteVars
    <3>. QED
      BY <2>4, <3>1, <3>2, <3>3, <3>4, <3>5 DEF BaseInv
  <2>. QED
    BY <1>1, <2>3, <2>4 DEF BaselineControl
<1>2. CASE BaselinePayload
  <2> DEFINE probe == Served(Policy(base.at, Query))
  <2>0. /\ UNCHANGED siteVars /\ base.at \in Payloads /\ base.at > 0
        /\ base.at \in Nat /\ base.result = "running"
    BY <1>2, PayloadAssumption DEF BaselinePayload, Payloads
  <2>1. /\ UNCHANGED siteVars /\ base.at \in Payloads /\ base.at > 0
        /\ base.at \in Nat /\ base.result = "running"
        /\ WAFControlUsable(base.control)
        /\ Policy(base.at, Query) \in AllAnswers
    BY <2>0, PolicyAnswers DEF BaseInv
  <2>2. probe \in AllAnswers
    BY <2>1 DEF Served, AllAnswers
  <2>3. /\ \A p : Policy(p, Query)' = Policy(p, Query)
        /\ Stable' = Stable /\ benign' = benign
    BY <2>1 DEF siteVars, Policy, Stable
  <2>4. CASE /\ WAFBlocked(base.control, probe)
             /\ base' = [base EXCEPT !.at = @ + 1, !.blockedAny = TRUE]
    <3>0. base.at + 1 \in 0..(NP + 1)
      BY <2>1, PayloadAssumption DEF Payloads
    <3>1. BaseType'
      BY <2>4, <3>0 DEF BaseType
    <3>2. /\ base'.at = base.at + 1 /\ base'.blockedAny
          /\ base'.passed = base.passed /\ base'.control = base.control
          /\ base'.result = "running"
      BY <2>1, <2>4 DEF BaseType
    <3>3. Stable => Policy(base.at, Query) \in Rejections
      BY <2>1, <2>4, BlockedIsRejected, ServedAnswers DEF Stable
    <3>4. \A p \in Payloads : p < base.at + 1 => p < base.at \/ p = base.at
      BY <2>1, PayloadAssumption DEF Payloads
    <3>5. \A o \in base.passed : o.payload < base.at + 1
      BY <2>1, PayloadAssumption DEF BaseInv, BaseType, Payloads
    <3>. QED
      BY <2>1, <2>3, <3>1, <3>2, <3>3, <3>4, <3>5 DEF BaseInv, Rejections
  <2>5. CASE /\ ~WAFBlocked(base.control, probe)
             /\ base' = [base EXCEPT
                  !.at = @ + 1,
                  !.passed = @ \cup {[payload |-> base.at]}]
    <3> DEFINE new == [payload |-> base.at]
    <3>0. /\ base.at + 1 \in 0..(NP + 1)
          /\ new \in [payload : Payloads]
      BY <2>1, <2>2, PayloadAssumption DEF Payloads
    <3>1. BaseType'
      BY <2>5, <3>0 DEF BaseType
    <3>2. /\ base'.at = base.at + 1 /\ base'.blockedAny = base.blockedAny
          /\ base'.passed = base.passed \cup {new}
          /\ base'.control = base.control /\ base'.result = "running"
      BY <2>1, <2>5 DEF BaseType
    <3>3. Policy(base.at, Query) \notin Rejections
      BY <2>1, <2>5, BlockedIsRejected, ServedAnswers
    <3>4. \A p \in Payloads : p < base.at + 1 => p < base.at \/ p = base.at
      BY <2>1, PayloadAssumption DEF Payloads
    <3>5. \A o \in base'.passed : o.payload < base.at + 1
      BY <2>1, <3>2, PayloadAssumption DEF BaseInv, BaseType, Payloads
    <3>6. new \in base'.passed /\ new.payload = base.at
      BY <3>2
    <3>7. \A p \in Payloads :
            (p = base.at \/ \E o \in base.passed : o.payload = p)
              => \E o \in base'.passed : o.payload = p
      BY <3>2, <3>6
    <3>8. \A o \in base'.passed : Policy(o.payload, Query) \notin Rejections
      BY <3>2, <3>3, <3>6 DEF BaseInv
    <3>9. ~base'.blockedAny =>
            \A p \in Payloads :
              p < base'.at => \E o \in base'.passed : o.payload = p
      BY <3>2, <3>4, <3>7 DEF BaseInv
    <3>10. Stable => \A p \in Payloads :
             (p < base'.at /\ Policy(p, Query) \notin Rejections)
               => \E o \in base'.passed : o.payload = p
      BY <3>2, <3>4, <3>7 DEF BaseInv
    <3>. QED
      BY <2>1, <2>3, <3>1, <3>2, <3>5, <3>8, <3>9, <3>10
      DEF BaseInv, Rejections
  <2>. QED
    BY <1>2, <2>4, <2>5 DEF BaselinePayload
<1>3. CASE BaselineReturns
  <2>1. BaseType'
    BY <1>3 DEF BaselineReturns, BaseType, Results
  <2>. QED
    BY <1>3, <2>1
    DEF BaselineReturns, BaseType, BaseInv, siteVars, Stable, Policy
<1>. QED
  BY <1>1, <1>2, <1>3 DEF Baseline

\* encoding_bypass keeps its invariant.
LEMMA EncodingStep ==
  ASSUME SiteType, EncType, EncInv, Encoding
  PROVE  EncType' /\ EncInv'
<1>0. /\ UNCHANGED siteVars
      /\ \A p, d : Policy(p, d)' = Policy(p, d)
      /\ \A p, t : VariantPolicy(p, t)' = VariantPolicy(p, t)
      /\ Stable' = Stable /\ Rejections' = Rejections
  <2>1. UNCHANGED siteVars
    BY DEF Encoding, EncodingControl, EncodingPlain, EncodingVariant,
           EncodingReturns
  <2>. QED
    BY <2>1 DEF siteVars, Policy, VariantPolicy, Stable
<1>1. CASE EncodingControl
  <2>1. enc.at = 0 /\ enc.result = "running"
    BY <1>1 DEF EncodingControl
  <2>2. CASE enc' = [enc EXCEPT !.result = "error"]
               \/ enc' = [enc EXCEPT !.result = "skipped"]
    <3>1. EncType'
      BY <2>2 DEF EncType, Results
    <3>2. /\ enc'.at = enc.at /\ enc'.technique = enc.technique
          /\ enc'.found = enc.found /\ enc'.result # "returned"
          /\ enc'.control = enc.control
      BY <2>2 DEF EncType
    <3>. QED
      BY <1>0, <3>1, <3>2 DEF EncInv
  <2>3. CASE /\ WAFControlUsable(Served(benign[Query]))
             /\ enc' = [enc EXCEPT !.at = 1, !.control = Served(benign[Query])]
    <3>1. benign[Query] \in AllAnswers
      BY PayloadAssumption, PolicyAssumption DEF SiteType, Query, Deliveries
    <3>2. Served(benign[Query]) \in AllAnswers /\ 1 \in 0..(NP + 1)
      BY <3>1, PayloadAssumption DEF Served, AllAnswers
    <3>3. EncType'
      BY <2>3, <3>2 DEF EncType
    <3>4. /\ enc'.at = 1 /\ enc'.technique = enc.technique
          /\ enc'.found = enc.found /\ enc'.result = "running"
          /\ enc'.control = Served(benign[Query])
      BY <2>1, <2>3 DEF EncType
    <3>5. \A p \in Payloads : ~(p < 1)
      BY PayloadAssumption DEF Payloads
    <3>6. enc.technique = 0
      BY <2>1, PayloadAssumption DEF EncInv, Payloads
    <3>. QED
      BY <1>0, <2>3, <3>3, <3>4, <3>5, <3>6 DEF EncInv
  <2>. QED
    BY <1>1, <2>2, <2>3 DEF EncodingControl
<1>2. CASE EncodingPlain
  <2> DEFINE probe == Served(Policy(enc.at, Query))
  <2>1. /\ enc.at \in Payloads /\ enc.at \in Nat /\ enc.at > 0
        /\ enc.technique = 0 /\ enc.result = "running"
    BY <1>2, PayloadAssumption DEF EncodingPlain, Payloads
  <2>2. \A p \in Payloads : p < enc.at + 1 => p < enc.at \/ p = enc.at
    BY <2>1, PayloadAssumption DEF Payloads
  <2>3. WAFControlUsable(enc.control)
    BY <2>1 DEF EncInv
  <2>4. CASE WAFBlocked(enc.control, probe) /\ enc' = [enc EXCEPT !.technique = 1]
    <3>1. EncType' /\ 1 \in Techniques /\ \A t \in Techniques : ~(t < 1)
      BY <2>4, PayloadAssumption DEF EncType, Techniques
    <3>2. /\ enc'.at = enc.at /\ enc'.technique = 1
          /\ enc'.found = enc.found /\ enc'.result = "running"
          /\ enc'.control = enc.control
      BY <2>1, <2>4 DEF EncType
    <3>3. Stable => Policy(enc.at, Query) \in Rejections
      BY <2>3, <2>4, BlockedIsRejected, ServedAnswers DEF Stable
    <3>. QED
      BY <1>0, <2>1, <2>3, <3>1, <3>2, <3>3 DEF EncInv
  <2>5. CASE ~WAFBlocked(enc.control, probe) /\ enc' = [enc EXCEPT !.at = @ + 1]
    <3>0. enc.at + 1 \in 0..(NP + 1)
      BY <2>1, PayloadAssumption DEF Payloads
    <3>1. EncType'
      BY <2>5, <3>0 DEF EncType
    <3>2. /\ enc'.at = enc.at + 1 /\ enc'.technique = 0
          /\ enc'.found = enc.found /\ enc'.result = "running"
          /\ enc'.control = enc.control
      BY <2>1, <2>5 DEF EncType
    <3>3. Policy(enc.at, Query) \notin Rejections
      BY <2>3, <2>5, BlockedIsRejected, ServedAnswers
    <3>. QED
      BY <1>0, <2>1, <2>2, <2>3, <3>1, <3>2, <3>3 DEF EncInv
  <2>. QED
    BY <1>2, <2>4, <2>5 DEF EncodingPlain
<1>3. CASE EncodingVariant
  <2> DEFINE probe == Served(VariantPolicy(enc.at, enc.technique))
             blocked == WAFBlocked(enc.control, probe)
  <2>1. /\ enc.at \in Payloads /\ enc.at \in Nat /\ enc.at > 0
        /\ enc.technique \in Techniques /\ enc.technique \in Nat
        /\ enc.technique # 0 /\ enc.result = "running"
    BY <1>3, PayloadAssumption DEF EncodingVariant, Payloads, EncType, Techniques
  <2>2. \A p \in Payloads : p < enc.at + 1 => p < enc.at \/ p = enc.at
    BY <2>1, PayloadAssumption DEF Payloads
  <2>3. WAFControlUsable(enc.control)
    BY <2>1 DEF EncInv
  <2>4. (Stable /\ blocked) => VariantPolicy(enc.at, enc.technique) \in Rejections
    BY <2>3, BlockedIsRejected, ServedAnswers DEF Stable
  <2>5. ~blocked => VariantPolicy(enc.at, enc.technique) \notin Rejections
    BY <2>3, BlockedIsRejected, ServedAnswers
  <2>6. enc.at + 1 \in 0..(NP + 1)
    BY <2>1, PayloadAssumption DEF Payloads
  <2>7. CASE /\ blocked /\ enc.technique < NT
             /\ enc' = [enc EXCEPT !.technique = @ + 1]
    <3>0. enc.technique + 1 \in 0..NT /\ enc.technique + 1 # 0
      BY <2>1, <2>7, PayloadAssumption DEF Techniques
    <3>1. EncType'
      BY <2>7, <3>0 DEF EncType
    <3>2. /\ enc'.at = enc.at /\ enc'.technique = enc.technique + 1
          /\ enc'.found = enc.found /\ enc'.result = "running"
          /\ enc'.control = enc.control
      BY <2>1, <2>7 DEF EncType
    <3>3. \A t \in Techniques :
            t < enc.technique + 1 => t < enc.technique \/ t = enc.technique
      BY <2>1, PayloadAssumption DEF Techniques
    <3>. QED
      BY <1>0, <2>1, <2>3, <2>4, <2>7, <3>1, <3>2, <3>3 DEF EncInv
  <2>8. CASE /\ blocked /\ enc.technique = NT
             /\ enc' = [enc EXCEPT !.at = @ + 1, !.technique = 0]
    <3>0. 0 \in 0..NT
      BY PayloadAssumption
    <3>1. EncType'
      BY <2>6, <2>8, <3>0 DEF EncType
    <3>2. /\ enc'.at = enc.at + 1 /\ enc'.technique = 0
          /\ enc'.found = enc.found /\ enc'.result = "running"
          /\ enc'.control = enc.control
      BY <2>1, <2>8 DEF EncType
    <3>3. \A t \in Techniques : t < enc.technique \/ t = enc.technique
      BY <2>1, <2>8, PayloadAssumption DEF Techniques
    <3>4. Stable => \A t \in Techniques :
                      VariantPolicy(enc.at, t) \in Rejections
      BY <2>1, <2>4, <2>8, <3>3 DEF EncInv
    <3>. QED
      BY <1>0, <2>1, <2>2, <2>3, <3>1, <3>2, <3>4 DEF EncInv
  <2>9. CASE /\ ~blocked
             /\ enc' = [enc EXCEPT
                  !.at = @ + 1, !.technique = 0,
                  !.found = @ \cup {[payload |-> enc.at,
                                     technique |-> enc.technique]}]
    <3> DEFINE new == [payload |-> enc.at, technique |-> enc.technique]
    <3>0. /\ new \in [payload : Payloads, technique : Techniques]
          /\ 0 \in 0..NT
      BY <2>1, PayloadAssumption
    <3>1. EncType'
      BY <2>6, <2>9, <3>0 DEF EncType
    <3>2. /\ enc'.at = enc.at + 1 /\ enc'.technique = 0
          /\ enc'.found = enc.found \cup {new} /\ enc'.result = "running"
          /\ enc'.control = enc.control
      BY <2>1, <2>9 DEF EncType
    <3>3. new.payload = enc.at /\ new.technique = enc.technique
      OBVIOUS
    <3>4. \A o \in enc'.found :
            VariantPolicy(o.payload, o.technique) \notin Rejections
      BY <2>5, <2>9, <3>2, <3>3 DEF EncInv
    <3>5. Stable => \A o \in enc'.found : Policy(o.payload, Query) \in Rejections
      BY <2>1, <3>2, <3>3 DEF EncInv
    <3>6. \A p \in Payloads :
            (p = enc.at \/ \E o \in enc.found : o.payload = p)
              => \E o \in enc'.found : o.payload = p
      BY <3>2, <3>3
    <3>7. Stable =>
            \A p \in Payloads, t \in Techniques :
              (/\ p < enc'.at
               /\ VariantPolicy(p, t) \notin Rejections
               /\ Policy(p, Query) \in Rejections)
                => \E o \in enc'.found : o.payload = p
      BY <2>2, <3>2, <3>6 DEF EncInv
    <3>. QED
      BY <1>0, <2>1, <2>3, <3>1, <3>2, <3>4, <3>5, <3>7 DEF EncInv
  <2>. QED
    BY <1>3, <2>7, <2>8, <2>9 DEF EncodingVariant, LastTechnique
<1>4. CASE EncodingReturns
  <2>1. EncType'
    BY <1>4 DEF EncodingReturns, EncType, Results
  <2>2. /\ enc'.at = enc.at /\ enc'.technique = enc.technique
        /\ enc'.found = enc.found /\ enc'.control = enc.control
        /\ enc.at = NP + 1
    BY <1>4 DEF EncodingReturns, EncType
  <2>. QED
    BY <1>0, <2>1, <2>2 DEF EncInv
<1>. QED
  BY <1>1, <1>2, <1>3, <1>4 DEF Encoding

\* content_type_consistency keeps its invariant.
LEMMA ConsistencyStep ==
  ASSUME SiteType, ConsType, ConsInv, Consistency
  PROVE  ConsType' /\ ConsInv'
<1>0. /\ UNCHANGED siteVars /\ cons.result = "running"
      /\ \A p, d : Policy(p, d)' = Policy(p, d)
      /\ Stable' = Stable
      /\ \A d : benign'[d] = benign[d]
  <2>1. UNCHANGED siteVars /\ cons.result = "running"
    BY DEF Consistency, ConsistencyControl, ConsistencySkips,
           ConsistencyProbe, ConsistencyJudge, ConsistencyReturns
  <2>. QED
    BY <2>1 DEF siteVars, Policy, Stable
<1>a. cons'.controls = cons.controls => Unasked' = Unasked /\ Usable' = Usable
  BY DEF Unasked, Usable
<1>1. CASE ConsistencyControl
  <2>1. /\ cons.at = 1 /\ cons.blocked = {} /\ cons.passed = {}
        /\ \A p \in Payloads : ~(p < cons.at)
    BY <1>1, PayloadAssumption
    DEF ConsistencyControl, ConsInv, ConsType, Payloads
  <2>2. CASE cons' = [cons EXCEPT !.result = "error"]
    <3>1. ConsType'
      BY <2>2 DEF ConsType, Results
    <3>2. /\ cons'.at = cons.at /\ cons'.controls = cons.controls
          /\ cons'.blocked = cons.blocked /\ cons'.passed = cons.passed
          /\ cons'.found = cons.found /\ cons'.result # "returned"
      BY <2>2 DEF ConsType
    <3>. QED
      BY <1>0, <1>a, <3>1, <3>2 DEF ConsInv
  <2>3. CASE \E d \in First(Unasked) :
               cons' = [cons EXCEPT !.controls[d] = Served(benign[d])]
    <3>1. PICK d \in Deliveries :
            cons' = [cons EXCEPT !.controls[d] = Served(benign[d])]
      BY <2>3 DEF First, Unasked
    <3>2. Served(benign[d]) \in AllAnswers
      BY PolicyAssumption DEF SiteType, Served, AllAnswers
    <3>3. ConsType'
      BY <3>1, <3>2 DEF ConsType
    <3>4. /\ cons'.at = 1 /\ cons'.blocked = {} /\ cons'.passed = {}
          /\ cons'.found = cons.found /\ cons'.result = "running"
      BY <1>0, <2>1, <3>1 DEF ConsType
    <3>5. \A e \in Deliveries :
            cons'.controls[e] = IF e = d THEN Served(benign[d])
                                ELSE cons.controls[e]
      BY <3>1 DEF ConsType
    <3>6. Stable => \A e \in Deliveries :
                      cons'.controls[e] \in {"none", benign[e]}
      BY <3>5, ServedAnswers DEF ConsInv, Stable
    <3>. QED
      BY <1>0, <2>1, <3>3, <3>4, <3>6 DEF ConsInv
  <2>. QED
    BY <1>1, <2>2, <2>3 DEF ConsistencyControl
<1>2. CASE ConsistencySkips
  <2>1. cons' = [cons EXCEPT !.result = "skipped"]
    BY <1>2 DEF ConsistencySkips
  <2>2. ConsType'
    BY <2>1 DEF ConsType, Results
  <2>3. /\ cons'.at = cons.at /\ cons'.controls = cons.controls
        /\ cons'.blocked = cons.blocked /\ cons'.passed = cons.passed
        /\ cons'.found = cons.found /\ cons'.result # "returned"
    BY <2>1 DEF ConsType
  <2>. QED
    BY <1>0, <1>a, <2>2, <2>3 DEF ConsInv
<1>3. CASE ConsistencyProbe
  <2>1. PICK d \in Usable :
          LET blocked == WAFBlocked(cons.controls[d],
                                    Served(Policy(cons.at, d)))
          IN \/ blocked /\ cons' = [cons EXCEPT !.blocked = @ \cup {d}]
             \/ ~blocked /\ cons' = [cons EXCEPT !.passed = @ \cup {d}]
    BY <1>3 DEF ConsistencyProbe, First, Untried
  <2> DEFINE blocked == WAFBlocked(cons.controls[d],
                                   Served(Policy(cons.at, d)))
  <2>2. /\ d \in Deliveries /\ WAFControlUsable(cons.controls[d])
        /\ Unasked = {}
    BY <1>3 DEF Usable, ConsistencyProbe
  <2>3. CASE blocked /\ cons' = [cons EXCEPT !.blocked = @ \cup {d}]
    <3>1. ConsType'
      BY <2>2, <2>3 DEF ConsType
    <3>2. /\ cons'.at = cons.at /\ cons'.controls = cons.controls
          /\ cons'.blocked = cons.blocked \cup {d}
          /\ cons'.passed = cons.passed
          /\ cons'.found = cons.found /\ cons'.result = "running"
      BY <1>0, <2>3 DEF ConsType
    <3>3. Stable => Policy(cons.at, d) \in Rejections
      BY <2>2, <2>3, BlockedIsRejected, ServedAnswers DEF Stable
    <3>. QED
      BY <1>0, <1>a, <2>2, <3>1, <3>2, <3>3 DEF ConsInv
  <2>4. CASE ~blocked /\ cons' = [cons EXCEPT !.passed = @ \cup {d}]
    <3>1. ConsType'
      BY <2>2, <2>4 DEF ConsType
    <3>2. /\ cons'.at = cons.at /\ cons'.controls = cons.controls
          /\ cons'.blocked = cons.blocked
          /\ cons'.passed = cons.passed \cup {d}
          /\ cons'.found = cons.found /\ cons'.result = "running"
      BY <1>0, <2>4 DEF ConsType
    <3>3. Policy(cons.at, d) \notin Rejections
      BY <2>2, <2>4, BlockedIsRejected, ServedAnswers
    <3>. QED
      BY <1>0, <1>a, <2>2, <3>1, <3>2, <3>3 DEF ConsInv
  <2>. QED
    BY <2>1, <2>3, <2>4
<1>4. CASE ConsistencyJudge
  <2>1. /\ cons.at \in Payloads /\ cons.at + 1 \in 1..(NP + 1)
        /\ Unasked = {} /\ Usable = cons.blocked \cup cons.passed
        /\ \A p \in Payloads : p < cons.at + 1 => p < cons.at \/ p = cons.at
    BY <1>4, PayloadAssumption
    DEF ConsistencyJudge, Untried, ConsInv, Payloads
  <2>2. CASE /\ cons.blocked # {} /\ cons.passed # {}
             /\ NextPayload(cons.found \cup {[payload |-> cons.at,
                                              blocked |-> cons.blocked,
                                              passed |-> cons.passed]})
    <3> DEFINE new == [payload |-> cons.at, blocked |-> cons.blocked,
                       passed |-> cons.passed]
    <3>1. new \in [payload : Payloads, blocked : SUBSET Deliveries,
                   passed : SUBSET Deliveries]
      BY <2>1 DEF ConsType
    <3>2. ConsType'
      BY <2>1, <2>2, <3>1 DEF ConsType, NextPayload
    <3>3. /\ cons'.at = cons.at + 1 /\ cons'.controls = cons.controls
          /\ cons'.blocked = {} /\ cons'.passed = {}
          /\ cons'.found = cons.found \cup {new} /\ cons'.result = "running"
      BY <1>0, <2>2 DEF ConsType, NextPayload
    <3>4. new.payload = cons.at /\ new.passed = cons.passed
      OBVIOUS
    <3>5. \A o \in cons'.found : \A d \in o.passed :
            Policy(o.payload, d) \notin Rejections
      BY <3>3, <3>4 DEF ConsInv
    <3>6. \A p \in Payloads :
            (p = cons.at \/ \E o \in cons.found : o.payload = p)
              => \E o \in cons'.found : o.payload = p
      BY <3>3, <3>4
    <3>7. Stable =>
            \A p \in Payloads, d, e \in Usable :
              (/\ p < cons'.at
               /\ Policy(p, d) \notin Rejections
               /\ Policy(p, e) \in Rejections)
                => \E o \in cons'.found : o.payload = p
      BY <2>1, <3>3, <3>6 DEF ConsInv
    <3>. QED
      BY <1>0, <1>a, <2>1, <3>2, <3>3, <3>5, <3>7 DEF ConsInv
  <2>3. CASE /\ cons.blocked = {} \/ cons.passed = {}
             /\ NextPayload(cons.found)
    <3>1. ConsType'
      BY <2>1, <2>3 DEF ConsType, NextPayload
    <3>2. /\ cons'.at = cons.at + 1 /\ cons'.controls = cons.controls
          /\ cons'.blocked = {} /\ cons'.passed = {}
          /\ cons'.found = cons.found /\ cons'.result = "running"
      BY <1>0, <2>3 DEF ConsType, NextPayload
    <3>3. Stable =>
            ~\E d, e \in Usable : /\ Policy(cons.at, d) \notin Rejections
                                  /\ Policy(cons.at, e) \in Rejections
      BY <2>1, <2>3 DEF ConsInv
    <3>. QED
      BY <1>0, <1>a, <2>1, <3>1, <3>2, <3>3 DEF ConsInv
  <2>. QED
    BY <1>4, <2>2, <2>3 DEF ConsistencyJudge
<1>5. CASE ConsistencyReturns
  <2>1. cons' = [cons EXCEPT !.result = "returned"] /\ cons.at = NP + 1
    BY <1>5 DEF ConsistencyReturns
  <2>2. ConsType'
    BY <2>1 DEF ConsType, Results
  <2>3. /\ cons'.at = cons.at /\ cons'.controls = cons.controls
        /\ cons'.blocked = cons.blocked /\ cons'.passed = cons.passed
        /\ cons'.found = cons.found
    BY <2>1 DEF ConsType
  <2>. QED
    BY <1>0, <1>a, <2>1, <2>2, <2>3 DEF ConsInv
<1>. QED
  BY <1>1, <1>2, <1>3, <1>4, <1>5 DEF Consistency

----------------------------------------------------------------------------
\* The site's policy, and whether it has throttled, is all that the invariants
\* read beside their check's own record.
LEMMA SiteUnchanged ==
  ASSUME UNCHANGED siteVars
  PROVE  /\ SiteType => SiteType'
         /\ base' = base => (BaseType => BaseType') /\ (BaseInv => BaseInv')
         /\ enc' = enc => (EncType => EncType') /\ (EncInv => EncInv')
         /\ cons' = cons => (ConsType => ConsType') /\ (ConsInv => ConsInv')
<1>1. /\ \A p, d : Policy(p, d)' = Policy(p, d)
      /\ \A p, t : VariantPolicy(p, t)' = VariantPolicy(p, t)
      /\ Stable' = Stable /\ benign' = benign
  BY DEF siteVars, Policy, VariantPolicy, Stable
<1>2. SiteType => SiteType'
  BY DEF siteVars, SiteType
<1>3. ASSUME base' = base PROVE (BaseType => BaseType') /\ (BaseInv => BaseInv')
  BY <1>1, <1>3 DEF BaseType, BaseInv
<1>4. ASSUME enc' = enc PROVE (EncType => EncType') /\ (EncInv => EncInv')
  BY <1>1, <1>4 DEF EncType, EncInv
<1>5. ASSUME cons' = cons PROVE (ConsType => ConsType') /\ (ConsInv => ConsInv')
  BY <1>1, <1>5 DEF ConsType, ConsInv, Usable, Unasked
<1>. QED
  BY <1>2, <1>3, <1>4, <1>5

\* When the site starts or stops throttling, only what is promised of an
\* undisturbed site is given up.
LEMMA ThrottleStep ==
  ASSUME WafInv, Throttle
  PROVE  WafInv'
<1>1. /\ \A p, d : Policy(p, d)' = Policy(p, d)
      /\ \A p, t : VariantPolicy(p, t)' = VariantPolicy(p, t)
      /\ UNCHANGED <<base, enc, cons>>
  BY DEF Throttle, Policy, VariantPolicy
<1>2. SiteType' /\ ~Stable'
  BY FlipsAssumption DEF WafInv, SiteType, Throttle, Stable
<1>3. BaseType' /\ BaseInv'
  BY <1>1, <1>2 DEF WafInv, BaseType, BaseInv
<1>4. EncType' /\ EncInv'
  BY <1>1, <1>2 DEF WafInv, EncType, EncInv
<1>5. ConsType' /\ ConsInv'
  BY <1>1, <1>2 DEF WafInv, ConsType, ConsInv, Usable, Unasked
<1>. QED
  BY <1>2, <1>3, <1>4, <1>5 DEF WafInv

LEMMA WafNextInv == WafInv /\ [Next]_vars => WafInv'
<1> SUFFICES ASSUME WafInv, [Next]_vars PROVE WafInv'
  OBVIOUS
<1>1. CASE Baseline
  <2>1. UNCHANGED <<siteVars, enc, cons>>
    BY <1>1 DEF Baseline, BaselineControl, BaselinePayload, BaselineReturns
  <2>. QED
    BY <1>1, <2>1, BaselineStep, SiteUnchanged DEF WafInv
<1>2. CASE Encoding
  <2>1. UNCHANGED <<siteVars, base, cons>>
    BY <1>2 DEF Encoding, EncodingControl, EncodingPlain, EncodingVariant,
                EncodingReturns
  <2>. QED
    BY <1>2, <2>1, EncodingStep, SiteUnchanged DEF WafInv
<1>3. CASE Consistency
  <2>1. UNCHANGED <<siteVars, base, enc>>
    BY <1>3 DEF Consistency, ConsistencyControl, ConsistencySkips,
                ConsistencyProbe, ConsistencyJudge, ConsistencyReturns
  <2>. QED
    BY <1>3, <2>1, ConsistencyStep, SiteUnchanged DEF WafInv
<1>4. CASE Throttle
  BY <1>4, ThrottleStep
<1>5. CASE UNCHANGED vars
  <2>1. UNCHANGED siteVars /\ UNCHANGED <<base, enc, cons>>
    BY <1>5 DEF vars
  <2>. QED
    BY <2>1, SiteUnchanged DEF WafInv
<1>. QED
  BY <1>1, <1>2, <1>3, <1>4, <1>5 DEF Next

\* The invariant on which the theorems below rest.
THEOREM WafInvariant == Spec => []WafInv
  BY WafInitInv, WafNextInv, PTL DEF Spec

----------------------------------------------------------------------------
\* Every variable keeps its type: no check walks past its last payload,
\* delivery or technique.
THEOREM WafTypeCorrect == Spec => []WafTypeOK
<1>1. WafInv => WafTypeOK
  BY DEF WafInv, SiteType, BaseType, EncType, ConsType, WafTypeOK
<1>. QED
  BY <1>1, WafInvariant, PTL

\* What a finding says got through is not rejected by the site's policy,
\* however often the site starts and stops throttling.
THEOREM RejectedIsNeverPassed == Spec => []PassedMeansNotRejected
<1>1. WafInv => PassedMeansNotRejected
  BY DEF WafInv, BaseInv, EncInv, ConsInv, PassedMeansNotRejected
<1>. QED
  BY <1>1, WafInvariant, PTL

\* On an undisturbed site no payload is reported both as passed in plain form
\* and as having needed an encoding.
THEOREM ChecksDoNotContradict == Spec => []NoContradiction
<1>1. WafInv => NoContradiction
  BY DEF WafInv, BaseInv, EncInv, NoContradiction
<1>. QED
  BY <1>1, WafInvariant, PTL

\* "No WAF or request filtering appears to be in front" is said only of a
\* site that let every payload pass.
THEOREM NoFilterClaimHolds == Spec => []NoFilterClaimIsTrue
<1>1. WafInv => NoFilterClaimIsTrue
  <2> SUFFICES ASSUME WafInv, base.result = "returned", ~base.blockedAny
               PROVE  /\ {o.payload : o \in base.passed} = Payloads
                      /\ Stable => enc.found = {}
    BY DEF NoFilterClaimIsTrue
  <2>1. \A p \in Payloads : p < base.at
    BY PayloadAssumption DEF WafInv, BaseInv, Payloads
  <2>2. \A p \in Payloads : \E o \in base.passed : o.payload = p
    BY <2>1 DEF WafInv, BaseInv
  <2>3. \A o \in base.passed : o.payload \in Payloads
    BY DEF WafInv, BaseType
  <2>4. \A o \in enc.found : o.payload \in Payloads
    BY DEF WafInv, EncType
  <2>5. Stable => enc.found = {}
    BY <2>2, <2>4 DEF WafInv, BaseInv, EncInv
  <2>. QED
    BY <2>2, <2>3, <2>5
<1>. QED
  BY <1>1, WafInvariant, PTL

\* On an undisturbed site, a payload that any tried form gets past the filter
\* is reported by one of the three checks.
THEOREM NothingIsMissed == Spec => []NothingFallsThrough
<1>1. WafInv => NothingFallsThrough
  <2> SUFFICES ASSUME WafInv, Returned, Stable,
                      NEW p \in Payloads, GetsThrough(p)
               PROVE  \E o \in base.passed \cup enc.found \cup cons.found :
                        o.payload = p
    BY DEF NothingFallsThrough
  <2>1. /\ base.at = NP + 1 /\ enc.at = NP + 1 /\ cons.at = NP + 1
        /\ p < NP + 1 /\ NP + 1 > 1 /\ NP + 1 > 0
    BY PayloadAssumption
    DEF WafInv, BaseInv, EncInv, ConsInv, Returned, Payloads
  <2>2. CASE Policy(p, Query) \notin Rejections
    BY <2>1, <2>2 DEF WafInv, BaseInv
  <2>3. CASE Policy(p, Query) \in Rejections
    <3>1. CASE \E t \in Techniques : VariantPolicy(p, t) \notin Rejections
      BY <2>1, <2>3, <3>1 DEF WafInv, EncInv
    <3>2. CASE \E d \in Usable : Policy(p, d) \notin Rejections
      <4>1. Query \in Deliveries /\ cons.controls[Query] # "none"
        BY <2>1, PayloadAssumption
        DEF WafInv, ConsInv, Unasked, Query, Deliveries
      <4>2. cons.controls[Query] = base.control
        BY <2>1, <4>1 DEF WafInv, BaseInv, ConsInv
      <4>3. Query \in Usable
        BY <2>1, <4>1, <4>2 DEF WafInv, BaseInv, Usable
      <4>. QED
        BY <2>1, <2>3, <3>2, <4>3 DEF WafInv, ConsInv
    <3>. QED
      BY <3>1, <3>2 DEF GetsThrough
  <2>. QED
    BY <2>2, <2>3
<1>. QED
  BY <1>1, WafInvariant, PTL
=============================================================================
