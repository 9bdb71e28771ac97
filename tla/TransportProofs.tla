--------------------------- MODULE TransportProofs ---------------------------
(***************************************************************************)
(* Proofs about the TLS checks, for all servers and bounds.                *)
(***************************************************************************)
EXTENDS TransportChecks, SequenceTheorems, TLAPS

HandshakeChecks == {"protocol_version", "cipher_strength", "certificate"}

\* A check that is done had its probe.
DoneInv ==
  /\ done \cap HandshakeChecks # {} => info # NoInfo
  /\ "hsts" \in done => fetched # "none"

\* What the shared handshake established.
InfoInv ==
  Handshaken => /\ info.version = 13 \/ info.suite \in {"aead", "cbc"}
                /\ (~info.verified /\ server.trusted) => validity = "expired"

Accepts(v) == Handshakes(server, v, v, defaultSuites) # {}

\* protocol_version: the versions below the one it dials next have been
\* reported exactly if they are accepted, or their dial was lost.
ProtocolInv ==
  /\ ("protocol_version" \in done /\ Handshaken) => version = 12
  /\ \A v \in {10, 11} :
       /\ (v < version /\ VersionName(v) \notin lost /\ Accepts(v)) =>
            VersionName(v) \in reports["protocol_version"]
       /\ VersionName(v) \in reports["protocol_version"] => Accepts(v)

AcceptsLegacy == Handshakes(server, 10, 12, weakSuites) # {}

CipherInv ==
  /\ ( /\ "cipher_strength" \in done /\ Handshaken
       /\ "weak" \notin lost /\ AcceptsLegacy ) =>
       "weak suite" \in reports["cipher_strength"]
  /\ "weak suite" \in reports["cipher_strength"] => AcceptsLegacy
  /\ "no forward secrecy" \notin reports["cipher_strength"]

RedirectInv ==
  ( /\ "https_redirect" \in done /\ scheme = "https" /\ ~port
    /\ "plain" \notin lost /\ reports["https_redirect"] = {} ) =>
    server.plain \in {"closed", "toHTTPS", "toOther"}

HSTSInv ==
  ("hsts" \in done /\ fetched \in Landings) =>
    HSTSFindings(server.hsts[fetched]) \subseteq reports["hsts"]

Inv == /\ TransportTypeOK
       /\ DoneInv
       /\ InfoInv
       /\ ProtocolInv
       /\ CipherInv
       /\ ExpiryIsNamed
       /\ RedirectInv
       /\ HSTSInv

LEMMA TransportInitInv == Init => Inv
<1> SUFFICES ASSUME Init PROVE Inv
  OBVIOUS
<1>1. TransportTypeOK
  BY DEF Init, TransportTypeOK
<1>2. DoneInv /\ InfoInv /\ RedirectInv /\ HSTSInv
  BY DEF Init, DoneInv, InfoInv, RedirectInv, HSTSInv, Handshaken
<1>3. ProtocolInv
  BY DEF Init, ProtocolInv, Checks
<1>4. CipherInv /\ ExpiryIsNamed
  BY DEF Init, CipherInv, ExpiryIsNamed, Checks
<1>. QED
  BY <1>1, <1>2, <1>3, <1>4 DEF Inv

\* Ending a check adds to its own reports only.
LEMMA FinishChangesOne ==
  ASSUME TransportTypeOK, NEW c \in Checks, NEW F, Finish(c, F)
  PROVE  /\ DOMAIN reports' = Checks
         /\ reports'[c] = reports[c] \cup F
         /\ \A d \in Checks : d # c => reports'[d] = reports[d]
         /\ done' = done \cup {c} /\ done' \subseteq Checks
  BY DEF TransportTypeOK, Finish

LEMMA VerifiesIsBoolean == TransportTypeOK => Verifies \in BOOLEAN
<1> SUFFICES ASSUME TransportTypeOK PROVE Verifies \in BOOLEAN
  OBVIOUS
<1>1. server.trusted \in BOOLEAN
  BY TransportAssumption DEF TransportTypeOK, AllServers
<1>. QED
  BY <1>1 DEF Verifies

LEMMA LandingIsOne == TransportTypeOK => Landing \in Landings \cup {"failed"}
<1> SUFFICES ASSUME TransportTypeOK PROVE Landing \in Landings \cup {"failed"}
  OBVIOUS
<1>1. /\ server.answer \in Landings /\ scheme \in {"http", "https"}
      /\ server.plain \in {"closed", "page", "toHTTPS", "toOther", "toHTTP"}
  BY TransportAssumption DEF TransportTypeOK, AllServers
<1>2. SecureLanding \in Landings \cup {"failed"}
  BY <1>1 DEF SecureLanding
<1>. QED
  BY <1>1, <1>2 DEF Landing, Landings

\* The probes change no report; what they store is what the server does.
LEMMA ProbeInv ==
  ASSUME Inv, RunHTTPFetch \/ RunTLSInfo PROVE Inv'
<1>1. UNCHANGED <<server, scheme, port, validity, version, reports, done>>
  BY DEF RunHTTPFetch, RunTLSInfo, targetVars, checkVars
<1>2. CASE RunHTTPFetch
  <2>1. /\ info' = info /\ fetched = "none"
        /\ fetched' \in Landings \cup {"failed"}
        /\ lost' = lost \/ lost' = lost \cup {"http_fetch"}
    BY <1>2, LandingIsOne DEF Inv, RunHTTPFetch, May
  <2>2. "hsts" \notin done
    BY <2>1 DEF Inv, DoneInv
  <2>3. TransportTypeOK' /\ DoneInv'
    BY <1>1, <2>1, <2>2 DEF Inv, TransportTypeOK, DoneInv, Dials, Landings
  <2>4. InfoInv' /\ ExpiryIsNamed'
    BY <1>1, <2>1 DEF Inv, InfoInv, ExpiryIsNamed, Handshaken
  <2>5. ProtocolInv'
    BY <1>1, <2>1 DEF Inv, ProtocolInv, Handshaken, Accepts, VersionName
  <2>6. CipherInv'
    BY <1>1, <2>1 DEF Inv, CipherInv, Handshaken, AcceptsLegacy
  <2>7. RedirectInv' /\ HSTSInv'
    BY <1>1, <2>1, <2>2 DEF Inv, RedirectInv, HSTSInv
  <2>. QED
    BY <2>3, <2>4, <2>5, <2>6, <2>7 DEF Inv
<1>3. CASE RunTLSInfo
  <2>1. /\ fetched' = fetched /\ info = NoInfo
        /\ lost' = lost \/ lost' = lost \cup {"tls_info"}
        /\ \/ info' = FailedInfo
           \/ \E h \in DefaultHandshakes(server) :
                info' = [version |-> h.version, suite |-> h.suite,
                         verified |-> Verifies]
    BY <1>3 DEF RunTLSInfo, May
  <2>2. done \cap HandshakeChecks = {} /\ ~Handshaken
    BY <2>1 DEF Inv, DoneInv, Handshaken
  <2>3. info' \in Info \cup {FailedInfo} /\ info' # NoInfo
    <3>1. CASE info' = FailedInfo
      BY <3>1 DEF FailedInfo, NoInfo
    <3>2. CASE \E h \in DefaultHandshakes(server) :
                 info' = [version |-> h.version, suite |-> h.suite,
                          verified |-> Verifies]
      <4>1. Verifies \in BOOLEAN
        BY VerifiesIsBoolean DEF Inv
      <4>. QED
        BY <3>2, <4>1 DEF DefaultHandshakes, Handshakes, Info, NoInfo,
                          Versions
    <3>. QED
      BY <2>1, <3>1, <3>2
  <2>4. TransportTypeOK' /\ DoneInv'
    BY <1>1, <2>1, <2>3 DEF Inv, TransportTypeOK, DoneInv, Dials
  <2>5. InfoInv'
    <3>1. CASE info' = FailedInfo
      BY <3>1 DEF InfoInv, Handshaken
    <3>2. CASE \E h \in DefaultHandshakes(server) :
                 info' = [version |-> h.version, suite |-> h.suite,
                          verified |-> Verifies]
      <4>1. PICK h \in DefaultHandshakes(server) :
              info' = [version |-> h.version, suite |-> h.suite,
                       verified |-> Verifies]
        BY <3>2
      <4>2. h.version = 13 \/ h.suite \in {"aead", "cbc"}
        BY DEF DefaultHandshakes, Handshakes, defaultSuites
      <4>3. info'.verified <=> Verifies
        BY <4>1
      <4>4. (~Verifies /\ server.trusted) => validity = "expired"
        BY DEF Verifies
      <4>. QED
        BY <1>1, <4>1, <4>2, <4>3, <4>4 DEF InfoInv
    <3>. QED
      BY <2>1, <3>1, <3>2
  <2>6. ProtocolInv'
    BY <1>1, <2>1, <2>2
    DEF Inv, ProtocolInv, HandshakeChecks, Accepts, VersionName
  <2>7. CipherInv' /\ ExpiryIsNamed'
    BY <1>1, <2>1, <2>2
    DEF Inv, CipherInv, ExpiryIsNamed, HandshakeChecks, AcceptsLegacy
  <2>8. RedirectInv' /\ HSTSInv'
    BY <1>1, <2>1 DEF Inv, RedirectInv, HSTSInv
  <2>. QED
    BY <2>4, <2>5, <2>6, <2>7, <2>8 DEF Inv
<1>. QED
  BY <1>2, <1>3

\* What no check's step but its own can disturb.
LEMMA FrameInv ==
  ASSUME Inv, NEW c \in Checks, TransportTypeOK',
         UNCHANGED <<targetVars, validity, probeVars>>,
         \A d \in Checks : d # c => reports'[d] = reports[d],
         \A d \in Checks : d # c => (d \in done' <=> d \in done),
         lost \subseteq lost',
         c # "protocol_version" => version' = version,
         c \in HandshakeChecks => info # NoInfo,
         c = "hsts" => fetched # "none"
  PROVE  /\ DoneInv' /\ InfoInv'
         /\ c # "protocol_version" => ProtocolInv'
         /\ c # "cipher_strength" => CipherInv'
         /\ c # "certificate" => ExpiryIsNamed'
         /\ c # "https_redirect" => RedirectInv'
         /\ c # "hsts" => HSTSInv'
<1>1. UNCHANGED <<server, scheme, port, validity, fetched, info>>
  BY DEF targetVars, probeVars
<1>2. DoneInv'
  BY <1>1 DEF Inv, DoneInv, HandshakeChecks, TransportTypeOK, Checks
<1>3. InfoInv'
  BY <1>1 DEF Inv, InfoInv, Handshaken
<1>4. c # "protocol_version" => ProtocolInv'
  BY <1>1 DEF Inv, ProtocolInv, Handshaken, Accepts, VersionName, Checks
<1>5. c # "cipher_strength" => CipherInv'
  BY <1>1 DEF Inv, CipherInv, Handshaken, AcceptsLegacy, Checks
<1>6. c # "certificate" => ExpiryIsNamed'
  BY <1>1 DEF Inv, ExpiryIsNamed, Checks
<1>7. c # "https_redirect" => RedirectInv'
  BY <1>1 DEF Inv, RedirectInv, Checks
<1>8. c # "hsts" => HSTSInv'
  BY <1>1 DEF Inv, HSTSInv, Checks
<1>. QED
  BY <1>2, <1>3, <1>4, <1>5, <1>6, <1>7, <1>8
\* Ending a check by its skip rule keeps the invariant: nothing claimed of it
\* was claimed without its probe.
LEMMA SkipInv ==
  ASSUME Inv, SkipUnlessFetched \/ \E c \in Checks : SkipUnlessHandshaken(c)
  PROVE  Inv'
<1>1. CASE \E c \in Checks : SkipUnlessHandshaken(c)
  <2>1. PICK c \in HandshakeChecks : SkipUnlessHandshaken(c)
    BY <1>1 DEF SkipUnlessHandshaken, HandshakeChecks
  <2>2. /\ info = FailedInfo /\ Finish(c, {}) /\ c \in Checks
        /\ UNCHANGED <<targetVars, validity, probeVars, lost, version>>
        /\ c \notin done
    BY <2>1 DEF SkipUnlessHandshaken, Checks
  <2>3. /\ DOMAIN reports' = Checks /\ reports'[c] = reports[c]
        /\ \A d \in Checks : d # c => reports'[d] = reports[d]
        /\ done' = done \cup {c} /\ done' \subseteq Checks
    BY <2>2, FinishChangesOne DEF Inv
  <2>4. TransportTypeOK'
    BY <2>2, <2>3 DEF Inv, TransportTypeOK, targetVars, probeVars
  <2>5. info # NoInfo /\ ~Handshaken /\ ~Handshaken'
    BY <2>2 DEF FailedInfo, NoInfo, Handshaken, probeVars
  <2>6. /\ DoneInv' /\ InfoInv' /\ RedirectInv' /\ HSTSInv'
        /\ c # "protocol_version" => ProtocolInv'
        /\ c # "cipher_strength" => CipherInv'
        /\ c # "certificate" => ExpiryIsNamed'
    <3>1. /\ c # "hsts" /\ c # "https_redirect"
          /\ \A d \in Checks : d # c => (d \in done' <=> d \in done)
          /\ lost \subseteq lost' /\ version' = version
          /\ UNCHANGED <<targetVars, validity, probeVars>>
      BY <2>1, <2>2, <2>3 DEF HandshakeChecks
    <3>. QED
      BY <2>2, <2>3, <2>4, <2>5, <3>1, FrameInv
  <2>7. \A d \in Checks : reports'[d] = reports[d]
    BY <2>3
  <2>8. ProtocolInv'
    BY <2>2, <2>5, <2>7
    DEF Inv, ProtocolInv, Accepts, VersionName, targetVars, Checks
  <2>9. CipherInv' /\ ExpiryIsNamed'
    BY <2>2, <2>5, <2>7
    DEF Inv, CipherInv, ExpiryIsNamed, AcceptsLegacy, targetVars, Checks
  <2>. QED
    BY <2>4, <2>6, <2>8, <2>9 DEF Inv
<1>2. CASE SkipUnlessFetched
  <2>1. /\ fetched = "failed" /\ Finish("hsts", {}) /\ "hsts" \in Checks
        /\ UNCHANGED <<targetVars, validity, probeVars, lost, version>>
    BY <1>2 DEF SkipUnlessFetched, Checks
  <2>2. /\ DOMAIN reports' = Checks
        /\ \A d \in Checks : d # "hsts" => reports'[d] = reports[d]
        /\ done' = done \cup {"hsts"} /\ done' \subseteq Checks
    BY <2>1, FinishChangesOne DEF Inv
  <2>3. TransportTypeOK'
    BY <2>1, <2>2 DEF Inv, TransportTypeOK, targetVars, probeVars
  <2>4. /\ DoneInv' /\ InfoInv' /\ ProtocolInv' /\ CipherInv'
        /\ ExpiryIsNamed' /\ RedirectInv'
    BY <2>1, <2>2, <2>3, FrameInv DEF HandshakeChecks
  <2>5. HSTSInv'
    BY <2>1 DEF HSTSInv, probeVars, Landings
  <2>. QED
    BY <2>3, <2>4, <2>5 DEF Inv
<1>. QED
  BY <1>1, <1>2

\* The dial of protocol_version.
LEMMA ProtocolStepInv == ASSUME Inv, RunProtocolVersion PROVE Inv'
<1> DEFINE c == "protocol_version"
<1>1. /\ c \notin done /\ Handshaken
      /\ UNCHANGED <<targetVars, validity, probeVars>>
  BY DEF RunProtocolVersion
<1>2. PICK F \in {{}, {VersionName(version)}} :
        /\ NextVersion(F)
        /\ F # {} => Accepts(version)
        /\ \/ lost' = lost /\ (F = {} => ~Accepts(version))
           \/ lost' = lost \cup {VersionName(version)}
  BY DEF RunProtocolVersion, ProtocolRejected, May, Accepts
<1>3. version \in {10, 11} /\ version' = version + 1
  BY <1>1, <1>2 DEF Inv, TransportTypeOK, NextVersion
<1>4. /\ DOMAIN reports' = Checks
      /\ reports'[c] = reports[c] \cup F
      /\ \A d \in Checks : d # c => reports'[d] = reports[d]
      /\ done' = IF version = 11 THEN done \cup {c} ELSE done
  BY <1>2 DEF Inv, TransportTypeOK, NextVersion, Checks
<1>5. lost \subseteq lost' /\ lost' \subseteq Dials
  BY <1>2, <1>3 DEF Inv, TransportTypeOK, VersionName, Dials
<1>6. TransportTypeOK'
  BY <1>1, <1>3, <1>4, <1>5
  DEF Inv, TransportTypeOK, targetVars, probeVars, Checks
<1>7. info # NoInfo
  BY <1>1 DEF Handshaken
<1>8. /\ DoneInv' /\ InfoInv' /\ CipherInv' /\ ExpiryIsNamed'
      /\ RedirectInv' /\ HSTSInv'
  BY <1>1, <1>4, <1>5, <1>6, <1>7, FrameInv DEF Checks
<1>9. ProtocolInv'
  <2>1. server' = server
    BY <1>1 DEF targetVars
  <2>2. \A v \in {10, 11} : Accepts(v)' = Accepts(v)
    BY <2>1 DEF Accepts
  <2>3. VersionName(10) = "tls10" /\ VersionName(11) = "tls11"
    BY DEF VersionName
  <2>4. (c \in done' /\ Handshaken') => version' = 12
    BY <1>1, <1>3, <1>4
  <2>5. \A v \in {10, 11} :
          (v < version' /\ VersionName(v) \notin lost' /\ Accepts(v)) =>
            VersionName(v) \in reports'[c]
    BY <1>2, <1>3, <1>4, <1>5, <2>3 DEF Inv, ProtocolInv
  <2>6. \A v \in {10, 11} : VersionName(v) \in reports'[c] => Accepts(v)
    BY <1>2, <1>3, <1>4, <2>3 DEF Inv, ProtocolInv
  <2>. QED
    BY <2>2, <2>4, <2>5, <2>6 DEF ProtocolInv, VersionName
<1>. QED
  BY <1>6, <1>8, <1>9 DEF Inv

\* The dial of cipher_strength.
LEMMA CipherStepInv == ASSUME Inv, RunCipherStrength PROVE Inv'
<1> DEFINE c == "cipher_strength"
<1>1. /\ c \notin done /\ Handshaken /\ c \in Checks
      /\ UNCHANGED <<targetVars, validity, probeVars, version>>
  BY DEF RunCipherStrength, Checks
<1>2. NegotiatedFindings = {}
  BY <1>1 DEF Inv, InfoInv, NegotiatedFindings, hasForwardSecrecy
<1>3. PICK F \in {{}, {"weak suite"}} :
        /\ Finish(c, F)
        /\ F # {} => AcceptsLegacy
        /\ \/ lost' = lost /\ (F = {} => ~AcceptsLegacy)
           \/ lost' = lost \cup {"weak"}
  BY <1>2 DEF RunCipherStrength, May, AcceptsLegacy
<1>4. /\ DOMAIN reports' = Checks /\ reports'[c] = reports[c] \cup F
      /\ \A d \in Checks : d # c => reports'[d] = reports[d]
      /\ done' = done \cup {c} /\ done' \subseteq Checks
  BY <1>1, <1>3, FinishChangesOne DEF Inv
<1>5. TransportTypeOK'
  BY <1>1, <1>3, <1>4 DEF Inv, TransportTypeOK, targetVars, probeVars, Dials
<1>6. info # NoInfo
  BY <1>1 DEF Handshaken
<1>7. /\ DoneInv' /\ InfoInv' /\ ProtocolInv' /\ ExpiryIsNamed'
      /\ RedirectInv' /\ HSTSInv'
  BY <1>1, <1>3, <1>4, <1>5, <1>6, FrameInv
<1>8. CipherInv'
  <2>1. AcceptsLegacy' = AcceptsLegacy
    BY <1>1 DEF AcceptsLegacy, targetVars
  <2>. QED
    BY <1>3, <1>4, <2>1 DEF Inv, CipherInv
<1>. QED
  BY <1>5, <1>7, <1>8 DEF Inv

\* certificate reads the handshake, and the clock.
LEMMA CertificateStepInv == ASSUME Inv, RunCertificate PROVE Inv'
<1> DEFINE c == "certificate"
           F == {f \in {"unverified", "no staple"} :
                   IF f = "unverified" THEN ~info.verified
                                       ELSE ~server.stapled}
                \cup ExpiryFindings
<1>1. /\ Handshaken /\ c \in Checks /\ Finish(c, F)
      /\ UNCHANGED <<targetVars, validity, probeVars, lost, version>>
  BY DEF RunCertificate, Checks
<1>2. /\ DOMAIN reports' = Checks /\ reports'[c] = reports[c] \cup F
      /\ \A d \in Checks : d # c => reports'[d] = reports[d]
      /\ done' = done \cup {c} /\ done' \subseteq Checks
  BY <1>1, FinishChangesOne DEF Inv
<1>3. TransportTypeOK'
  BY <1>1, <1>2 DEF Inv, TransportTypeOK, targetVars, probeVars
<1>4. info # NoInfo
  BY <1>1 DEF Handshaken
<1>5. /\ DoneInv' /\ InfoInv' /\ ProtocolInv' /\ CipherInv'
      /\ RedirectInv' /\ HSTSInv'
  BY <1>1, <1>2, <1>3, <1>4, FrameInv
<1>6. ExpiryIsNamed'
  <2>1. ("unverified" \in F /\ server.trusted) => validity = "expired"
    BY <1>1 DEF Inv, InfoInv, ExpiryFindings
  <2>2. validity = "expired" => "expired" \in F
    BY DEF ExpiryFindings
  <2>3. server' = server
    BY <1>1 DEF targetVars
  <2>. QED
    BY <1>2, <2>1, <2>2, <2>3 DEF Inv, ExpiryIsNamed
<1>. QED
  BY <1>3, <1>5, <1>6 DEF Inv

\* https_redirect asks the plain port.
LEMMA RedirectStepInv == ASSUME Inv, RunHTTPSRedirect PROVE Inv'
<1> DEFINE c == "https_redirect"
<1>1. /\ c \in Checks
      /\ UNCHANGED <<targetVars, validity, probeVars, version>>
  BY DEF RunHTTPSRedirect, Checks
<1>2. PICK F : /\ Finish(c, F)
               /\ lost' = lost \/ lost' = lost \cup {"plain"}
               /\ \/ scheme # "https"
                  \/ "plain" \in lost'
                  \/ \E a \in PlainAnswers : F = RedirectFindings(a)
  BY DEF RunHTTPSRedirect, May
<1>3. /\ DOMAIN reports' = Checks /\ reports'[c] = reports[c] \cup F
      /\ \A d \in Checks : d # c => reports'[d] = reports[d]
      /\ done' = done \cup {c} /\ done' \subseteq Checks
  BY <1>1, <1>2, FinishChangesOne DEF Inv
<1>4. TransportTypeOK'
  BY <1>1, <1>2, <1>3 DEF Inv, TransportTypeOK, targetVars, probeVars, Dials
<1>5. /\ DoneInv' /\ InfoInv' /\ ProtocolInv' /\ CipherInv'
      /\ ExpiryIsNamed' /\ HSTSInv'
  BY <1>1, <1>2, <1>3, <1>4, FrameInv DEF HandshakeChecks
<1>6. RedirectInv'
  <2>1. UNCHANGED <<server, scheme, port>>
    BY <1>1 DEF targetVars
  <2>2. server.plain \in {"closed", "page", "toHTTPS", "toOther", "toHTTP"}
    BY TransportAssumption DEF Inv, TransportTypeOK, AllServers
  <2>3. (~port /\ F = {} /\ \E a \in PlainAnswers : F = RedirectFindings(a))
          => server.plain \in {"closed", "toHTTPS", "toOther"}
    BY <2>2 DEF PlainAnswers, RedirectFindings
  <2>. QED
    BY <1>2, <1>3, <2>1, <2>3 DEF RedirectInv
<1>. QED
  BY <1>4, <1>5, <1>6 DEF Inv

\* hsts reads the stored page.
LEMMA HSTSStepInv == ASSUME Inv, RunHSTS PROVE Inv'
<1> DEFINE c == "hsts"
<1>1. /\ fetched \in Landings /\ c \in Checks
      /\ Finish(c, HSTSFindings(server.hsts[fetched]))
      /\ UNCHANGED <<targetVars, validity, probeVars, lost, version>>
  BY DEF RunHSTS, Checks
<1>2. /\ DOMAIN reports' = Checks
      /\ reports'[c] = reports[c] \cup HSTSFindings(server.hsts[fetched])
      /\ \A d \in Checks : d # c => reports'[d] = reports[d]
      /\ done' = done \cup {c} /\ done' \subseteq Checks
  BY <1>1, FinishChangesOne DEF Inv
<1>3. TransportTypeOK'
  BY <1>1, <1>2 DEF Inv, TransportTypeOK, targetVars, probeVars
<1>4. /\ DoneInv' /\ InfoInv' /\ ProtocolInv' /\ CipherInv'
      /\ ExpiryIsNamed' /\ RedirectInv'
  BY <1>1, <1>2, <1>3, FrameInv DEF HandshakeChecks, Landings
<1>5. HSTSInv'
  <2>1. UNCHANGED <<server, fetched>>
    BY <1>1 DEF targetVars, probeVars
  <2>. QED
    BY <1>2, <2>1 DEF HSTSInv
<1>. QED
  BY <1>3, <1>4, <1>5 DEF Inv

\* Time passing keeps the invariant: an expired certificate stays expired.
LEMMA AgeInv == ASSUME Inv, Age PROVE Inv'
<1>1. /\ UNCHANGED <<server, scheme, port, fetched, info, lost, version,
                     reports, done>>
      /\ validity' \in {"soon", "expired"} /\ validity # "expired"
  BY DEF Age, targetVars, probeVars, checkVars
<1>2. TransportTypeOK' /\ DoneInv' /\ InfoInv'
  BY <1>1 DEF Inv, TransportTypeOK, DoneInv, InfoInv, Handshaken
<1>3. ProtocolInv' /\ CipherInv'
  BY <1>1
  DEF Inv, ProtocolInv, CipherInv, Handshaken, Accepts, AcceptsLegacy,
      VersionName
<1>4. ExpiryIsNamed' /\ RedirectInv' /\ HSTSInv'
  BY <1>1 DEF Inv, ExpiryIsNamed, RedirectInv, HSTSInv
<1>. QED
  BY <1>2, <1>3, <1>4 DEF Inv

LEMMA TransportNextInv == Inv /\ [Next]_vars => Inv'
<1> SUFFICES ASSUME Inv, [Next]_vars PROVE Inv'
  OBVIOUS
<1>1. CASE RunHTTPFetch \/ RunTLSInfo
  BY <1>1, ProbeInv
<1>2. CASE SkipUnlessFetched \/ \E c \in Checks : SkipUnlessHandshaken(c)
  BY <1>2, SkipInv
<1>3. CASE RunProtocolVersion
  BY <1>3, ProtocolStepInv
<1>4. CASE RunCipherStrength
  BY <1>4, CipherStepInv
<1>5. CASE RunCertificate
  BY <1>5, CertificateStepInv
<1>6. CASE RunHTTPSRedirect
  BY <1>6, RedirectStepInv
<1>7. CASE RunHSTS
  BY <1>7, HSTSStepInv
<1>8. CASE Age
  BY <1>8, AgeInv
<1>9. CASE UNCHANGED vars
  <2>1. UNCHANGED <<server, scheme, port, validity, fetched, info, lost,
                    version, reports, done>>
    BY <1>9 DEF vars, targetVars, probeVars, checkVars
  <2>2. TransportTypeOK' /\ DoneInv' /\ InfoInv'
    BY <2>1 DEF Inv, TransportTypeOK, DoneInv, InfoInv, Handshaken
  <2>3. ProtocolInv' /\ CipherInv'
    BY <2>1
    DEF Inv, ProtocolInv, CipherInv, Handshaken, Accepts, AcceptsLegacy,
        VersionName
  <2>4. ExpiryIsNamed' /\ RedirectInv' /\ HSTSInv'
    BY <2>1 DEF Inv, ExpiryIsNamed, RedirectInv, HSTSInv
  <2>. QED
    BY <2>2, <2>3, <2>4 DEF Inv
<1>. QED
  BY <1>1, <1>2, <1>3, <1>4, <1>5, <1>6, <1>7, <1>8, <1>9 DEF Next

LEMMA TransportInvariant == Spec => []Inv
  BY TransportInitInv, TransportNextInv, PTL DEF Spec

\* The TLS checks' variables keep their types; protocol_version dials each
\* deprecated version once and then ends.
THEOREM TransportTypeCorrect == Spec => []TransportTypeOK
<1>1. Inv => TransportTypeOK
  BY DEF Inv
<1>. QED
  BY <1>1, TransportInvariant, PTL

\* A handshake a server completes at a deprecated version is with a suite of
\* the default offer, or one cipher_strength offers completes as well.
LEMMA OldVersionsShow ==
  ASSUME Inv, NEW v \in {10, 11}, Speaks(v) PROVE Accepts(v) \/ AcceptsLegacy
<1>1. PICK x \in server.suites : Spoken(x, v) /\ v \in server.versions
  BY DEF Speaks
<1>2. server.suites \subseteq {"aead", "cbc", "legacy"}
  BY TransportAssumption DEF Inv, TransportTypeOK, AllServers
<1>3. x \in {"cbc", "legacy"}
  BY <1>1, <1>2 DEF Spoken
<1>4. CASE x = "cbc"
  <2> DEFINE h == [version |-> v, suite |-> "cbc"]
  <2>1. h \in Handshakes(server, v, v, defaultSuites)
    BY <1>1, <1>4 DEF Handshakes, defaultSuites, Spoken, Versions
  <2>. QED
    BY <2>1 DEF Accepts
<1>5. CASE x = "legacy"
  <2> DEFINE h(w) == [version |-> w, suite |-> "legacy"]
  <2>1. server.versions \subseteq Versions
    BY TransportAssumption DEF Inv, TransportTypeOK, AllServers
  <2>2. PICK w \in {10, 11, 12} :
          /\ w \in server.versions
          /\ \A u \in server.versions : (10 <= u /\ u <= 12) => u <= w
    <3>1. CASE 12 \in server.versions
      BY <2>1, <3>1 DEF Versions
    <3>2. CASE 12 \notin server.versions /\ 11 \in server.versions
      BY <2>1, <3>2 DEF Versions
    <3>3. CASE 12 \notin server.versions /\ 11 \notin server.versions
      BY <1>1, <2>1, <3>3 DEF Versions
    <3>. QED
      BY <3>1, <3>2, <3>3
  <2>3. h(w) \in Handshakes(server, 10, 12, weakSuites)
    BY <1>5, <2>2
    DEF Handshakes, weakSuites, insecureSuiteIDs, Spoken, Versions
  <2>. QED
    BY <2>3 DEF AcceptsLegacy
<1>. QED
  BY <1>3, <1>4, <1>5

\* A server that speaks TLS 1.0 or 1.1 escapes neither check, for every set of
\* versions and suites, unless a dial was lost or the shared handshake failed.
THEOREM OldVersionsAreAlwaysFound == Spec => []OldVersionsAreFound
<1>1. Inv => OldVersionsAreFound
  <2> SUFFICES ASSUME Inv,
                      {"protocol_version", "cipher_strength"} \subseteq done,
                      Handshaken, lost \cap {"tls10", "tls11", "weak"} = {},
                      NEW v \in {10, 11}, Speaks(v)
               PROVE  \/ VersionName(v) \in reports["protocol_version"]
                      \/ "weak suite" \in reports["cipher_strength"]
    BY DEF OldVersionsAreFound
  <2>1. CASE Accepts(v)
    <3>1. version = 12 /\ v < version
      BY DEF Inv, ProtocolInv
    <3>2. VersionName(v) \notin lost
      BY DEF VersionName
    <3>. QED
      BY <2>1, <3>1, <3>2 DEF Inv, ProtocolInv
  <2>2. CASE AcceptsLegacy
    BY <2>2 DEF Inv, CipherInv
  <2>. QED
    BY <2>1, <2>2, OldVersionsShow
<1>. QED
  BY <1>1, TransportInvariant, PTL

\* What the two checks report as accepted is, and a lack of forward secrecy is
\* reported of no server.
THEOREM WeakFindingsAreAlwaysTrue == Spec => []WeakFindingsAreTrue
<1>1. Inv => WeakFindingsAreTrue
  <2> SUFFICES ASSUME Inv PROVE WeakFindingsAreTrue
    OBVIOUS
  <2>1. \A v \in {10, 11} : Accepts(v) => Speaks(v)
    <3> SUFFICES ASSUME NEW v \in {10, 11}, Accepts(v) PROVE Speaks(v)
      OBVIOUS
    <3>1. PICK h \in [version : Versions,
                      suite : {"aead", "cbc", "legacy", "tls13"}] :
            /\ h.version \in server.versions
            /\ v <= h.version /\ h.version <= v
            /\ \/ h.version = 13
               \/ h.suite \in server.suites /\ Spoken(h.suite, h.version)
      BY DEF Accepts, Handshakes
    <3>2. h.version = v
      BY <3>1 DEF Versions
    <3>. QED
      BY <3>1, <3>2 DEF Speaks
  <2>2. AcceptsLegacy => "legacy" \in server.suites
    BY DEF AcceptsLegacy, Handshakes, weakSuites, insecureSuiteIDs
  <2>. QED
    BY <2>1, <2>2 DEF Inv, ProtocolInv, CipherInv, WeakFindingsAreTrue
<1>. QED
  BY <1>1, TransportInvariant, PTL

\* A trusted certificate that failed verification is named as expired.
THEOREM ExpiryIsAlwaysNamed == Spec => []ExpiryIsNamed
<1>1. Inv => ExpiryIsNamed
  BY DEF Inv
<1>. QED
  BY <1>1, TransportInvariant, PTL

\* A silent hsts has read a max-age as long as recommended, and one that
\* browsers read too.
LEMMA SilentHSTSPins ==
  ASSUME NEW h \in Seq(Directive), HSTSFindings(h) = {}, ~Lenient(h)
  PROVE  Pinned(h)
<1>1. h # <<>>
  BY DEF HSTSFindings
<1>2. /\ \E d \in Directives(h, "max-age") : ~(Atoi(d) < MinSaneMaxAge)
      /\ Directives(h, "includesubdomains") # {}
  BY <1>1 DEF HSTSFindings
<1>3. PICK i \in DOMAIN h :
        h[i].name = "max-age" /\ ~(Atoi(h[i]) < MinSaneMaxAge)
  BY <1>2 DEF Directives
<1>4. h[i] \in Directive
  BY LenProperties, ElementOfSeq
<1>5. h[i].seconds \in Nat /\ h[i].form \in {"digits", "quoted", "junk"}
  BY <1>3, <1>4 DEF Directive, Lenient
<1>6. h[i].form = "digits" /\ h[i].seconds >= MinSaneMaxAge
  BY <1>3, <1>5, TransportAssumption DEF Atoi
<1>7. Heeded(h)
  BY <1>3, <1>6 DEF Heeded, Lenient, Repeats
<1>8. \E j \in DOMAIN h : h[j].name = "includesubdomains"
  BY <1>2 DEF Directives
<1>. QED
  BY <1>3, <1>6, <1>7, <1>8 DEF Pinned

\* Silence of https_redirect and hsts protects the visitors of an https site,
\* on the https host whose page they are shown, wherever redirects lead.
THEOREM VisitorsAreAlwaysProtected == Spec => []VisitorsAreProtected
<1>1. Inv => VisitorsAreProtected
  <2> SUFFICES ASSUME Inv, {"https_redirect", "hsts"} \subseteq done,
                      fetched \in Landings, scheme = "https", ~port,
                      "plain" \notin lost,
                      reports["https_redirect"] = {}, reports["hsts"] = {}
               PROVE  /\ server.plain \in {"closed", "toHTTPS", "toOther"}
                      /\ ~Lenient(server.hsts[fetched]) =>
                           Pinned(server.hsts[fetched])
    BY DEF VisitorsAreProtected
  <2>1. server.plain \in {"closed", "toHTTPS", "toOther"}
    BY DEF Inv, RedirectInv
  <2>2. HSTSFindings(server.hsts[fetched]) = {}
    BY DEF Inv, HSTSInv
  <2>3. server.hsts[fetched] \in Seq(Directive)
    BY TransportAssumption DEF Inv, TransportTypeOK, AllServers
  <2>. QED
    BY <2>1, <2>2, <2>3, SilentHSTSPins
<1>. QED
  BY <1>1, TransportInvariant, PTL
=============================================================================
