--------------------------- MODULE TransportChecks ---------------------------
(***************************************************************************)
(* The checks of tls/ with the two probes they read, against one server.   *)
(*                                                                         *)
(* A server accepts a set of protocol versions and of cipher suites, taken *)
(* as crypto/tls takes them: "aead" and "cbc" suites have an ECDHE key     *)
(* exchange and are in its default offer, "legacy" ones (RC4, 3DES, RSA    *)
(* key exchange) are those of InsecureCipherSuites.  Its port 80 and its   *)
(* https answers may redirect, to another host too, and each page a        *)
(* request can end at has an HSTS header of its own: a sequence of         *)
(* directives.  Dials and requests may fail, and time passes, so the       *)
(* certificate may expire between the handshake and the check that reads   *)
(* it.                                                                     *)
(***************************************************************************)
EXTENDS Integers, Sequences, FiniteSets

CONSTANTS
  Servers,        \* the servers, among AllServers
  MinSaneMaxAge,  \* hsts: 180 days
  MaxLost         \* bound on the dials and requests that fail

Versions == 10..13   \* TLS 1.0 to TLS 1.3

\* A directive of Strict-Transport-Security.  form is how the value is written;
\* Atoi fails on all but digits (and a sign, which browsers reject).
Directive == [name : {"max-age", "includesubdomains", "preload"},
              form : {"digits", "quoted", "signed", "junk"}, seconds : Nat]

\* Where a request can end: at an https page of the target's host or of
\* another, or at a page served over plain HTTP.
Landings == {"target", "other", "plain"}

\* plain is what port 80 answers: a redirect is to https of the target's host
\* or of another, or to plain HTTP.  answer is where an https request ends.
AllServers ==
  [versions : SUBSET Versions, suites : SUBSET {"aead", "cbc", "legacy"},
   trusted : BOOLEAN, stapled : BOOLEAN,
   plain : {"closed", "page", "toHTTPS", "toOther", "toHTTP"},
   answer : Landings, hsts : [Landings -> Seq(Directive)]]

ASSUME TransportAssumption ==
  /\ Servers \subseteq AllServers
  /\ MinSaneMaxAge \in Nat \ {0}
  /\ MaxLost \in Nat

VARIABLES
  server,     \* the target
  scheme,     \* of the target URL
  port,       \* the target URL names its port
  validity,   \* of the certificate, now
  fetched,    \* the shared fetch: none yet, failed, or where it ended
  info,       \* the shared handshake: none yet, failed, or its outcome
  lost,       \* the dials and requests that failed
  version,    \* protocol_version: the version it dials next
  reports,    \* what each check has reported
  done        \* checks that have finished, by Run or by their skip rule

targetVars == <<server, scheme, port>>
probeVars == <<fetched, info>>
checkVars == <<version, reports, done>>
vars == <<targetVars, validity, probeVars, lost, checkVars>>

Checks == {"protocol_version", "cipher_strength", "certificate",
           "https_redirect", "hsts"}

Dials == {"http_fetch", "tls_info", "tls10", "tls11", "weak", "plain"}

----------------------------------------------------------------------------
(***************************************************************************)
(* The server, and crypto/tls.                                             *)
(***************************************************************************)

\* AEAD suites exist from TLS 1.2 on.
Spoken(suite, v) == v = 12 \/ (v < 12 /\ suite # "aead")

\* A handshake: the highest version in common, then a suite of that version.
Handshakes(s, lo, hi, offer) ==
  {h \in [version : Versions, suite : {"aead", "cbc", "legacy", "tls13"}] :
     /\ h.version \in s.versions /\ lo <= h.version /\ h.version <= hi
     /\ \A v \in s.versions : (lo <= v /\ v <= hi) => v <= h.version
     /\ \/ h.version = 13 /\ h.suite = "tls13"
        \/ h.version < 13 /\ h.suite \in s.suites \cap offer
             /\ Spoken(h.suite, h.version)}

\* The offer of a client that names no suites, and its versions.
defaultSuites == {"aead", "cbc"}
insecureSuiteIDs == {"legacy"}

\* DialTLS with both versions zero.
DefaultHandshakes(s) == Handshakes(s, 12, 13, defaultSuites)

\* VerifyCertificate: trust and hostname, and the dates.
Verifies == server.trusted /\ validity # "expired"

Info == [version : Versions, suite : {"aead", "cbc", "legacy", "tls13"},
         verified : BOOLEAN]
NoInfo == [version |-> 0, suite |-> "none", verified |-> FALSE]
FailedInfo == [version |-> 0, suite |-> "failed", verified |-> FALSE]

May(d) == Cardinality(lost) < MaxLost /\ lost' = lost \cup {d}

\* An https request to the target: the client verifies the chain, and follows
\* the redirects of the answer.
SecureLanding == IF DefaultHandshakes(server) # {} /\ Verifies
                 THEN server.answer ELSE "failed"

\* HTTPFetchCheck: where client.Do ends from the target URL.
Landing ==
  CASE scheme = "https" \/ server.plain = "toHTTPS" -> SecureLanding
    [] scheme = "http" /\ server.plain = "toOther" -> "other"
    [] scheme = "http" /\ server.plain = "closed" -> "failed"
    [] OTHER -> "plain"

\* The fetch is lost also when a host it is redirected to fails.
RunHTTPFetch ==
  /\ fetched = "none"
  /\ \/ fetched' = Landing /\ lost' = lost
     \/ fetched' = "failed" /\ May("http_fetch")
  /\ UNCHANGED <<targetVars, validity, info, checkVars>>

RunTLSInfo ==
  /\ info = NoInfo
  /\ \/ /\ \E h \in DefaultHandshakes(server) :
             info' = [version |-> h.version, suite |-> h.suite,
                      verified |-> Verifies]
        /\ lost' = lost
     \/ DefaultHandshakes(server) = {} /\ info' = FailedInfo /\ lost' = lost
     \/ info' = FailedInfo /\ May("tls_info")
  /\ UNCHANGED <<targetVars, validity, fetched, checkVars>>

----------------------------------------------------------------------------
(***************************************************************************)
(* The checks.                                                             *)
(***************************************************************************)

Finish(c, findings) ==
  /\ reports' = [reports EXCEPT ![c] = @ \cup findings]
  /\ done' = done \cup {c}

Handshaken == info \notin {NoInfo, FailedInfo}

\* protocol_version's, cipher_strength's and certificate's skip rule: the
\* shared handshake failed.
SkipUnlessHandshaken(c) ==
  /\ c \in {"protocol_version", "cipher_strength", "certificate"} \ done
  /\ info = FailedInfo
  /\ Finish(c, {})
  /\ UNCHANGED <<targetVars, validity, probeVars, lost, version>>

\* hsts's: SkipUnlessFetched.
SkipUnlessFetched ==
  /\ "hsts" \notin done /\ fetched = "failed"
  /\ Finish("hsts", {})
  /\ UNCHANGED <<targetVars, validity, probeVars, lost, version>>

VersionName(v) == IF v = 10 THEN "tls10" ELSE "tls11"

\* Mutant of ProtocolRejected: the first version that is refused ends the check.
ProtocolRejectedLast ==
  version' = 12 /\ Finish("protocol_version", {})

\* The loop's next version; after TLS 1.1 the check returns.
NextVersion(findings) ==
  /\ version' = version + 1
  /\ reports' = [reports EXCEPT !["protocol_version"] = @ \cup findings]
  /\ done' = IF version = 11 THEN done \cup {"protocol_version"} ELSE done

\* A handshake that fails at the forced version counts as a refusal.
ProtocolRejected == NextVersion({})

\* protocol_version dials one deprecated version.
RunProtocolVersion ==
  /\ "protocol_version" \notin done /\ Handshaken
  /\ LET hs == Handshakes(server, version, version, defaultSuites) IN
       \/ hs # {} /\ NextVersion({VersionName(version)}) /\ lost' = lost
       \/ hs = {} /\ ProtocolRejected /\ lost' = lost
       \/ ProtocolRejected /\ May(VersionName(version))
  /\ UNCHANGED <<targetVars, validity, probeVars>>

hasForwardSecrecy(i) == i.version = 13 \/ i.suite \in {"aead", "cbc"}

NegotiatedFindings ==
  IF hasForwardSecrecy(info) THEN {} ELSE {"no forward secrecy"}

\* Mutant of weakSuites: the default offer is dialled.
weakSuitesDefault == defaultSuites

\* The suites cipher_strength offers.
weakSuites == insecureSuiteIDs

RunCipherStrength ==
  /\ "cipher_strength" \notin done /\ Handshaken
  /\ LET hs == Handshakes(server, 10, 12, weakSuites) IN
       \/ /\ hs # {} /\ lost' = lost
          /\ Finish("cipher_strength", NegotiatedFindings \cup {"weak suite"})
       \/ /\ hs = {} /\ lost' = lost
          /\ Finish("cipher_strength", NegotiatedFindings)
       \/ /\ May("weak")
          /\ Finish("cipher_strength", NegotiatedFindings)
  /\ UNCHANGED <<targetVars, validity, probeVars, version>>

\* Mutant of ExpiryFindings: the window is looked at before the expiry.
ExpiryFindingsWindowFirst ==
  IF validity \in {"soon", "expired"} THEN {"expires soon"} ELSE {}

\* The switch over leaf.NotAfter, at the time the check runs.
ExpiryFindings ==
  IF validity = "expired" THEN {"expired"}
  ELSE IF validity = "soon" THEN {"expires soon"} ELSE {}

RunCertificate ==
  /\ "certificate" \notin done /\ Handshaken
  /\ Finish("certificate",
            {f \in {"unverified", "no staple"} :
               IF f = "unverified" THEN ~info.verified ELSE ~server.stapled}
            \cup ExpiryFindings)
  /\ UNCHANGED <<targetVars, validity, probeVars, lost, version>>

\* What the plain request meets.  It goes to the port of the target URL: a
\* named one speaks TLS, and answers 400 or hangs up.
PlainAnswers == IF port THEN {"closed", "page"} ELSE {server.plain}

\* A redirect's scheme is looked at, its host is not.
RedirectFindings(answer) ==
  IF answer = "page" THEN {"not redirected"}
  ELSE IF answer = "toHTTP" THEN {"not to https"} ELSE {}

RunHTTPSRedirect ==
  /\ "https_redirect" \notin done
  /\ \/ scheme # "https" /\ Finish("https_redirect", {}) /\ lost' = lost
     \/ /\ scheme = "https" /\ lost' = lost
        /\ \E a \in PlainAnswers :
             Finish("https_redirect", RedirectFindings(a))
     \/ /\ scheme = "https" /\ May("plain")
        /\ Finish("https_redirect", {})
  /\ UNCHANGED <<targetVars, validity, probeVars, version>>

\* parseDirectives: a directive that is repeated overwrites the one before.
Directives(h, name) ==
  {h[i] : i \in {k \in DOMAIN h : /\ h[k].name = name
                                 /\ \A j \in DOMAIN h :
                                      h[j].name = name => j <= k}}

\* Mutant of Atoi: a number is read as far as it goes, whatever follows it.
AtoiPrefix(d) == IF d.form \in {"digits", "signed", "junk"} THEN d.seconds ELSE 0

\* strconv.Atoi, its error dropped.  (Of a number that no int holds it returns
\* the largest int, which compares like the number.)
Atoi(d) == IF d.form \in {"digits", "signed"} THEN d.seconds ELSE 0

HSTSFindings(h) ==
  IF h = <<>> THEN {"missing"}
  ELSE {f \in {"max-age", "includeSubDomains", "preload"} :
          \/ /\ f = "max-age"
             /\ \A d \in Directives(h, "max-age") : Atoi(d) < MinSaneMaxAge
          \/ f = "includeSubDomains" /\ Directives(h, "includesubdomains") = {}
          \/ f = "preload" /\ Directives(h, "preload") = {}}

\* It reads the header of the page the fetch ended at, whosever that is.
RunHSTS ==
  /\ "hsts" \notin done /\ fetched \in Landings
  /\ Finish("hsts", HSTSFindings(server.hsts[fetched]))
  /\ UNCHANGED <<targetVars, validity, probeVars, lost, version>>

\* Time passes.
Age ==
  /\ \/ validity = "fine" /\ validity' = "soon"
     \/ validity = "soon" /\ validity' = "expired"
  /\ UNCHANGED <<targetVars, probeVars, lost, checkVars>>

----------------------------------------------------------------------------
Init ==
  /\ server \in Servers
  /\ scheme \in {"http", "https"}
  /\ port \in BOOLEAN
  /\ validity \in {"fine", "soon", "expired"}
  /\ fetched = "none"
  /\ info = NoInfo
  /\ lost = {}
  /\ version = 10
  /\ reports = [c \in Checks |-> {}]
  /\ done = {}

Next ==
  \/ RunHTTPFetch
  \/ RunTLSInfo
  \/ \E c \in Checks : SkipUnlessHandshaken(c)
  \/ SkipUnlessFetched
  \/ RunProtocolVersion
  \/ RunCipherStrength
  \/ RunCertificate
  \/ RunHTTPSRedirect
  \/ RunHSTS
  \/ Age

Spec == Init /\ [][Next]_vars

----------------------------------------------------------------------------
(***************************************************************************)
(* Properties.                                                             *)
(***************************************************************************)

\* The variables keep their types, and protocol_version has ended when it is
\* past the last deprecated version (protocol_version/check.go: Check).
TransportTypeOK ==
  /\ server \in Servers
  /\ scheme \in {"http", "https"}
  /\ port \in BOOLEAN
  /\ validity \in {"fine", "soon", "expired"}
  /\ fetched \in {"none", "failed"} \cup Landings
  /\ info \in Info \cup {NoInfo, FailedInfo}
  /\ lost \subseteq Dials
  /\ version \in 10..12
  /\ version = 12 => "protocol_version" \in done
  /\ DOMAIN reports = Checks
  /\ done \subseteq Checks

\* The server completes handshakes at a deprecated version.
Speaks(v) == v \in server.versions /\ \E x \in server.suites : Spoken(x, v)

\* protocol_version offers only ECDHE suites and so misses a deprecated version
\* that is spoken with legacy ones, but no such server escapes both it and
\* cipher_strength, unless a dial was lost or the shared handshake failed.
OldVersionsAreFound ==
  ( /\ {"protocol_version", "cipher_strength"} \subseteq done
    /\ Handshaken
    /\ lost \cap {"tls10", "tls11", "weak"} = {} ) =>
    \A v \in {10, 11} : Speaks(v) =>
      \/ VersionName(v) \in reports["protocol_version"]
      \/ "weak suite" \in reports["cipher_strength"]

\* What is reported as accepted is; and forward secrecy is never reported as
\* lacking: a server without ECDHE suites completes no default handshake, and
\* the check that would say so is skipped.
WeakFindingsAreTrue ==
  /\ \A v \in {10, 11} :
       VersionName(v) \in reports["protocol_version"] => Speaks(v)
  /\ "weak suite" \in reports["cipher_strength"] => "legacy" \in server.suites
  /\ "no forward secrecy" \notin reports["cipher_strength"]

\* A certificate the shared handshake found trusted but out of date is named
\* as expired, not as expiring, however much later the check runs.
ExpiryIsNamed ==
  ("unverified" \in reports["certificate"] /\ server.trusted) =>
    "expired" \in reports["certificate"]

Repeats(h) == \E i, j \in DOMAIN h : i # j /\ h[i].name = h[j].name

\* RFC 6797: a browser ignores a header that repeats a directive or whose
\* max-age is not a number, which may be quoted.
Heeded(h) ==
  /\ ~Repeats(h)
  /\ \A i \in DOMAIN h : h[i].name = "max-age" =>
       h[i].form \in {"digits", "quoted"}

\* What hsts reads and a browser ignores all the same.
Lenient(h) ==
  \/ Repeats(h)
  \/ \E i \in DOMAIN h : h[i].name = "max-age" /\ h[i].form = "signed"

\* The browser keeps to HTTPS for at least the recommended time.
Pinned(h) ==
  /\ Heeded(h)
  /\ \E i \in DOMAIN h : h[i].name = "max-age" /\ h[i].seconds >= MinSaneMaxAge
  /\ \E i \in DOMAIN h : h[i].name = "includesubdomains"

\* If https_redirect and hsts have run on an https target without a named port
\* and are silent, a visitor's first plain request is refused or sent to
\* HTTPS, and the browser then keeps to HTTPS on the host whose page it is
\* shown - unless that is over plain HTTP, where browsers heed no policy, or
\* the header repeats a directive or signs its max-age.  A max-age that does
\* not parse never counts as protection (https_redirect/check.go and
\* hsts/check.go: Check).
VisitorsAreProtected ==
  ( /\ {"https_redirect", "hsts"} \subseteq done /\ fetched \in Landings
    /\ scheme = "https" /\ ~port /\ "plain" \notin lost
    /\ reports["https_redirect"] = {} /\ reports["hsts"] = {} ) =>
    /\ server.plain \in {"closed", "toHTTPS", "toOther"}
    /\ (fetched # "plain" /\ ~Lenient(server.hsts[fetched])) =>
         Pinned(server.hsts[fetched])
=============================================================================
