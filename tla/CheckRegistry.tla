--------------------------- MODULE CheckRegistry ---------------------------
(***************************************************************************)
(* The registry of proxyaudit's checks (proxy.AllChecks): which checks     *)
(* exist, which shared probe each one depends on (depends_on in its        *)
(* check.yaml), which skip rule guards it (checkdef.WithSkip in its        *)
(* check.go), which probe's stored data its code reads, and how it talks   *)
(* to the target.  A check is named by the last part of its CheckID.       *)
(***************************************************************************)

\* The two shared probes, in the order AllChecks registers them.
HTTPFetch == "http_fetch"
TLSInfo == "tls_info"
Probes == {HTTPFetch, TLSInfo}

\* The checks AllChecks registers, by category.
TLSChecks == {"protocol_version", "cipher_strength", "certificate",
              "https_redirect", "hsts"}
HeaderChecks == {"csp", "frame_options", "content_type_options",
                 "referrer_policy", "permissions_policy", "server_banner",
                 "cookie_flags", "cors"}
HeaderTrustChecks == {"x_forwarded_for", "x_real_ip", "true_client_ip",
                      "x_forwarded_host", "host_header_injection",
                      "vhost_confusion", "forwarded_consistency",
                      "acl_bypass"}
DisclosureChecks == {"exposed_management", "directory_listing",
                     "config_exposure", "verbose_errors"}
AccessControlChecks == {"path_bypass", "method_bypass",
                        "nginx_alias_traversal"}
CachingChecks == {"authenticated_caching", "vary_consistency",
                  "cache_poisoning", "cache_deception"}
WAFChecks == {"baseline_payloads", "encoding_bypass",
              "content_type_consistency"}

\* proxy.AllChecks.
AllChecks == Probes \cup TLSChecks \cup HeaderChecks \cup HeaderTrustChecks
               \cup DisclosureChecks \cup AccessControlChecks
               \cup CachingChecks \cup WAFChecks

----------------------------------------------------------------------------
\* Mutant of FetchDependents: tls/hsts loses its depends_on.
FetchDependentsWithoutHSTS ==
  (HeaderChecks \ {"cors"}) \cup CachingChecks \cup {"nginx_alias_traversal"}

\* depends_on: "probe.http_fetch" (headers/* except cors, tls/hsts, the
\* caching checks and nginx_alias_traversal).
FetchDependents == (HeaderChecks \ {"cors"}) \cup {"hsts"} \cup CachingChecks
                     \cup {"nginx_alias_traversal"}

\* depends_on: "probe.tls_info".
TLSDependents == {"protocol_version", "cipher_strength", "certificate"}

\* The edges harnessx wires from every check.yaml's depends_on.
DependsOn(c) == {p \in Probes : \/ p = HTTPFetch /\ c \in FetchDependents
                                \/ p = TLSInfo /\ c \in TLSDependents}

\* Checks whose Run reads the shared fetch off the store, answering
\* ErrFetchUnavailable when it is missing or failed.
RunReadsFetch == (HeaderChecks \ {"cors"}) \cup {"hsts"}

\* Checks whose Run reads the shared handshake: certificate answers
\* errNoCertificate without it, cipher_strength leaves out its first finding.
RunReadsTLSInfo == {"cipher_strength", "certificate"}

\* Mutant of SkipUnlessFetchedChecks: tls/hsts loses its WithSkip.
SkipUnlessFetchedWithoutHSTS == (RunReadsFetch \ {"hsts"}) \cup CachingChecks

\* Mutant of SkipUnlessFetchedChecks: certificate, too, waits for a response.
SkipUnlessFetchedWithCertificate ==
  RunReadsFetch \cup CachingChecks \cup {"certificate"}

\* The skip rule each check.go attaches with checkdef.WithSkip.
SkipUnlessFetchedChecks == RunReadsFetch \cup CachingChecks
SkipUnlessNginxChecks == {"nginx_alias_traversal"}
SkipUnlessHandshakeChecks == {"protocol_version", "cipher_strength",
                              "certificate"}

\* Checks that read stored data only and send nothing themselves.
StoreOnly == (HeaderChecks \ {"cors"}) \cup {"hsts", "certificate"}

\* Everything that dials TLS itself, under DialTimeout.
TLSDialers == {TLSInfo, "protocol_version", "cipher_strength"}

\* Everything that sends HTTP requests through ScanContext.HTTPClient.
HTTPSenders == AllChecks \ (StoreOnly \cup TLSDialers)
=============================================================================
