-------------------------- MODULE MCTransportChecks --------------------------
(***************************************************************************)
(* The servers of the small instance of TransportChecks.                   *)
(***************************************************************************)
EXTENDS TransportChecks

D(name, form, seconds) == [name |-> name, form |-> form, seconds |-> seconds]

Rest == <<D("includesubdomains", "junk", 0), D("preload", "junk", 0)>>
Age2 == D("max-age", "digits", 2)

Good == <<Age2>> \o Rest

Modern ==
  [versions |-> {12, 13}, suites |-> {"aead"}, trusted |-> TRUE,
   stapled |-> TRUE, plain |-> "toHTTPS", answer |-> "target",
   hsts |-> [l \in Landings |-> Good]]

\* Versions with suites; port 80 with HSTS headers; where an https request
\* ends with the headers there and at the target; the certificate.
ServersDef ==
  {[Modern EXCEPT !.versions = v, !.suites = x] :
     v \in {{10}, {10, 11, 12}, {11, 13}, {12}},
     x \in {{"aead", "cbc"}, {"aead", "legacy"}, {"legacy"}}}
  \cup
  {[Modern EXCEPT !.plain = p, !.hsts["target"] = h] :
     p \in {"closed", "page", "toHTTPS", "toOther", "toHTTP"},
     h \in {<<>>, Rest, Good,
            <<D("max-age", "digits", 1)>> \o Rest,
            <<D("max-age", "quoted", 2)>> \o Rest,
            <<D("max-age", "junk", 2)>> \o Rest,
            <<D("max-age", "digits", 1), Age2>> \o Rest}}
  \cup
  {[Modern EXCEPT !.answer = a, !.hsts["target"] = t, !.hsts[a] = h] :
     a \in {"other", "plain"}, t \in {<<>>, Good}, h \in {<<>>, Rest, Good}}
  \cup {[Modern EXCEPT !.trusted = FALSE, !.stapled = FALSE]}
=============================================================================
