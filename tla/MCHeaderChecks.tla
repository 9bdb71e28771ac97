--------------------------- MODULE MCHeaderChecks ---------------------------
(***************************************************************************)
(* Pages and policies for the small instances of HeaderChecks.             *)
(***************************************************************************)
EXTENDS HeaderChecks

NamesDef == {"sid", "lang"}

Safe == [name |-> "sid", secure |-> TRUE, httpOnly |-> TRUE,
         sameSite |-> "set"]
Bare == [name |-> "lang", secure |-> FALSE, httpOnly |-> TRUE,
         sameSite |-> "unrecognised"]
Lax == [name |-> "sid", secure |-> TRUE, httpOnly |-> TRUE,
        sameSite |-> "absent"]

Hardened ==
  [csp |-> <<"framing">>, xfo |-> "", nosniff |-> TRUE, referrer |-> TRUE,
   permissions |-> TRUE, server |-> FALSE, poweredBy |-> FALSE,
   cookies |-> {Safe}]

PagesDef ==
  {Hardened,
   [Hardened EXCEPT !.csp = <<"plain">>],
   [Hardened EXCEPT !.csp = <<"plain">>, !.xfo = "DENY"],
   [Hardened EXCEPT !.cookies = {Safe, Bare}],
   [Hardened EXCEPT !.csp = <<>>, !.nosniff = FALSE, !.referrer = FALSE,
                    !.permissions = FALSE, !.server = TRUE,
                    !.poweredBy = TRUE],
   [Hardened EXCEPT !.csp = <<"plain", "framing">>],
   [Hardened EXCEPT !.csp = <<>>, !.xfo = "bogus", !.cookies = {Lax}]}

PoliciesDef ==
  {[get |-> [allow |-> "reflect", credentials |-> TRUE],
    options |-> [allow |-> "", credentials |-> FALSE], maxAge |-> 4],
   [get |-> [allow |-> "reflect", credentials |-> FALSE],
    options |-> [allow |-> "*", credentials |-> TRUE], maxAge |-> 2],
   [get |-> [allow |-> "*", credentials |-> TRUE],
    options |-> [allow |-> "reflect", credentials |-> TRUE], maxAge |-> 3]}
=============================================================================
