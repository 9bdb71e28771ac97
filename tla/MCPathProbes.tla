----------------------------- MODULE MCPathProbes -----------------------------
(***************************************************************************)
(* PathProbes with the code's lists, the pages the products behind them    *)
(* have, and five pages for unknown paths.                                 *)
(***************************************************************************)
EXTENDS PathProbes, SignatureTables

MCWords == STRING

Says(words) == [ok |-> TRUE, says |-> words]
NotFound(words) == [ok |-> FALSE, says |-> words]

\* An IIS web.config says none of the words config_exposure looks for.
MCGenuine ==
  [exposed_management |->
     << Says({"\"routers\""}), Says({"Traefik"}), Says({"HAProxy Statistics"}),
        Says({"cx_active"}), Says({"\"configs\""}), Says({"\"version\""}),
        Says({"Active connections"}), Says({"Apache Server Status"}) >>,
   directory_listing |-> [i \in 1..6 |-> Says({"Index of /"})],
   config_exposure |->
     << Says({"_KEY="}), Says({"server {", "location /"}), Says({"image:"}),
        Says({"<configuration>"}), Says({"[core]"}) >>,
   verbose_errors |-> << NotFound({".java:"}), NotFound({"/var/www/"}) >>]

\* A plain 404, one that names its server, an application's shell whose style
\* sheet has a background-image:, one that links to /home/, an empty 200.
MCFallbacks == {NotFound({"text"}), NotFound({"Apache Server Status"}),
                Says({"image:"}), Says({"/home/"}), Says({})}
=============================================================================
