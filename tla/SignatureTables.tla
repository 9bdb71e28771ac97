--------------------------- MODULE SignatureTables ---------------------------
(***************************************************************************)
(* The lists of paths and words of the disclosure checks.                  *)
(***************************************************************************)
EXTENDS Naturals, Sequences

Sig(path, markers) ==
  [path |-> path, query |-> FALSE, any |-> FALSE, markers |-> markers]

exposed_management == <<
  Sig("/api/rawdata", {"\"routers\"", "\"services\""}),
  Sig("/dashboard/", {"Traefik"}),
  [Sig("/haproxy?stats", {"HAProxy Statistics", "haproxy"})
     EXCEPT !.query = TRUE],
  Sig("/clusters", {"::observability_name::", "cx_active"}),
  Sig("/config_dump", {"\"configs\"", "bootstrap"}),
  Sig("/server_info", {"\"version\"", "envoy"}),
  Sig("/nginx_status", {"Active connections"}),
  Sig("/server-status", {"Server Status", "Apache Server Status"}) >>

listingMarkers == {"Index of /", "<title>Directory listing for",
                   "Parent Directory</a>"}

directory_listing ==
  [i \in 1..6 |-> Sig(<<"/", "/static/", "/assets/", "/files/", "/public/",
                        "/uploads/">>[i], listingMarkers)]

envMarkers == {"SECRET", "PASSWORD", "API_KEY", "DATABASE_URL", "_KEY=",
               "_TOKEN="}

configMarkers == {"server {", "location /", "upstream ", "<VirtualHost",
                  "DocumentRoot", "version:", "services:", "image:",
                  "[core]", "[remote "}

config_exposure == <<
  Sig("/.env", envMarkers),
  Sig("/nginx.conf", configMarkers),
  Sig("/docker-compose.yml", configMarkers),
  Sig("/web.config", configMarkers),
  Sig("/.git/config", configMarkers) >>

verboseMarkers == {"Traceback (most recent call last)", "Exception in thread",
                   ".java:", "System.Exception", "at System.", "Fatal error:",
                   "Warning: ", "Whitelabel Error Page", "django.core",
                   "/home/", "/var/www/", "/usr/local/", "C:\\Users\\",
                   "C:\\inetpub\\"}

\* The path that does not exist, and the target's own URL with a malformed
\* Range header.
verbose_errors == <<
  [Sig("nonexistentPath", verboseMarkers) EXCEPT !.any = TRUE],
  [Sig("malformedRange", verboseMarkers) EXCEPT !.any = TRUE] >>

signatures == [exposed_management |-> exposed_management,
               directory_listing |-> directory_listing,
               config_exposure |-> config_exposure,
               verbose_errors |-> verbose_errors]
=============================================================================
