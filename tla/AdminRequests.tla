--------------------------- MODULE AdminRequests ---------------------------
(* The requests of administrators (require_admin_api_key), each of which   *)
(* happens at most once.  gunicorn serves them in several processes.       *)
CONSTANTS
    Requests,
    NoRequest    \* who wrote what no request has written

ASSUME RequestAssumption == NoRequest \notin Requests
=============================================================================
