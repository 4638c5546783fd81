----------------------------- MODULE MCStartup ------------------------------
(***************************************************************************)
(* Environments and events for Startup.  Every variable that the code      *)
(* branches on is unset and set, with an empty or unusable value where     *)
(* that makes a difference; the statuses are the boundaries of the error   *)
(* classes, and a response may be captured before its request.  Headers    *)
(* are asked for that are not there, are empty, or that net/http keeps.    *)
(***************************************************************************)
EXTENDS Startup

CanonicalKey(name) == IF name = "traceparent" THEN "Traceparent" ELSE name
SanitizedKey(name) ==
    CASE name = "User-Agent" -> "user_agent"
      [] name = "Traceparent" -> "traceparent"
      [] name = "Cookie" -> "cookie"
      [] name = "Content-Length" -> "content_length"
      [] name = "Cache-Control" -> "cache_control"
      [] OTHER -> name

HeaderLists ==
    {Unset, <<"">>, <<"User-Agent", " Traceparent">>,
     <<"traceparent", "", "Cookie", "Host", "Content-Length", "Cache-Control">>}

AllEnvs ==
    [HONEYCOMB_API_KEY: {Unset, "key"}, HONEYCOMB_API_ENDPOINT: {Unset, "http://test"},
     HONEYCOMB_DATASET: {Unset}, HONEYCOMB_STATS_DATASET: {"stats"}, LOG_LEVEL: {Unset},
     DEBUG: {"yes", "true"}, DEBUG_ADDRESS: {""}, AGENT: {Unset, "node"},
     ADDITIONAL_ATTRIBUTES: {<< <<"env", "test">>, <<"odd">>, <<"env", "prod">> >>},
     INCLUDE_REQUEST_URL: {Unset, "false"}, HTTP_HEADERS: HeaderLists,
     HANDLER_TYPE: {Unset, "libhoney", "zipkin"}]

PlainHeader ==
    Field("Host", "h") ++ Field("User-Agent", "ua") ++ Field("Traceparent", "00-1")
    ++ Field("Cookie", "") ++ Field("Content-Length", "1")
ChunkedHeader ==
    Field("Host", "h") ++ Field("Traceparent", "") ++ Field("Cookie", "c")
    ++ Field("Transfer-Encoding", "chunked") ++ Field("Content-Length", "1")
    ++ Field("Pragma", "no-cache")

Requests ==
    [method: {"GET"}, length: {1}, uriValid: BOOLEAN, path: {"/"},
     chunked: {FALSE}, header: {NoFields, PlainHeader}]
    \cup [method: {"POST"}, length: {-1}, uriValid: {TRUE}, path: {"/"},
          chunked: {TRUE}, header: {ChunkedHeader}]
Responses ==
    [status: {200, 399, 400, 499, 500}, length: {1}, chunked: {FALSE}, header: {PlainHeader}]

AllWire ==
    [requestTimestamp: {5}, responseTimestamp: {4, 7}, request: Requests, response: Responses]
    \cup [requestTimestamp: {5}, responseTimestamp: {0}, request: Requests, response: {Missing}]
    \cup [requestTimestamp: {0}, responseTimestamp: {4}, request: {Missing}, response: Responses]

FourPatterns == <<"/debug/pprof/", "/debug/pprof/delta_heap", "/debug/vars", "/debug/metrics">>

ASSUME AllApart == AddedApart /\ NamesApart
=============================================================================
