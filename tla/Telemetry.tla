----------------------------- MODULE Telemetry ------------------------------
(***************************************************************************)
(* What becomes of an event in the two handlers: the fields of a libhoney  *)
(* event (handlers/libhoney_event_handler.go) and the attributes and times *)
(* of a span (handlers/otel_handler.go), as operators on the event.        *)
(*                                                                         *)
(* The header of a message is a function from names, in their canonical    *)
(* form, to values, of which "" is one.  A half that the event does not    *)
(* have is Missing, and its timestamp is 0.  The fields are a function     *)
(* from keys to values, and the name of an event is the sequence of its    *)
(* words; the attributes of the Kubernetes client are left to K8sCache,    *)
(* and the fields that copy ids, addresses and counts are left out.        *)
(***************************************************************************)
EXTENDS Integers, Sequences, FiniteSets

CONSTANTS
    Missing,       \* the nil pointer of a half that was not captured
    BuildVersion,  \* main's Version
    Canonical(_),  \* http.CanonicalHeaderKey
    Sanitized(_)   \* a header's name in lower case and with _ for -

NoFields == [k \in {} |-> 0]
Field(key, value) == [k \in {key} |-> value]
FieldIf(b, key, value) == IF b THEN Field(key, value) ELSE NoFields

\* The fields of both; of a key that both have, the first counts.
f ++ g == [k \in DOMAIN f \cup DOMAIN g |-> IF k \in DOMAIN f THEN f[k] ELSE g[k]]

\* Header.Get, of a canonical name; of several values it is the first.
Get(header, name) == IF name \in DOMAIN header THEN header[name] ELSE ""

(* What http.ReadRequest and http.ReadResponse hand over of a message's    *)
(* header: some of it they take out for fields of their own, and they add  *)
(* what Pragma stands for.                                                 *)
HandedOver(kind, message) ==
    LET taken == {"Transfer-Encoding"}
                 \cup (IF kind = "request" THEN {"Host"} ELSE {})
                 \cup (IF message.chunked THEN {"Content-Length", "Trailer"} ELSE {})
        read  == message.header
                 ++ FieldIf(Get(message.header, "Pragma") = "no-cache", "Cache-Control", "no-cache")
    IN  [h \in DOMAIN read \ taken |-> read[h]]

\* Mutant of extractHeaders: all headers are kept.
KeepHeaders(names, header) == header

\* header.Get and header.Set make a name canonical first; an empty value is no header.
extractHeaders(names, header) ==
    [h \in {Canonical(n) : n \in names} \cap {g \in DOMAIN header : header[g] # ""} |-> header[h]]

\* Of two headers with one sanitized key, either may be the last in a map's order.
sanitizeHeaders(header) ==
    [k \in {Sanitized(h) : h \in DOMAIN header} |->
        header[CHOOSE h \in DOMAIN header : Sanitized(h) = k]]

\* What parse leaves of a message.
Parsed(kind, c, message) ==
    IF message = Missing THEN Missing
    ELSE [message EXCEPT
            !.header = extractHeaders(c.HTTPHeadersToExtract, HandedOver(kind, message))]

\* NewHttpEvent, of the messages as they are on the wire.
NewHttpEvent(c, wire) ==
    [wire EXCEPT !.request = Parsed("request", c, @), !.response = Parsed("response", c, @)]

IsZero(timestamp) == timestamp = 0

-----------------------------------------------------------------------------
(* The libhoney handler.                                                   *)

\* A timestamp and how long ago it was, in milliseconds.
CaptureFields(half, timestamp, now) ==
    IF half = "request"
    THEN Field("http.request.timestamp", timestamp)
         ++ Field("meta.request.capture_to_handle.latency_ms", now - timestamp)
    ELSE Field("http.response.timestamp", timestamp)
         ++ Field("meta.response.capture_to_handle.latency_ms", now - timestamp)

setTimestampsAndDurationIfValid(ev, now) ==
    LET req == ev.requestTimestamp
        res == ev.responseTimestamp
    IN  CASE IsZero(req) /\ IsZero(res) ->
               [timestamp |-> now, fields |-> Field("meta.timestamps_missing", "request, response")]
          [] IsZero(req) /\ ~IsZero(res) ->
               [timestamp |-> res, fields |-> Field("meta.timestamps_missing", "request")
                                              ++ CaptureFields("response", res, now)]
          [] ~IsZero(req) /\ IsZero(res) ->
               [timestamp |-> req, fields |-> Field("meta.timestamps_missing", "response")
                                              ++ CaptureFields("request", req, now)]
          [] OTHER ->
               [timestamp |-> req, fields |-> CaptureFields("request", req, now)
                                              ++ CaptureFields("response", res, now)
                                              ++ Field("duration_ms", res - req)]

\* Mutant of ErrorField: the boundary of the server errors.
ErrorAbove500(status) ==
    FieldIf(status > 500, "error", "HTTP server error")
    ++ FieldIf(status <= 500 /\ status >= 400, "error", "HTTP client error")

ErrorField(status) ==
    FieldIf(status >= 500, "error", "HTTP server error")
    ++ FieldIf(status < 500 /\ status >= 400, "error", "HTTP client error")

PathField(c, request) ==
    FieldIf(c.IncludeRequestURL /\ request.uriValid, "url.path", request.path)

addHttpFields(c, ev) ==
    (IF ev.request # Missing
     THEN Field("name", <<"HTTP", ev.request.method>>)
          ++ Field("http.request.method", ev.request.method)
          ++ Field("user_agent.original", Get(ev.request.header, "User-Agent"))
          ++ Field("http.request.body.size", ev.request.length)
          ++ PathField(c, ev.request)
     ELSE Field("name", <<"HTTP">>)
          ++ Field("http.request.missing", "no request on this event"))
    ++
    (IF ev.response # Missing
     THEN Field("http.response.status_code", ev.response.status)
          ++ ErrorField(ev.response.status)
          ++ Field("http.response.body.size", ev.response.length)
     ELSE Field("http.response.missing", "no response on this event"))

HeadersOf(message) == IF message = Missing THEN NoFields ELSE sanitizeHeaders(message.header)

\* What both handlers say of the agent, whatever the deployment tells it.
AgentIdentity ==
    Field("honeycomb.agent.name", "Honeycomb Network Agent")
    ++ Field("honeycomb.agent.version", BuildVersion)

\* initLibhoney: the fields that are set on all events; a later one replaces an
\* earlier one of its name.
initLibhoney(c) ==
    c.AdditionalAttributes ++ AgentIdentity
    ++ [f \in {f \in DOMAIN c.Agent : c.Agent[f] # ""} |-> c.Agent[f]]

LibhoneyEvent(c, ev, now) ==
    LET times == setTimestampsAndDurationIfValid(ev, now)
    IN  [timestamp |-> times.timestamp,
         fields    |-> times.fields ++ addHttpFields(c, ev),
         global    |-> initLibhoney(c),
         requestHeaders |-> HeadersOf(ev.request), responseHeaders |-> HeadersOf(ev.response)]

-----------------------------------------------------------------------------
(* The OpenTelemetry handler.                                              *)

\* The attributes of the resource, those without a value included.
NewOtelHandler(c) == AgentIdentity ++ c.Agent ++ Field("net.component", "proxy")

\* Mutant of getEventStartEndTimestamps: an event without a response ends now.
EndOpenNow(ev, now) ==
    LET req == ev.requestTimestamp
        res == ev.responseTimestamp
    IN  [start |-> IF IsZero(req) THEN res ELSE req,
         end   |-> IF IsZero(res) THEN now ELSE res,
         attrs |-> setTimestampsAndDurationIfValid(ev, now).fields]

getEventStartEndTimestamps(ev, now) ==
    LET req == ev.requestTimestamp
        res == ev.responseTimestamp
        missing == "meta.timestamps_missing"
    IN  CASE IsZero(req) /\ IsZero(res) ->
               [start |-> now, end |-> now, attrs |-> Field(missing, "request, response")]
          [] IsZero(req) /\ ~IsZero(res) ->
               [start |-> res, end |-> res,
                attrs |-> Field(missing, "request") ++ CaptureFields("response", res, now)]
          [] ~IsZero(req) /\ IsZero(res) ->
               [start |-> req, end |-> req,
                attrs |-> Field(missing, "response") ++ CaptureFields("request", req, now)]
          [] OTHER ->
               [start |-> req, end |-> res,
                attrs |-> CaptureFields("request", req, now) ++ CaptureFields("response", res, now)
                          ++ Field("duration_ms", res - req)]

\* The keys that are sent twice, the second time under the name they used to have.
DualSent == {"http.method", "http.request_content_length", "http.target", "http.status_code",
             "http.response_content_length"}

resolveHTTPAttributes(c, ev) ==
    (IF ev.request # Missing
     THEN Field("http.request.method", ev.request.method) ++ Field("http.method", ev.request.method)
          ++ Field("http.request.body.size", ev.request.length)
          ++ Field("http.request_content_length", ev.request.length)
          ++ PathField(c, ev.request)
          ++ FieldIf(c.IncludeRequestURL /\ ev.request.uriValid, "http.target", ev.request.path)
     ELSE Field("http.request.missing", "no request on this event"))
    ++
    (IF ev.response # Missing
     THEN Field("http.response.status_code", ev.response.status)
          ++ Field("http.status_code", ev.response.status)
          ++ Field("http.response.body.size", ev.response.length)
          ++ Field("http.response_content_length", ev.response.length)
          ++ FieldIf(ev.response.status >= 500, "error", "HTTP server error")
          ++ FieldIf(ev.response.status < 500 /\ ev.response.status >= 400,
                     "error", "HTTP client error")
     ELSE Field("http.response.missing", "no response on this event"))

\* Mutant of getContextFromHTTPEvent: every span begins a trace of its own.
NoContext(ev) == FALSE

\* Whether the span continues the trace of the request: the propagator finds
\* the context in what is left of the request's headers.
getContextFromHTTPEvent(ev) ==
    ev.request # Missing /\ Get(ev.request.header, "Traceparent") # ""

createHTTPSpan(c, ev, now) ==
    LET times == getEventStartEndTimestamps(ev, now)
    IN  [name |-> IF ev.request = Missing THEN <<"HTTP">> ELSE <<ev.request.method>>,
         start |-> times.start, end |-> times.end,
         attrs |-> times.attrs ++ resolveHTTPAttributes(c, ev),
         resource  |-> NewOtelHandler(c),
         continues |-> getContextFromHTTPEvent(ev),
         requestHeaders |-> HeadersOf(ev.request), responseHeaders |-> HeadersOf(ev.response)]
=============================================================================
