------------------------------ MODULE Startup -------------------------------
(***************************************************************************)
(* The agent from its environment to its first event: main.go up to the    *)
(* point where EventPipeline begins, with the debug service                *)
(* (debug/debug_service.go), which serves from a goroutine of its own      *)
(* while main goes on, the choice of the event handler                     *)
(* (handlers/event_handler.go), one event in it and one report of the      *)
(* assembler's statistics.                                                 *)
(*                                                                         *)
(* The world outside answers as it likes: the key is verified or not, the  *)
(* debug address is free or not, there is a Kubernetes cluster or none,    *)
(* its lists come or not, and a signal may end the process at any time.    *)
(***************************************************************************)
EXTENDS Config, Telemetry

CONSTANTS
    Envs,      \* the environments the agent is started in
    Wire,      \* the request/response pairs on the wire, as events
    Patterns,  \* the patterns the debug service registers, in order
    Now        \* the time at which the event is handled

(* A header has a name (net/textproto skips one that has none), the        *)
(* canonical form of a canonical name is that name, and a message is not   *)
(* Missing for having lost its header.                                     *)
ASSUME StartupConstants ==
    /\ IsInjective(Patterns) /\ Patterns \in Seq(STRING) /\ Now \in Int /\ BuildVersion # ""
    /\ \A w \in Wire :
          /\ DOMAIN w = {"request", "response", "requestTimestamp", "responseTimestamp"}
          /\ w.requestTimestamp \in Int /\ w.responseTimestamp \in Int
          /\ w.request = Missing <=> w.requestTimestamp = 0
          /\ w.response = Missing <=> w.responseTimestamp = 0
          /\ \A m \in {w.request, w.response} \ {Missing} :
                /\ "header" \in DOMAIN m /\ "" \notin DOMAIN m.header
                /\ \A e \in Envs, kind \in {"request", "response"} :
                      Parsed(kind, NewConfig(e), m) # Missing
    /\ \A h \in {"", "User-Agent", "Traceparent"} : Canonical(h) = h

VARIABLES
    env,       \* the environment
    main,      \* where main is
    config,    \* the configuration, from NewConfig on
    verified,  \* the answer of the API to the key
    urls,      \* DebugService.urls and its mux
    expVars,   \* DebugService.expVars
    server,    \* the debug service's goroutine
    index,     \* history: the index as it was last served
    handler,   \* the event handler that was made
    wire,      \* the messages of the event that was handled
    sent,      \* what the handler made of it
    statsStored \* whether the last stats event was stored, if there was one

debugVars == <<urls, expVars, server, index>>
sentVars  == <<wire, sent, statsStored>>
vars == <<env, main, config, verified, debugVars, handler, sentVars>>

Nothing == [of |-> "nothing"]

Init ==
    /\ env \in Envs /\ main = "config" /\ config = NewConfig(env)
    /\ verified = FALSE
    /\ urls = << >> /\ expVars = {} /\ server = "off" /\ index = << >>
    /\ handler = "none" /\ wire = Nothing /\ sent = Nothing /\ statsStored = "none"

-----------------------------------------------------------------------------
(* main.                                                                   *)

\* setupLogging, and the line that says what the agent was started with, the
\* key masked.
SetupLogging ==
    /\ main = "config"
    /\ main' = "validate"
    /\ UNCHANGED <<env, config, verified, debugVars, handler, sentVars>>

\* config.Validate(), and log.Fatal if it has something to say.
ValidateConfig ==
    /\ main = "validate"
    /\ verified' \in IF config.Endpoint = DefaultEndpoint THEN BOOLEAN ELSE {FALSE}
    /\ main' = IF Validate(config, verified') # {} THEN "exited"
               ELSE IF config.Debug THEN "debug" ELSE "k8s"
    /\ UNCHANGED <<env, config, debugVars, handler, sentVars>>

\* DebugService.Start: the next pattern is added to the mux and to the index.
HandleFunc ==
    /\ main = "debug" /\ Len(urls) < Len(Patterns)
    /\ urls' = Append(urls, Patterns[Len(urls) + 1])
    /\ UNCHANGED <<env, main, config, verified, expVars, server, index, handler, sentVars>>

\* Publish panics when the name is taken.
Publish(name) ==
    /\ main' = IF name \in expVars THEN "exited" ELSE main
    /\ expVars' = expVars \cup {name}

PublishNext ==
    /\ main = "debug" /\ Len(urls) = Len(Patterns)
    /\ \E name \in {"cmdline", "memstats"} \ expVars :
          (name = "memstats" => "cmdline" \in expVars) /\ Publish(name)
    /\ UNCHANGED <<env, config, verified, urls, server, index, handler, sentVars>>

\* Mutant of Serve: the goroutine is started before the patterns are registered.
ServeEarly ==
    /\ main = "debug"
    /\ server' = "binding"
    /\ main' = IF Len(urls) = Len(Patterns) /\ expVars = {"cmdline", "memstats"} THEN "k8s" ELSE main
    /\ UNCHANGED <<env, config, verified, urls, expVars, index, handler, sentVars>>

\* go func() { ... http.ListenAndServe(addr, s.mux) }, and Start returns.
Serve ==
    /\ main = "debug" /\ Len(urls) = Len(Patterns) /\ expVars = {"cmdline", "memstats"}
    /\ server' = "binding"
    /\ main' = "k8s"
    /\ UNCHANGED <<env, config, verified, urls, expVars, index, handler, sentVars>>

\* setupK8s: log.Fatal without a cluster config or a client.
SetupK8s ==
    /\ main = "k8s"
    /\ main' \in {"sync", "exited"}
    /\ UNCHANGED <<env, config, verified, debugVars, handler, sentVars>>

\* CachedK8sClient.Start returns: K8sCache.
Synced ==
    /\ main = "sync"
    /\ main' = "handler"
    /\ UNCHANGED <<env, config, verified, debugVars, handler, sentVars>>

\* Mutant of NewEventHandler: the fallback of an unknown type is missing.
NoFallback ==
    /\ main = "handler"
    /\ \/ config.EventHandlerType = "otel" /\ handler' = "otel" /\ main' = "ready"
       \/ config.EventHandlerType = "libhoney" /\ handler' = "libhoney" /\ main' = "ready"
    /\ UNCHANGED <<env, config, verified, debugVars, sentVars>>

\* NewOtelHandler may fail, with log.Fatal; an unknown type means libhoney.
NewEventHandler ==
    /\ main = "handler"
    /\ \/ config.EventHandlerType = "otel" /\ handler' = "otel" /\ main' = "ready"
       \/ config.EventHandlerType = "otel" /\ main' = "exited" /\ UNCHANGED handler
       \/ config.EventHandlerType # "otel" /\ handler' = "libhoney" /\ main' = "ready"
    /\ UNCHANGED <<env, config, verified, debugVars, sentVars>>

\* Before signal.Notify a signal ends the process where it stands.
Killed ==
    /\ main \notin {"ready", "exited"}
    /\ main' = "exited"
    /\ UNCHANGED <<env, config, verified, debugVars, handler, sentVars>>

-----------------------------------------------------------------------------
(* The debug service's goroutine, and its clients.                         *)

\* ListenAndServe binds the address, or its error is logged and that was it.
Bind ==
    /\ main # "exited" /\ server = "binding"
    /\ server' \in {"listening", "ended"}
    /\ UNCHANGED <<env, main, config, verified, urls, expVars, index, handler, sentVars>>

\* indexHandler
ServeIndex ==
    /\ main # "exited" /\ server = "listening"
    /\ index' = urls
    /\ UNCHANGED <<env, main, config, verified, urls, expVars, server, handler, sentVars>>

-----------------------------------------------------------------------------
(* The event handler and the assembler's stats, once both run.             *)

HandleEvent ==
    /\ main = "ready" /\ wire = Nothing
    /\ wire' \in Wire
    /\ LET ev == NewHttpEvent(config, wire')
       IN  sent' = IF handler = "otel" THEN createHTTPSpan(config, ev, Now)
                   ELSE LibhoneyEvent(config, ev, Now)
    /\ UNCHANGED <<env, main, config, verified, debugVars, handler, statsStored>>

(* logAssemblerStats sends through libhoney's default client, which has no *)
(* key and no endpoint unless initLibhoney gave it them; the error of Send *)
(* is not looked at.                                                       *)
LogAssemblerStats ==
    /\ main = "ready" /\ statsStored = "none"
    /\ statsStored' = IF handler = "libhoney" THEN config.StatsDataset ELSE "nowhere"
    /\ UNCHANGED <<env, main, config, verified, debugVars, handler, wire, sent>>

-----------------------------------------------------------------------------
Main == SetupLogging \/ ValidateConfig \/ HandleFunc \/ PublishNext \/ Serve \/ SetupK8s
        \/ NewEventHandler
Next == Main \/ Synced \/ Killed \/ Bind \/ ServeIndex \/ HandleEvent \/ LogAssemblerStats

Spec == Init /\ [][Next]_vars

(* main runs while it can.  Nothing is assumed of the cluster's lists.     *)
FairSpec == Spec /\ WF_vars(Main)

-----------------------------------------------------------------------------
(* What the user's names must keep to: no attribute that is added has the  *)
(* name of one the agent sets (libhoney would let the user's replace it,   *)
(* and OpenTelemetry does not have it), and no two headers that parse is   *)
(* handed have the same name once it is sanitized (a map has room for      *)
(* one).                                                                   *)
AddedApart ==
    \A e \in Envs : DOMAIN LookupEnvAsStringMap(e.ADDITIONAL_ATTRIBUTES)
                       \cap (AgentFields \cup DOMAIN AgentIdentity) = {}

NamesApart ==
    \A w \in Wire, kind \in {"request", "response"} : w[kind] # Missing =>
        \A g, h \in DOMAIN HandedOver(kind, w[kind]) : Sanitized(g) = Sanitized(h) => g = h

-----------------------------------------------------------------------------
(* No event leaves the agent with a key that the API has not confirmed,    *)
(* as long as it goes to the API: every way to the handler passes          *)
(* Validate, with and without the debug service.                           *)
EventsNeedVerifiedKey ==
    sent # Nothing /\ config.Endpoint = DefaultEndpoint => verified /\ config.APIKey # ""

(* Whoever reaches the debug service finds it complete: the goroutine that *)
(* serves cannot overtake the registrations, so the index that is served   *)
(* names every endpoint and never one that the mux does not have.          *)
IndexIsComplete ==
    /\ server = "listening" => expVars = {"cmdline", "memstats"} /\ urls = Patterns
    /\ index \in {<< >>, Patterns}

\* The event that is being handled, as both handlers would send it.
AsLibhoney == LibhoneyEvent(config, NewHttpEvent(config, wire), Now)
AsSpan == createHTTPSpan(config, NewHttpEvent(config, wire), Now)
CommonKeys == DOMAIN AsSpan.attrs \ DualSent

(* The two handlers, written twice, tell the same story of every event,    *)
(* one with a missing half included: the same fields with the same values, *)
(* the same headers, the event's timestamp is the start of the span, and   *)
(* the span is as long as the duration says, or has no length when there   *)
(* is none; and they say the same of the agent itself, where what is not   *)
(* known has an empty value in one and is not there in the other.          *)
(*                                                                         *)
(* They differ in this: the name, "HTTP GET" here and "GET" there, where   *)
(* there is a request, and the same "HTTP" where there is none;            *)
(* user_agent.original, which only libhoney's event has; the old names in  *)
(* DualSent and net.component, which only the span has; and the user's     *)
(* additional attributes, which only libhoney's event has.                 *)
HandlersAgree ==
    wire # Nothing =>
        LET h   == AsLibhoney
            o   == AsSpan
            own == DOMAIN h.global \ DOMAIN config.AdditionalAttributes
        IN  /\ DOMAIN h.fields \ {"name", "user_agent.original"} = CommonKeys
            /\ \A k \in CommonKeys : o.attrs[k] = h.fields[k]
            /\ h.fields["name"] = IF wire.request = Missing THEN o.name ELSE <<"HTTP">> \o o.name
            /\ o.start = h.timestamp
            /\ o.end - o.start = IF "duration_ms" \in CommonKeys THEN h.fields["duration_ms"] ELSE 0
            /\ h.requestHeaders = o.requestHeaders /\ h.responseHeaders = o.responseHeaders
            /\ own = {f \in DOMAIN o.resource \ {"net.component"} : o.resource[f] # ""}
            /\ \A f \in own : h.global[f] = o.resource[f]

(* What was configured to stay inside does: a value of a header leaves the *)
(* agent only if the header is in HTTP_HEADERS, or is a default one while  *)
(* that is not set, the user agent's second copy in libhoney's event       *)
(* included, and the path of the request only if INCLUDE_REQUEST_URL is    *)
(* not off.  And what is asked for comes out under its name, as long as it *)
(* is not empty and net/http hands it over, which it does not with Host    *)
(* and Transfer-Encoding, nor with a chunked message's Content-Length and  *)
(* Trailer.                                                                *)
Asked(h) ==
    IF env.HTTP_HEADERS = Unset THEN h \in {"User-Agent", "Traceparent"}
    ELSE \E i \in DOMAIN env.HTTP_HEADERS : Canonical(env.HTTP_HEADERS[i]) = h
Leaving(header) == {h \in DOMAIN header : header[h] # "" /\ Asked(h)}
Reports(headers, header) ==
    /\ DOMAIN headers = {Sanitized(h) : h \in Leaving(header)}
    /\ \A h \in Leaving(header) : headers[Sanitized(h)] = header[h]
OnlyWhatIsConfigured ==
    sent # Nothing =>
        /\ wire.request # Missing =>
              LET header == HandedOver("request", wire.request)
              IN  /\ Reports(sent.requestHeaders, header)
                  /\ handler # "otel" => sent.fields["user_agent.original"] =
                        IF "User-Agent" \in Leaving(header) THEN header["User-Agent"] ELSE ""
        /\ wire.response # Missing =>
              Reports(sent.responseHeaders, HandedOver("response", wire.response))
        /\ env.INCLUDE_REQUEST_URL = "false" =>
              "url.path" \notin DOMAIN (IF handler = "otel" THEN sent.attrs ELSE sent.fields)

(* The span of a request that carries a trace context continues its trace, *)
(* through parse's copy of the headers, exactly if Traceparent is among    *)
(* the headers to extract, in whatever case but without a space.           *)
TraceIsContinued ==
    handler = "otel" /\ sent # Nothing /\ wire.request # Missing =>
        (sent.continues <=> Get(wire.request.header, "Traceparent") # "" /\ Asked("Traceparent"))

(* Starting ends: main comes to be ready or exits, whatever the type of    *)
(* the handler and whether the debug service can listen or not; only the   *)
(* cluster can hold it up, in WaitForCacheSync, which has no time limit.   *)
StartupEnds == <>[](main \in {"ready", "sync", "exited"})

(* What README.md says of HONEYCOMB_STATS_DATASET, "Dataset where          *)
(* operational statistics for the network agent are stored".               *)
StatsAreStored == statsStored # "none" => statsStored = config.StatsDataset
=============================================================================
