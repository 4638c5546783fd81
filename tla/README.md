# The Honeycomb Network Agent in TLA+

The agent captures HTTP traffic on a Kubernetes node, reassembles it, pairs
every request with its response and exports the pair as an event. This
directory models the agent from its start to its exit: configuration and
start-up, the reassembly callbacks, the pairing, the goroutines and the channel
between capture and export, the Kubernetes lookups and what the two handlers
report. TLC checks the models on small instances; TLAPS proves almost all of the
safety properties for every size, that the agent as a whole implements its two
halves, and that the pipeline implements its abstract specification.

`PROJECT.json` is the index: runs, properties, mutants, the source lines behind
every definition, findings, hazards and theorems.

## The system

| Component | State | Operations | Talks to |
|---|---|---|---|
| Life cycle, `main.go` | context, `wgServices`, `shutdownNow` | start the services; on a signal: cancel, wait, close, exit | starts handler and assembler, closes the handler |
| TCP assembler, `tcp_assembler.go`, `tcp_stream_factory.go` | packet source, gopacket assembler and stream pool, two tickers, global counters | `Start` (select loop), `Stop`, `logAssemblerStats`, `New` | gopacket, which calls back into streams; libhoney for stats |
| TCP stream, `tcp_stream.go` | id, addresses, `fsmerr`, a buffer, its parser | `Accept`, `ReassembledSG`, `ReassemblyComplete` | parser; global counters |
| HTTP parser and matcher, `http_parser.go`, `http_matcher.go`, `http_event.go` | a map from request id to a half-filled `entry` | `parse`, `extractHeaders`, `GetOrStoreRequest`, `GetOrStoreResponse` | sends on the events channel, blocking |
| Event handlers, `handlers/` | exporter (libhoney or OpenTelemetry) | `Start` (select loop), `handleEvent`, `Close` | receive from the channel; Kubernetes cache |
| Kubernetes cache, `utils/cached_k8s_client.go` | three informers, an index by IP | lookups by source and destination address | handlers |
| Configuration, `config/`, `utils/env.go` | read once | `NewConfig`, `Validate`, `buildBpfFilter` | everything |
| Debug service, `debug/` | a mux, the list of its patterns, the published variables | `Start`, `Handle`, `HandleFunc`, `Publish`, the index | its HTTP clients |

Three goroutines matter most: the assembler's (all callbacks of gopacket run in
it), the handler's, and main's signal goroutine. They share the events channel,
the context and the WaitGroup. The exporter, the three informers and the debug
service have goroutines of their own.

What is hard:

* the shutdown: handler and assembler see the cancelled context independently,
  and the assembler makes more events while it stops;
* the channel at its limit, where the assembler waits in the middle of a packet;
* request ids that come from TCP numbers of one packet while the data come from
  another, under loss, reordering, retransmission and the holes the capture
  filter makes;
* timeouts that flush and close streams while packets are on their way;
* what is retained of pairs that never become complete;
* a send in the middle of a flush, which holds up the rest of the flush;
* lookups that read three caches, each of another age, one after the other, for an
  event that was captured some time ago;
* two handlers that were written separately and should report the same.

A fact that shapes everything: the capture filter (`buildBpfFilter`) lets only
those packets through whose payload *begins* a request or a response. SYNs, bare
ACKs and FINs and the continuation of a message never reach the agent. A
direction therefore starts in the middle and has holes, and gopacket's buffering
and flushing are the normal case and not the exception.

## Modules

* `MatcherOps` - the matcher's operations on its map, as operators. An entry with
  all fields zero stands for an absent key: no stored entry is like that.
  Messages are numbers, `Nil` is 0.
* `HttpMatcher` - one matcher with its parser. `messages` is the map; `arrived`
  and `events` are history. Messages of both kinds come in any order on any key;
  the i-th message on a key has identity, timestamp and packet count i.
* `TcpAssembler` - one assembler with all its streams, each with its own matcher
  (by `MatcherOps`). `source` is the packet channel, `pool` gopacket's stream
  pool, `todo` what the running flush has still to visit, `stats` the counters.
  `Packet` is the packet case of the select, with the callbacks it leads to
  (`New`, `Accept`, `ReassembledSG`, `ReassemblyComplete`) inside the step;
  `BeginFlush` and `FlushStep` are the ticker case, taken one half connection at
  a time; `BeginStop`, `FlushStep`, `Stopped` are `Stop`. gopacket is not part of
  the repository and is modelled from how the agent drives it; those definitions
  are marked external. It stands between two versions of one decision, whether a
  direction may start without its SYN (`StartAnywhere`): both are run.
* `EventPipeline` - `main`, the assembler's goroutine reduced to the events it
  makes, the channel, the handler's goroutine, the exporter. One action per step
  between which another goroutine can be scheduled.
* `Delivery` - what the pipeline promises, without goroutines, channel or signals:
  events are handled once, in order, with a bounded number on the way, and the
  process does not end while the exporter holds something. `EventPipeline`
  instantiates it with `Window <- ChannelBufferSize + 2`.
* `Agent` - `TcpAssembler` and `EventPipeline` put together. The assembler's steps
  are the pipeline's `BeginWork`, `MakeEvent`, `EndWork` and so on, taken jointly; between the
  match (`found`) and the end of the send nothing else of the assembler happens, while
  wire, clock, handler and main go on. The stats tick (`TakeStats`) is the third case of the
  select, beside the packet and the flush.
* `K8sCache` - the cluster as a history of versions, three informers that follow it at their own
  pace (`at`), and one lookup, a step per index it reads.
* `Config` - environment lookups, `NewConfig`, `Validate` as operators.
* `Telemetry` - what net/http hands over of a message's header (`HandedOver`, external),
  `extractHeaders`, `sanitizeHeaders`, and what each handler makes of an event and says of
  the agent, as operators.
* `Startup` - `main` from `NewConfig` to the handler, the debug service beside it, one
  event through the handler that was chosen, one report of the statistics; built
  on `Config` and `Telemetry`.
* `MCHttpMatcher`, `MCTcpAssembler`, `MCEventPipeline`, `MCAgent`, `MCK8sCache`,
  `MCStartup` - instances for TLC.
* `HttpMatcherProofs`, `EventPipelineProofs`, `TcpAssemblerProofs`, `K8sCacheProofs`,
  `StartupProofs` - the theorems about the module of that name; `AgentProofs` - the
  agent implements its halves; `MatchingProofs` - the pairing of requests and responses,
  in the assembler and through the agent; `ForgottenProofs` - where each captured message
  is, and what a shutdown forgets.

Definitions whose comment starts with "Mutant of" are not part of a model: each
is a plausible bug, and putting it in place of the definition it follows makes
TLC refute the property it is listed with.

### Abstractions

In the assembler payloads are left out: a packet has a connection, a
sender, a kind (request, response, or torn, which means that it cannot be parsed),
sequence and acknowledgement numbers, a length, FIN, and the request/response
cycle it belongs to, which only the properties look at. The clock is a set of
ages, capped at one more than the larger timeout. The early `continue`s of
`Start` (no network layer, fragments, failed checksum setup) and packets dropped by
the kernel are the one action `Lose`. The exporter takes an event or refuses it;
retries and failures of the network behind it are its own affair, and "delivered"
means that it has made its attempt. In `EventPipeline` the stats event is counted as
in the libhoney handler's configuration; `Startup` has both. In `TcpAssembler` a
batch that is delivered runs to the end; what a full channel does to the send is in
`Agent`.

In `K8sCache` one lookup stands for the two an event makes, which share nothing;
what never changes of an object (namespace, labels, selector, node) is constant, and the
order in which `ByIndex` and `List` return objects is a free choice.

In `Telemetry` a header is a function from canonical names to values, the first where a
name has several, and "" is a value; `HandedOver` says what net/http takes out of it (Host of a request,
Transfer-Encoding, with chunks Content-Length and Trailer) or puts in (Cache-Control, for
Pragma). Names of events are sequences of words. Times are integers with 0 for the zero
time. A Traceparent that is not empty counts as a valid one. The fields left out are, of
both handlers, `meta.stream.ident`, `meta.seqack`, the two packet counts, the client's and the
server's socket address, `meta.event_handled_at` and the Kubernetes attributes (they are
`K8sCache`'s), and further the prefixes `http.request.header.` and
`http.response.header.`, the service's name and version (OpenTelemetry), the addition to libhoney's user agent, and that OpenTelemetry formats times as
strings. An environment variable that the code splits at commas is given as its pieces; of the list
of headers only which names are in it matters, so `NewConfig` keeps it as a set.

## Runs

| Run | Bounds | Shows |
|---|---|---|
| `matcher` | 3 keys, 4 messages each, symmetric keys | events are the messages of each key taken two by two; the map keeps the odd one; complete pairs when kinds alternate |
| `matcher_doc` | 2 keys, 3 messages | *violated*: a match contains both halves |
| `pipeline` | channel of 2, 5 events, 1 stats tick | order and exactly-once, WaitGroup, bounded loss, nothing after Close, the stuck state is the only halt and final, every event is handled, shutdown ends unless stuck; the pipeline implements `Delivery` |
| `pipeline_hang` | channel of 1, 2 events | *violated*: shutdown ends |
| `assembler_keepalive` | 6 packets of 3 cycles, hole in one direction, loss, overtaking by one place | every event is one cycle with its own timestamps and id |
| `assembler_mixed` | 7 packets of 2 connections, retransmissions, FINs, one torn message, loss, overtaking | the same; a cycle is reported once per stream; stream counters; Stop drains |
| `assembler_limits` | 4 packets, each check may say anything, all enabled; limit of 2 pages; loss, overtaking, fairness | reject counters, the limit holds, buffers are flushed, silent connections leave, and only when idle for longer than the close timeout |
| `agent` | 4 packets of 2 cycles in order, channel of 1, 1 stats tick, fairness | every match is sent once and in request order though flushes and Stop wait for the channel; what a shutdown forgets; every captured cycle is exported, with the exceptions named |
| `k8s` | 3 pods, 3 services, 2 nodes, 2 changes, fairness | about what is not in motion the answer fits the cluster as captured, and is the right one where only one object fits; no answer mixes objects; staleness ends once the first lists have come |
| `k8s_namespace` | the same, 1 change | *violated*: the service reported for a pod is of its namespace |
| `startup` | 384 environments, 60 events, fairness | no event with an unverified key, complete debug index, the handlers agree but for the named differences, exactly the configured headers that have a value and come through net/http are reported, traces are continued, starting ends |
| `stats` | the same | *violated*: statistics are stored |

Why the bounds are enough. The matcher treats keys independently and its map
depends on parity only, so four messages show two full rounds. The pipeline needs
a channel that fills and empties, an event in each hand of the two goroutines, and
one more: five events with a channel of two. For the assembler three cycles give a
connection something before, at and behind a hole; the timeouts 1 and 2 (both 1
where the difference does not matter) let an age lie below, between and above
both; a place or two in the source let a packet wait while the clock ticks. All of loss,
swallowed messages, inverted streams, several streams for one connection and
buffers of two or more packets occur in the runs. In `agent` two events and a
channel of one are enough for a flush that waits, for the stuck shutdown, for
events left in the channel and for a swallowed message; all four are reached. In `k8s` two
changes let an address pass from one pod to another, and the three informers be
at three versions; the cluster has a finished pod beside a running one of its
address, a pod in host networking, a service without a selector and one of another
namespace. In `startup` every variable the code branches on is unset and set, header
lists are absent, empty, with a space and in lower case, and ask for headers that a message
lacks, has empty, or that net/http takes out; messages come with and without chunks; and the statuses
lie on both sides of the error classes.

Deadlock is not checked where the system may stop: the agent exits, traffic ends
and a lookup is done. In `pipeline` the invariant `HaltsOnlyAtExitOrStuck` says where.

### Fairness

Goroutines that can run do run: weak fairness of their steps. A Go `select` with
several ready cases picks one at random, so a case that is ready time and again is
taken in the end: strong fairness of the `ctx.Done()` cases, of the packet case
and of the ticker case. The clock ticks. An informer that has its first list and is behind
catches up in the end (client-go lists again when a watch is lost). `main` runs while it can.
Nothing is assumed of the signal, of the network, of the cluster, of the informers' first lists, of
the stats ticker, or of the exporter's success. `StalenessEnds` has it as its condition that each
informer gets its first list, and `StartupEnds` excepts the wait for it: a watch that is
forbidden holds up the start for ever (`WaitForCacheSync` has no time limit). `AssemblerComesBack` checks, in the
composition, what `EventPipeline` assumes of the assembler: that it comes to the end of what it is at
unless a send holds it up.

### Findings

1. `http_matcher.go` looks at the key and not at what is stored: two requests
   with one acknowledgement number are returned as a match, without a response.
   The comments promise both. (`matcher_doc`; `PairedTwoByTwo` says exactly what
   happens instead.)
2. The shutdown hangs when the channel is full: the handler returns on
   `ctx.Done()`, the assembler waits to send, `wgServices.Wait()` waits for the
   assembler. (`pipeline_hang`; `StuckForever` shows there is no way out and
   `HaltsOnlyAtExitOrStuck` that it is the only such state.)
3. `GetServiceForPod` matches selectors across namespaces. (`k8s_namespace`;
   `ExactUnlessInMotion` promises the right answer only where one object fits, by `Unambiguous`,
   and else one of those that fit.)
4. With the OpenTelemetry handler, the default, nobody initialises libhoney, through
   which the assembler's statistics are sent. (`stats`)

Further disagreements between code and words, seen on the way and without a run of
their own: `config.go:83` describes `ChannelBufferSize` as a limit "before dropping",
but the code waits (`Agent` is about what follows from it); `main.go:91` says "flush events
before exit", but events in the channel when the handler returns are lost
(`LossAtExitBounded` and `ForgottenAtExit` bound the loss); `config.go:107`
speaks of attributes for all events, which the OpenTelemetry handler does not add;
the agent's README calls `HTTP_HEADERS` case-sensitive, but `header.Get` makes names
canonical, and gives `localhost:6060` for `DEBUG_ADDRESS`, where the code has
`0.0.0.0:6060`; the search for a free debug port is unreachable, since `NewConfig`
never leaves the address empty. The two handlers name the same event differently, `HTTP GET`
(`libhoney_event_handler.go:176`) and `GET` (`otel_handler.go:111`), and only one of them
sends `user_agent.original`, only the other `net.component` and the old keys
(`HandlersAgree` names these differences and excludes others). `Host` and `Transfer-Encoding`
can be asked for in `HTTP_HEADERS` and are never recorded, since net/http takes them out of
the map that `extractHeaders` reads.

### What the lookups leave open

Three answers of the Kubernetes lookups may surprise though nothing is in motion, and the
properties allow them, as the code does: a finished pod that still has the address of a new
one; any host-network pod of another node, for that node's address; the service of another namespace
(finding 3). `ExactUnlessInMotion` asks there for an answer that fits, not for a certain
one. While objects change between the reads, the attributes may be of objects that never
were together; `AttrsAreAboutOneObject` only asks that each belongs to the pod.

### What is lost

The code loses cycles that were captured: messages behind the first in a batch, halves of a
pair in a stream that is closed between them (also when the packets have only waited in the
source), and what is in the channel at the exit. `CapturedIsExported` and `ForgottenAtExit`
except these by name, and everything once a connection has a second stream; they say that
nothing else is lost, when the wire loses nothing, and not that these are few.

### The page limit

`EventIsOneCycle` is checked with a page limit that is not reached. When
it is reached, gopacket hands the buffered data over in the context of the
packet that reached it, and `ReassembledSG` takes id and timestamp from that
context, so an event may carry those of another cycle. With 4000 pages per
connection this takes a connection that loses a packet and goes on for thousands;
`assembler_limits` shows that the limit itself holds. The theorems about the pairing
have the same condition, as a hypothesis (`[]Room`), and `RoomEnough` proves it of every traffic
of fewer packets than the limit. At the limit `EventsKeepApart` says what is left: an event
may combine two cycles of a connection, but no two connections.

## Proofs

`tlapm <module>.tla` for each of the eight proof modules; every leaf is checked by SMT, Zenon
or, for the temporal steps, LS4. Each component has one inductive invariant (`IInv`;
`AInv` for the agent, `MInv` and `OInv` for the pairing, `FInv` for what is forgotten), and its theorems follow from that.

**HttpMatcher**, for any set of keys and any bound on the messages
(`MatcherConstants`). The inductive invariant is the types, `WaitingIsTheOddOne`
and `PairedTwoByTwo` together: which event a message completes depends on what
the map holds, and what the map holds on how many messages there have been. Both
parts say what the value *is*, as a function of the history, so that a step is one
computation on the key concerned, and a lemma that the other keys keep what they
have. `CompleteWhenAlternating` follows from the second part.

**EventPipeline**, for any channel of at least one place and any number of events
and stats ticks (`PipelineConstants`). `InOrderOnce` is inductive only with two
facts about control: an event is in a goroutine's hand only in the states in which
the code has one there (`InFlight`), and `main`'s place determines the context,
the services that have been started and, once Wait has returned, that both have
ended (`Phases`, with `WaitGroupCountsServices`). From this invariant follow the
loss at exit, that Close is last, that the stuck state is final, and that with no
more events than places (`RoomyNeverStuck`) it is never reached, where
`ShutdownCompletesUnlessStuck` leaves no exception to a shutdown that ends.
`HangsOnlyWhenStuck` is the safety half of that: wherever no guard of a goroutine's step holds
(`Ready` lists them, since ENABLED is beyond the prover), main has returned or the
state is the stuck one. There is no other deadlock, for a channel of any size.

**Refinement** (`Refinement`, `Spec => DeliversAsPromised`), from the same invariant.
A step of the pipeline is one of `Delivery`'s or leaves its variables alone:
`MakeEvent` is `Make` (`MakeIsMake`: the event in parse's hand, the channel and the one in
`handleEvent` are all that is not handled, and the first has just been free, so the window of
`ChannelBufferSize + 2` has room), `HandleEvent` is `Handle` (`HandleIsHandle`: by
`InOrderOnce` the event in the handler's hand is the first that is not handled), and the
steps of `main` that end the process are `Exit` (`ExitIsExit`). A start that fails
ends the process too, and for it one more invariant is needed: as long as the
assembler has not been started nothing has been made (`MadeOnceStarted`).

**TcpAssembler**, for every traffic of any number of connections, with any loss, overtaking,
verdicts of `Accept`, timeouts, limit of pages and either version of gopacket
(`AssemblerConstants`; there are fewer packets than the counters, of 64 bits, can count).
Nothing is assumed of what the packets carry. All changes of the pool go
through `Keep`; `KeepPre` says what it is given in each case (a stream of the
connection in order, with the counters that belong to it), and the lemmas `KeepPool`,
`KeepStats`, `KeepRejections` and `KeepIds` say once what it makes of that. `Packet`,
`FlushRun` and `CloseHalf` are each shown to be such a call (`PassedOn`, `Handled`). The
invariant adds to the properties that

* what is in the pool is open, buffers packets of its own that have gone by, one for each
  sequence number, and what is not in the pool is as if it had never been (`PoolOK`);
* a stream and a rejection each take a packet from the source, so that no counter wraps
  (`CountersBounded`), and the streams not yet rejected make up the difference
  between the two totals (`Rejections`);
* during Stop, what the flush has visited is closed (`Stopping`), which makes `StopDrains`
  true when it is through.

`ClosedOnlyWhenIdle` is an action property: a step that takes a stream out of the
pool is a FIN's or a close that was due. So is `FlushEnds`, the safety half of
`AssemblerComesBack`: a step of a flush leaves a direction less to visit, or as many and a page
less in the buffers (`Advanced`, from what `FlushRunAdvances` and `CloseHalfAdvances` say of the
two kinds of step), and while directions are left there is one whose turn it is.

`EventsKeepApart` needs no condition at all: whatever the traffic, and also where the page
limit is reached, an event's request was sent by the client of its connection and its response by the
server, and its id and timestamps come from packets of the same ends (`OwnMessages`). The
invariant (`OwnInv`) says the same of what the matchers hold.

**The pairing** (`MatchingProofs`): `EventIsOneCycle`, `CycleReportedOnce` and, through the agent,
`ExportedInRequestOrder`, for every traffic that is HTTP over TCP. That is a hypothesis
on the constants, `HttpOverTcp` in `TcpAssembler`, which `MCTcpAssembler` has TLC evaluate
for each instance: segments of a direction do not overlap; no two requests of a
direction acknowledge the same byte (no pipelining); a response begins where its
request acknowledges; cycles are in order. Without it the pairing by sequence and
acknowledgement numbers cannot work, and `matcher_doc` shows what happens. The other
hypothesis is `[]Room`: buffers have room for one page more (`RoomEnough`: they do when
there are fewer packets than pages, since a direction buffers a packet once). The argument is that a direction
hands its bytes over once and in order (`SeqOK`: what is buffered lies behind
`nextSeq`, and what comes in order begins there, by `NextBegins` and `RunRest`). So a message
that comes to the matcher lies behind all that its direction has handed over. It finds
under its id no message of its own kind, because that would have the same number
(`RequestMatches`, `ResponseMatches`; `MsgOK` says what an entry is), and so
nothing or its counterpart. The events of the stream carry messages that were handed over
before (`EventsSeen`), so a new event's cycle is later than theirs (`NewIsLatest`): that gives
`CycleReportedOnce`, and the order of the export.

**Agent**. Every step of the agent is one of the assembler or leaves it alone (`AgentAssembles`) and
one of the pipeline or leaves it alone (`AgentPipes`), so all theorems about the two hold of
the agent, `DeliversAsPromised` among them (`AgentDelivers`); the pipeline's are taken
over by an instance of their module. What is new is the seam: `EveryMatchSentOnce`, which
is inductive with `Attended`: as long as a match waits or a flush is under way the
assembler's goroutine is inside a case of its select, so that no step finds a match
while one is waiting.

**What a shutdown forgets** (`ForgottenProofs`): `ForgottenAtExit`, for any number of packets
and cycles, any timing and a channel of any size. The hypotheses are `HttpOverTcp`, `[]Room`,
and that the wire is orderly (`OrderlyWire` in `Agent`, which `MCAgent` has TLC evaluate): every
packet comes once and in order and passes the checks. The property itself speaks of
runs with one stream at the most, because a stream that is closed and begun again takes
what it held with it. That a cycle is *not* lost needs to know where its messages are, so the
invariant (`FInv`, with `MInv`) follows each captured message of the stream: it is in the buffer of its
direction, with the matcher, in an event or swallowed in a batch (`Whereabouts`;
`MessagesAccountedFor` says that this holds throughout). A message could go missing in two ways.

* It comes to a direction that takes it no more. But what is still to come lies behind
  what the direction has had (`Ordered`), and a direction is closed only after its last packet
  or by a flush of an idle connection (`Shut`), and that flush closes the other direction too before the
  next packet is taken (`Visited`). A packet in a buffer is at least as old as
  the connection's silence (`Aged`), so nothing is buffered on such a connection that the flush
  would not hand over first.
* It is stored in the matcher of a stream that goes. Then the other half was not captured, or
  the two have met and one is out (`Parted`): they are stored under one id, and the
  stream knows which of its ends is the client (`Facing`).

At the exit Stop has returned and the pool is empty (`Ended`, `StopDrains`), no match is on its way
(`EveryMatchSentOnce`, `Attended`), and `BoundedLoss` of the pipeline says what can be left.

**K8sCache**, for every cluster with finitely many objects, every history of changes
and every pace of the informers (`K8sConstants`). The invariant keeps for each attribute that
there is a version among those read at which the index answered so (`PodRead`, `NodeRead`,
`ServiceRead`, `ClusterIPRead`), at each place of the lookup (`LookupInv`). The
history is only appended to, so this outlasts whatever happens between two reads. For
`ExactUnlessInMotion` the versions read are then replaced by the captured one, so that the answer
is among those that fit it (`AnswersOf`), whatever was chosen where several objects fit;
and where the address is unambiguous there is one such answer.

**Startup**, for all environments, events and lists of patterns (`StartupConstants`). `main`'s place says
whether the key has been checked and how far the debug service is (`KeyChecked`,
`DebugSetUp`); what is sent is the chosen handler's translation of what is on the wire
(`SentFromWire`), and the rest is about the two translations. `HandlersAgree` goes
through them field by field, the names and the attributes of the agent included. It needs that
no additional attribute has the name of one of the agent's (`AddedApart`), since the libhoney
handler lets it replace that; `OnlyWhatIsConfigured`, which says exactly which headers are reported
and with which values, needs that no two headers that net/http hands over of a message have one
sanitized name (`NamesApart`). Both are in `Startup`, and TLC evaluates them for the instance.

Only model-checked:

* the liveness properties (`EveryEventHandled`, `ShutdownCompletesUnlessStuck`,
  `ShutdownCompletes`, `BufferedIsFlushed`, `SilentStreamsLeave`, `AssemblerComesBack`,
  `CapturedIsExported`, `StalenessEnds`, `StartupEnds`): fairness is not within the
  prover's reach; of the shutdown and of the flushes the safety halves are proved
  (`HangsOnlyWhenStuck`, `FlushEnds`);
* `HaltsOnlyAtExitOrStuck`, which uses ENABLED; `HangsOnlyWhenStuck` proves it with the
  guards written out;
* the four findings are counterexamples, and TLC's.

## Not modelled

pcap statistics (`logPcapHandleStats` adds libpcap's numbers to counters that only the
stats event reads); IPv4 defragmentation beyond "comes through or not"; gopacket's
limit on the total number of pages, overlapping segments with different content, and
wrap-around of sequence numbers; the format and the level of the log, with
`GetMaskedAPIKey`; `/debug/vars` and the profiles, which only read; a packet source that ends; smoke tests,
manifests and build files, which hold no program logic.

## Plan

1. *Done:* `MatcherOps`, `HttpMatcher`, `EventPipeline`, `TcpAssembler`, their runs;
   proofs for the second and the third.
2. *Done:* `Delivery` and its refinement, checked and proved; `Agent`; `K8sCache`; `Config`,
   `Telemetry`, `Startup`.
3. *Done:* the theorems about `TcpAssembler`, `Agent`, `K8sCache` and `Startup`, and the
   pairing for every orderly traffic.
4. *Done:* `ForgottenAtExit`, with an invariant that says where each captured message is; that
   flushes end and that the shutdown hangs in one way only; what an event carries when
   the page limit is reached (`EventsKeepApart`).
5. `ForgottenAtExit` for connections with one stream each, where it now asks for one stream in all.
