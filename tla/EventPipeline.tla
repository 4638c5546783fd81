--------------------------- MODULE EventPipeline ----------------------------
(***************************************************************************)
(* The agent's life cycle (main.go) and the pipeline it runs: the TCP      *)
(* assembler's goroutine (assemblers/tcp_assembler.go, Start and Stop)     *)
(* makes events and sends them on the events channel; the event handler's  *)
(* goroutine (handlers, Start) takes them off it and gives them to the     *)
(* exporter (libhoney or OpenTelemetry); on a signal the context is        *)
(* cancelled, both goroutines stop, and the exporter is flushed.           *)
(*                                                                         *)
(* What the assembler does with a packet or a tick is abstracted here to   *)
(* the events that come of it, any number of them: TcpAssembler has the    *)
(* detail.  Events are numbered in the order in which they are made, and   *)
(* 0 is no event.                                                          *)
(***************************************************************************)
EXTENDS Integers, Sequences

CONSTANTS
    ChannelBufferSize,  \* config.ChannelBufferSize, the capacity of the channel
    MaxEvents,          \* bound on the events the assembler makes
    MaxStats            \* bound on the ticks of the stats ticker

ASSUME PipelineConstants ==
    ChannelBufferSize \in Nat \ {0} /\ MaxEvents \in Nat /\ MaxStats \in Nat

VARIABLES
    main,        \* where main() and its shutdown goroutine are
    ctxDone,     \* the context passed to both services is cancelled
    wgServices,  \* the counter of the WaitGroup
    assembler,   \* where tcpAssembler.Start is
    made,        \* number of events the assembler has made
    pending,     \* the event in parser.parse's send, 0 for none
    eventsChan,  \* the buffer of the events channel
    handler,     \* where EventHandler.Start is
    current,     \* the event in handleEvent, 0 for none
    accepted,    \* events the exporter has taken over
    refused,     \* events the exporter has refused (ev.Send's error)
    delivered,   \* events the exporter has sent to the backend
    statsSent,   \* number of stats events given to libhoney
    closed       \* eventHandler.Close has run

mainVars      == <<main, ctxDone>>
assemblerVars == <<assembler, made, pending, statsSent>>
handlerVars   == <<handler, current>>
exporterVars  == <<accepted, refused, delivered, closed>>
vars == <<mainVars, wgServices, assemblerVars, eventsChan, handlerVars, exporterVars>>

Events == 1 .. MaxEvents
None == 0

MainStates == {"newHandler", "newAssembler", "ready", "waiting", "closing",
               "notify", "exited"}
ServiceStates == {"off", "select", "busy", "stopping", "ended"}

Init ==
    /\ main = "newHandler" /\ ctxDone = FALSE /\ wgServices = 0
    /\ assembler = "off" /\ made = 0 /\ pending = None /\ statsSent = 0
    /\ eventsChan = << >>
    /\ handler = "off" /\ current = None
    /\ accepted = {} /\ refused = {} /\ delivered = {} /\ closed = FALSE

\* Goroutines run until main returns.
Running == main # "exited"

-----------------------------------------------------------------------------
(* main() and the goroutine that waits for the signal.                     *)

\* wgServices.Add(1); go eventHandler.Start(ctx, &wgServices)
StartHandler ==
    /\ main = "newHandler"
    /\ main' = "newAssembler"
    /\ wgServices' = wgServices + 1
    /\ handler' = "select"
    /\ UNCHANGED <<ctxDone, assemblerVars, eventsChan, current, exporterVars>>

\* Mutant of StartAssembler: the service is not added to the WaitGroup.
StartUncounted ==
    /\ main = "newAssembler"
    /\ main' = "ready"
    /\ assembler' = "select"
    /\ UNCHANGED <<ctxDone, wgServices, made, pending, statsSent, eventsChan, handlerVars, exporterVars>>

\* wgServices.Add(1); go assembler.Start(ctx, &wgServices)
StartAssembler ==
    /\ main = "newAssembler"
    /\ main' = "ready"
    /\ wgServices' = wgServices + 1
    /\ assembler' = "select"
    /\ UNCHANGED <<ctxDone, made, pending, statsSent, eventsChan, handlerVars, exporterVars>>

\* log.Fatal in the constructors: the process exits where it stands.
StartupFails ==
    /\ main \in {"newHandler", "newAssembler"}
    /\ main' = "exited"
    /\ UNCHANGED <<ctxDone, wgServices, assemblerVars, eventsChan, handlerVars, exporterVars>>

\* <-signals; done()
Signal ==
    /\ main = "ready"
    /\ main' = "waiting"
    /\ ctxDone' = TRUE
    /\ UNCHANGED <<wgServices, assemblerVars, eventsChan, handlerVars, exporterVars>>

\* Mutant of WaitReturns: main does not wait for the services.
DoNotWait ==
    /\ main = "waiting"
    /\ main' = "closing"
    /\ UNCHANGED <<ctxDone, wgServices, assemblerVars, eventsChan, handlerVars, exporterVars>>

\* wgServices.Wait() returns.
WaitReturns ==
    /\ main = "waiting"
    /\ wgServices = 0
    /\ main' = "closing"
    /\ UNCHANGED <<ctxDone, wgServices, assemblerVars, eventsChan, handlerVars, exporterVars>>

\* eventHandler.Close(): the exporter sends everything it holds.
Close ==
    /\ main = "closing"
    /\ main' = "notify"
    /\ delivered' = accepted
    /\ closed' = TRUE
    /\ UNCHANGED <<ctxDone, wgServices, assemblerVars, eventsChan, handlerVars, accepted, refused>>

\* shutdownNow <- true, and main returns.
Exit ==
    /\ main = "notify"
    /\ main' = "exited"
    /\ UNCHANGED <<ctxDone, wgServices, assemblerVars, eventsChan, handlerVars, exporterVars>>

-----------------------------------------------------------------------------
(* tcpAssembler.Start.  A case of its select runs to its end before the    *)
(* next is chosen; the events it makes are sent one by one.                *)

\* case packet := <-Packets(), or case <-flushCloseTicker.C
BeginWork ==
    /\ Running
    /\ assembler = "select"
    /\ assembler' = "busy"
    /\ UNCHANGED <<mainVars, wgServices, made, pending, statsSent, eventsChan, handlerVars, exporterVars>>

EndWork ==
    /\ Running
    /\ assembler = "busy" /\ pending = None
    /\ assembler' = "select"
    /\ UNCHANGED <<mainVars, wgServices, made, pending, statsSent, eventsChan, handlerVars, exporterVars>>

\* case <-statsTicker.C: logAssemblerStats, whose event goes to libhoney.
LogStats ==
    /\ Running
    /\ assembler = "select"
    /\ statsSent < MaxStats
    /\ statsSent' = statsSent + 1
    /\ UNCHANGED <<mainVars, wgServices, assembler, made, pending, eventsChan, handlerVars, exporterVars>>

\* A match is found: parse is about to send an event.
MakeEvent ==
    /\ Running
    /\ assembler \in {"busy", "stopping"}
    /\ pending = None
    /\ made < MaxEvents
    /\ made' = made + 1
    /\ pending' = made + 1
    /\ UNCHANGED <<mainVars, wgServices, assembler, statsSent, eventsChan, handlerVars, exporterVars>>

\* Mutant of SendEvent: an event that finds the channel full is dropped.
SendOrDrop ==
    /\ Running
    /\ pending # None
    /\ eventsChan' = IF Len(eventsChan) < ChannelBufferSize
                     THEN Append(eventsChan, pending) ELSE eventsChan
    /\ pending' = None
    /\ UNCHANGED <<mainVars, wgServices, assembler, made, statsSent, handlerVars, exporterVars>>

\* stream.eventsChan <- event: waits while the buffer is full.
SendEvent ==
    /\ Running
    /\ pending # None
    /\ Len(eventsChan) < ChannelBufferSize
    /\ eventsChan' = Append(eventsChan, pending)
    /\ pending' = None
    /\ UNCHANGED <<mainVars, wgServices, assembler, made, statsSent, handlerVars, exporterVars>>

\* case <-ctx.Done(): h.Stop(), whose FlushAll may make more events.
AssemblerSeesDone ==
    /\ Running
    /\ assembler = "select" /\ ctxDone
    /\ assembler' = "stopping"
    /\ UNCHANGED <<mainVars, wgServices, made, pending, statsSent, eventsChan, handlerVars, exporterVars>>

\* Mutant of AssemblerReturns: Done is called by Stop and by Start.
DoneTwice ==
    /\ Running
    /\ assembler = "stopping" /\ pending = None
    /\ assembler' = "ended"
    /\ statsSent' = statsSent + 1
    /\ wgServices' = wgServices - 2
    /\ UNCHANGED <<mainVars, made, pending, eventsChan, handlerVars, exporterVars>>

\* Stop logs the stats once more and Start returns: defer wg.Done().
AssemblerReturns ==
    /\ Running
    /\ assembler = "stopping" /\ pending = None
    /\ assembler' = "ended"
    /\ statsSent' = statsSent + 1
    /\ wgServices' = wgServices - 1
    /\ UNCHANGED <<mainVars, made, pending, eventsChan, handlerVars, exporterVars>>

-----------------------------------------------------------------------------
(* EventHandler.Start: the same loop in both handlers.                     *)

\* Mutant of Receive: the last event is left in the channel.
ReceiveAllButOne ==
    /\ Running
    /\ handler = "select" /\ Len(eventsChan) > 1
    /\ handler' = "busy"
    /\ current' = Head(eventsChan)
    /\ eventsChan' = Tail(eventsChan)
    /\ UNCHANGED <<mainVars, wgServices, assemblerVars, exporterVars>>

\* case event = <-handler.eventsChan
Receive ==
    /\ Running
    /\ handler = "select" /\ eventsChan # << >>
    /\ handler' = "busy"
    /\ current' = Head(eventsChan)
    /\ eventsChan' = Tail(eventsChan)
    /\ UNCHANGED <<mainVars, wgServices, assemblerVars, exporterVars>>

\* handleEvent: the exporter takes the event, or refuses it and it is logged.
HandleEvent ==
    /\ Running
    /\ handler = "busy"
    /\ \/ accepted' = accepted \cup {current} /\ UNCHANGED refused
       \/ refused' = refused \cup {current} /\ UNCHANGED accepted
    /\ handler' = "select"
    /\ current' = None
    /\ UNCHANGED <<mainVars, wgServices, assemblerVars, eventsChan, delivered, closed>>

\* Mutant of HandlerSeesDone: Start returns without wg.Done().
ReturnUncounted ==
    /\ Running
    /\ handler = "select" /\ ctxDone
    /\ handler' = "ended"
    /\ UNCHANGED <<mainVars, wgServices, assemblerVars, eventsChan, current, exporterVars>>

\* case <-ctx.Done(): Start returns, defer wg.Done().
HandlerSeesDone ==
    /\ Running
    /\ handler = "select" /\ ctxDone
    /\ handler' = "ended"
    /\ wgServices' = wgServices - 1
    /\ UNCHANGED <<mainVars, assemblerVars, eventsChan, current, exporterVars>>

\* The exporter's own goroutine sends what it has been given so far.
ExporterSends ==
    /\ Running /\ ~closed
    /\ delivered # accepted
    /\ delivered' = accepted
    /\ UNCHANGED <<mainVars, wgServices, assemblerVars, eventsChan, handlerVars, accepted, refused, closed>>

-----------------------------------------------------------------------------
Main == StartHandler \/ StartAssembler \/ StartupFails \/ Signal
        \/ WaitReturns \/ Close \/ Exit
Assembler == BeginWork \/ EndWork \/ LogStats \/ MakeEvent \/ SendEvent
             \/ AssemblerSeesDone \/ AssemblerReturns
Handler == Receive \/ HandleEvent \/ HandlerSeesDone

Next == Main \/ Assembler \/ Handler \/ ExporterSends

Spec == Init /\ [][Next]_vars

(* Every goroutine runs while it can.  A select with several ready cases   *)
(* picks one at random, so a case that is ready again and again is taken   *)
(* in the end: strong fairness for the two cases on ctx.Done().  Nothing   *)
(* is assumed of the signal, of packets and of ticks.                      *)
Fairness ==
    /\ WF_vars(StartHandler) /\ WF_vars(StartAssembler)
    /\ WF_vars(WaitReturns) /\ WF_vars(Close) /\ WF_vars(Exit)
    /\ WF_vars(EndWork) /\ WF_vars(SendEvent) /\ WF_vars(AssemblerReturns)
    /\ WF_vars(Receive) /\ WF_vars(HandleEvent)
    /\ SF_vars(AssemblerSeesDone) /\ SF_vars(HandlerSeesDone)

FairSpec == Spec /\ Fairness

-----------------------------------------------------------------------------
\* The variables hold values of their types.
TypeOK ==
    /\ main \in MainStates /\ ctxDone \in BOOLEAN /\ wgServices \in Nat
    /\ assembler \in ServiceStates /\ made \in 0 .. MaxEvents
    /\ pending \in Events \cup {None} /\ statsSent \in Nat
    /\ eventsChan \in Seq(Events)
    /\ handler \in ServiceStates /\ current \in Events \cup {None}
    /\ accepted \subseteq Events /\ refused \subseteq Events
    /\ delivered \subseteq accepted /\ closed \in BOOLEAN

\* 1 while an event is held, 0 otherwise.
Held(e) == IF e = None THEN 0 ELSE 1

\* The number of events that have been handled, were none lost on the way.
Handled == made - Held(pending) - Len(eventsChan) - Held(current)

(* No event is lost, duplicated or overtaken between the parser that makes *)
(* it and the exporter: at every moment the events handled are the first   *)
(* ones made, each of them either accepted or refused and not both, the    *)
(* next is the one in handleEvent, those after it are in the channel in    *)
(* order, and the last is the one the assembler is sending (parse's send,  *)
(* the handlers' receive and handleEvent).                                 *)
InOrderOnce ==
    /\ Handled \in Nat
    /\ accepted \cup refused = 1 .. Handled
    /\ accepted \cap refused = {}
    /\ current # None => current = Handled + 1
    /\ \A i \in 1 .. Len(eventsChan) : eventsChan[i] = Handled + Held(current) + i
    /\ pending # None => pending = made
    /\ Len(eventsChan) <= ChannelBufferSize

Live(service) == IF service \in {"off", "ended"} THEN 0 ELSE 1

(* The WaitGroup counts the services that have been started and have not   *)
(* returned: Wait cannot return while one of them runs, and Done is never  *)
(* called once too often, which would panic (main, both Start methods).    *)
WaitGroupCountsServices == wgServices = Live(handler) + Live(assembler)

(* Once eventHandler.Close has run nothing is given to the exporter any    *)
(* more, neither an event nor the assembler's last stats, and nothing is   *)
(* in flight that could be.                                                *)
NothingSentAfterClose ==
    [][closed => UNCHANGED <<accepted, refused, delivered, statsSent>>]_vars

(* What the shutdown may lose: when main returns after a signal, all that  *)
(* the exporter accepted is delivered, no event is being sent or handled,  *)
(* and the events that were made and not handled are those left in the     *)
(* channel, at most ChannelBufferSize of them (the handlers return on      *)
(* ctx.Done() without draining it).                                        *)
LossAtExitBounded ==
    main = "exited" /\ ctxDone =>
        /\ delivered = accepted
        /\ pending = None /\ current = None
        /\ made - Len(eventsChan) = Handled
        /\ \A e \in 1 .. made :
              e \notin accepted \cup refused => \E i \in 1 .. Len(eventsChan) : eventsChan[i] = e

D == INSTANCE Delivery WITH Window <- ChannelBufferSize + 2, exited <- main = "exited"

(* The pipeline does what Delivery says, with at most one event in parse's *)
(* send, a full channel and one event in handleEvent on the way: events    *)
(* are handled once and in order, and the process does not end, by signal  *)
(* or by log.Fatal, while the exporter holds events it has not sent.       *)
DeliversAsPromised == D!Spec

(* The assembler waits in parse's send on a full channel, and the handler  *)
(* that would empty it has returned.                                       *)
Stuck ==
    /\ handler = "ended"
    /\ pending # None
    /\ Len(eventsChan) = ChannelBufferSize

(* There is no way out of that state: neither service nor main can change  *)
(* it, so wgServices.Wait() never returns, Close never runs and what is in *)
(* the channel is never exported.                                          *)
StuckForever ==
    [][Stuck => Stuck' /\ main' = main /\ accepted' = accepted]_vars

(* It is the only such state: wherever else no goroutine can move, main    *)
(* has returned.                                                           *)
HaltsOnlyAtExitOrStuck == ~ENABLED Next => main = "exited" \/ Stuck

(* While the agent is not told to stop every event that is made is handled *)
(* in the end (both selects, a channel of any size).                       *)
EveryEventHandled ==
    \A e \in Events : made >= e ~> e \in accepted \cup refused \/ ctxDone

(* A signal leads to the end of the process, unless the assembler comes to *)
(* wait on a full channel after the handler has returned.                  *)
ShutdownCompletesUnlessStuck == ctxDone ~> main = "exited" \/ Stuck

(* The same without the exception, as main.go has it: "notify services to  *)
(* stop", "wait for all coordinated services to stop", "signal main        *)
(* goroutine to exit".                                                     *)
ShutdownCompletes == ctxDone ~> main = "exited"
=============================================================================
