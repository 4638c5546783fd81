------------------------ MODULE EventPipelineProofs -------------------------
(***************************************************************************)
(* What the pipeline guarantees for every size of the channel and every    *)
(* number of events.  InOrderOnce is inductive together with the fact that *)
(* an event is in flight only in a service that is busy; what is said of   *)
(* the exit needs Phases, which ties the progress of main to the states of *)
(* the two services, and that in turn needs WaitGroupCountsServices, by    *)
(* which Wait returns only when both have ended.                           *)
(***************************************************************************)
EXTENDS EventPipeline, SequenceTheorems, TLAPS

\* An event is in flight only in a service that is busy with it.
InFlight ==
    /\ pending # None => assembler \in {"busy", "stopping"}
    /\ current # None <=> handler = "busy"
    /\ handler # "stopping"

\* How far main is, and what the services and the exporter are then.
Phases ==
    /\ main = "newHandler" => handler = "off" /\ assembler = "off"
    /\ main = "newAssembler" => assembler = "off" /\ handler # "off"
    /\ main \in {"ready", "waiting"} => handler # "off" /\ assembler # "off"
    /\ main \in {"newHandler", "newAssembler", "ready"} => ~ctxDone
    /\ handler = "ended" \/ assembler \in {"stopping", "ended"} => ctxDone
    /\ main \in {"closing", "notify"} => handler = "ended" /\ assembler = "ended"
    /\ main = "notify" \/ (main = "exited" /\ ctxDone) => closed
    /\ closed => /\ main \in {"notify", "exited"}
                 /\ handler = "ended" /\ assembler = "ended"
                 /\ delivered = accepted

IInv == TypeOK /\ InFlight /\ InOrderOnce /\ WaitGroupCountsServices /\ Phases

-----------------------------------------------------------------------------
LEMMA InitIInv == Init => IInv
<1> SUFFICES ASSUME Init PROVE IInv
  OBVIOUS
<1>1. /\ made = 0 /\ pending = None /\ current = None /\ eventsChan = << >>
      /\ accepted = {} /\ refused = {}
  BY DEF Init
<1>2. TypeOK
  <2>1. ctxDone \in BOOLEAN /\ closed \in BOOLEAN
    BY DEF Init
  <2>2. main \in MainStates /\ assembler \in ServiceStates /\ handler \in ServiceStates
    BY DEF Init, MainStates, ServiceStates
  <2>3. wgServices \in Nat /\ statsSent \in Nat /\ made \in 0 .. MaxEvents
    BY PipelineConstants DEF Init
  <2>4. delivered \subseteq accepted
    BY DEF Init
  <2> QED
    BY <1>1, <2>1, <2>2, <2>3, <2>4 DEF TypeOK
<1>3. Handled = 0
  <2>1. Len(eventsChan) = 0
    BY <1>1
  <2>2. Held(pending) = 0 /\ Held(current) = 0 /\ made = 0
    BY <1>1 DEF Held
  <2> QED
    BY <2>1, <2>2 DEF Handled
<1>4. InOrderOnce
  BY <1>1, <1>3, PipelineConstants DEF InOrderOnce
<1>5. InFlight /\ WaitGroupCountsServices /\ Phases
  BY DEF Init, InFlight, WaitGroupCountsServices, Live, Phases
<1> QED
  BY <1>2, <1>4, <1>5 DEF IInv

(* A step of main, of a select, of the stats or of the exporter's own      *)
(* goroutine moves no event.                                               *)
LEMMA NoEventMoves ==
    ASSUME InOrderOnce,
           UNCHANGED <<made, pending, eventsChan, current, accepted, refused>>
    PROVE  InOrderOnce'
BY DEF InOrderOnce, Handled, Held

LEMMA TypeStep == IInv /\ [Next]_vars => TypeOK'
<1> SUFFICES ASSUME IInv, [Next]_vars PROVE TypeOK'
  OBVIOUS
<1> USE PipelineConstants DEF TypeOK, MainStates, ServiceStates
<1>0. TypeOK /\ WaitGroupCountsServices /\ InFlight
  BY DEF IInv
<1>1. CASE Main
  <2>1. CASE StartHandler \/ StartAssembler
    BY <1>0, <2>1 DEF StartHandler, StartAssembler, assemblerVars, handlerVars, exporterVars
  <2>2. CASE Signal
    BY <1>0, <2>2 DEF Signal, assemblerVars, handlerVars, exporterVars
  <2>3. CASE StartupFails \/ WaitReturns \/ Exit
    BY <1>0, <2>3 DEF StartupFails, WaitReturns, Exit, assemblerVars, handlerVars, exporterVars
  <2>4. CASE Close
    BY <1>0, <2>4 DEF Close, assemblerVars, handlerVars
  <2> QED
    BY <1>1, <2>1, <2>2, <2>3, <2>4 DEF Main
<1>2. CASE BeginWork \/ EndWork \/ LogStats \/ AssemblerSeesDone
  BY <1>0, <1>2 DEF BeginWork, EndWork, LogStats, AssemblerSeesDone,
                    mainVars, handlerVars, exporterVars
<1>3. CASE MakeEvent
  BY <1>0, <1>3 DEF MakeEvent, mainVars, handlerVars, exporterVars, Events
<1>4. CASE SendEvent
  BY <1>0, <1>4, AppendProperties DEF SendEvent, mainVars, handlerVars, exporterVars
<1>5. CASE AssemblerReturns
  BY <1>0, <1>5 DEF AssemblerReturns, mainVars, handlerVars, exporterVars,
                    WaitGroupCountsServices, Live
<1>6. CASE Receive
  BY <1>0, <1>6, HeadTailProperties DEF Receive, mainVars, assemblerVars, exporterVars
<1>7. CASE HandleEvent
  BY <1>0, <1>7 DEF HandleEvent, mainVars, assemblerVars, InFlight
<1>8. CASE HandlerSeesDone
  BY <1>0, <1>8 DEF HandlerSeesDone, mainVars, assemblerVars, exporterVars,
                    WaitGroupCountsServices, Live
<1>9. CASE ExporterSends
  BY <1>0, <1>9 DEF ExporterSends, mainVars, assemblerVars, handlerVars
<1>10. CASE UNCHANGED vars
  BY <1>0, <1>10 DEF vars, mainVars, assemblerVars, handlerVars, exporterVars
<1> QED
  BY <1>1, <1>2, <1>3, <1>4, <1>5, <1>6, <1>7, <1>8, <1>9, <1>10 DEF Next, Assembler, Handler

LEMMA InFlightStep == IInv /\ [Next]_vars => InFlight'
<1> SUFFICES ASSUME IInv, [Next]_vars PROVE InFlight'
  OBVIOUS
<1> USE DEF InFlight
<1>0. /\ InFlight /\ Phases
      /\ pending \in Events \cup {None} /\ current \in Events \cup {None}
      /\ eventsChan \in Seq(Events)
  BY DEF IInv, TypeOK
<1>1. CASE Main
  BY <1>0, <1>1 DEF Main, StartHandler, StartAssembler, StartupFails, Signal, WaitReturns,
                    Close, Exit, assemblerVars, handlerVars, Phases
<1>2. CASE Assembler
  BY <1>0, <1>2 DEF Assembler, BeginWork, EndWork, LogStats, MakeEvent, SendEvent,
                    AssemblerSeesDone, AssemblerReturns, handlerVars
<1>3. CASE Receive
  <2>1. Head(eventsChan) \in Events
    BY <1>0, <1>3, HeadTailProperties DEF Receive
  <2>2. Head(eventsChan) # None
    BY <2>1, PipelineConstants DEF Events, None
  <2> QED
    BY <1>0, <1>3, <2>2 DEF Receive, assemblerVars
<1>4. CASE HandleEvent \/ HandlerSeesDone
  BY <1>0, <1>4 DEF HandleEvent, HandlerSeesDone, assemblerVars
<1>5. CASE ExporterSends
  BY <1>0, <1>5 DEF ExporterSends, assemblerVars, handlerVars
<1>6. CASE UNCHANGED vars
  BY <1>0, <1>6 DEF vars, assemblerVars, handlerVars
<1> QED
  BY <1>1, <1>2, <1>3, <1>4, <1>5, <1>6 DEF Next, Handler

LEMMA WaitGroupStep == IInv /\ [Next]_vars => WaitGroupCountsServices'
<1> SUFFICES ASSUME IInv, [Next]_vars PROVE WaitGroupCountsServices'
  OBVIOUS
<1> USE DEF WaitGroupCountsServices, Live
<1>0. WaitGroupCountsServices /\ Phases /\ InFlight
  BY DEF IInv
<1>1. CASE Main
  BY <1>0, <1>1 DEF Main, StartHandler, StartAssembler, StartupFails, Signal, WaitReturns,
                    Close, Exit, assemblerVars, handlerVars, Phases
<1>2. CASE Assembler
  BY <1>0, <1>2 DEF Assembler, BeginWork, EndWork, LogStats, MakeEvent, SendEvent,
                    AssemblerSeesDone, AssemblerReturns, handlerVars
<1>3. CASE Handler
  BY <1>0, <1>3 DEF Handler, Receive, HandleEvent, HandlerSeesDone, assemblerVars
<1>4. CASE ExporterSends \/ UNCHANGED vars
  BY <1>0, <1>4 DEF ExporterSends, vars, assemblerVars, handlerVars
<1> QED
  BY <1>1, <1>2, <1>3, <1>4 DEF Next

LEMMA PhasesStep == IInv /\ [Next]_vars => Phases'
<1> SUFFICES ASSUME IInv, [Next]_vars PROVE Phases'
  OBVIOUS
<1> USE DEF Phases
<1>0. Phases /\ InFlight
  BY DEF IInv
<1>1. CASE StartHandler \/ StartAssembler \/ StartupFails \/ Signal \/ Close \/ Exit
  BY <1>0, <1>1 DEF StartHandler, StartAssembler, StartupFails, Signal, Close, Exit,
                    assemblerVars, handlerVars, exporterVars
<1>2. CASE WaitReturns
  <2>1. handler = "ended" /\ assembler = "ended"
    BY <1>0, <1>2 DEF WaitReturns, IInv, TypeOK, WaitGroupCountsServices, Live
  <2> QED
    BY <1>0, <1>2, <2>1 DEF WaitReturns, assemblerVars, handlerVars, exporterVars
<1>3. CASE Assembler
  BY <1>0, <1>3 DEF Assembler, BeginWork, EndWork, LogStats, MakeEvent, SendEvent, Running,
                    AssemblerSeesDone, AssemblerReturns, mainVars, handlerVars, exporterVars
<1>4. CASE Handler
  BY <1>0, <1>4 DEF Handler, Receive, HandleEvent, HandlerSeesDone, Running,
                    mainVars, assemblerVars, exporterVars
<1>5. CASE ExporterSends
  BY <1>0, <1>5 DEF ExporterSends, mainVars, assemblerVars, handlerVars
<1>6. CASE UNCHANGED vars
  BY <1>0, <1>6 DEF vars, mainVars, assemblerVars, handlerVars, exporterVars
<1> QED
  BY <1>1, <1>2, <1>3, <1>4, <1>5, <1>6 DEF Next, Main

LEMMA InOrderStep == IInv /\ [Next]_vars => InOrderOnce'
<1> SUFFICES ASSUME IInv, [Next]_vars PROVE InOrderOnce'
  OBVIOUS
<1>0. TypeOK /\ InFlight /\ InOrderOnce
  BY DEF IInv
<1>t. /\ made \in Nat /\ pending \in Nat /\ current \in Nat
      /\ eventsChan \in Seq(Events) /\ Len(eventsChan) \in Nat
  BY <1>0, PipelineConstants DEF TypeOK, Events, None
<1>1. CASE Main \/ BeginWork \/ EndWork \/ LogStats \/ AssemblerSeesDone \/ AssemblerReturns
           \/ HandlerSeesDone \/ ExporterSends \/ UNCHANGED vars
  <2>1. UNCHANGED <<made, pending, eventsChan, current, accepted, refused>>
    BY <1>1 DEF Main, StartHandler, StartAssembler, StartupFails, Signal, WaitReturns, Close,
                Exit, BeginWork, EndWork, LogStats, AssemblerSeesDone, AssemblerReturns,
                HandlerSeesDone, ExporterSends, vars, assemblerVars, handlerVars, exporterVars
  <2> QED
    BY <1>0, <2>1, NoEventMoves
<1>2. CASE MakeEvent
  <2>1. /\ pending = None /\ made' = made + 1 /\ pending' = made + 1
        /\ UNCHANGED <<eventsChan, current, accepted, refused>>
    BY <1>2 DEF MakeEvent, handlerVars, exporterVars
  <2>2. Handled' = Handled /\ Held(current)' = Held(current)
    BY <1>t, <2>1 DEF Handled, Held, None
  <2> QED
    BY <1>0, <2>1, <2>2 DEF InOrderOnce
<1>3. CASE SendEvent
  <2>1. /\ pending # None /\ pending' = None /\ eventsChan' = Append(eventsChan, pending)
        /\ Len(eventsChan) < ChannelBufferSize
        /\ UNCHANGED <<made, current, accepted, refused>>
    BY <1>3 DEF SendEvent, handlerVars, exporterVars
  <2>2. /\ Len(eventsChan') = Len(eventsChan) + 1
        /\ eventsChan'[Len(eventsChan) + 1] = pending
        /\ \A i \in 1 .. Len(eventsChan) : eventsChan'[i] = eventsChan[i]
    BY <1>0, <1>t, <2>1, AppendProperties DEF TypeOK
  <2>3. /\ Handled \in Nat /\ pending = made
        /\ \A i \in 1 .. Len(eventsChan) : eventsChan[i] = Handled + Held(current) + i
    BY <1>0, <2>1 DEF InOrderOnce
  <2>4. Handled' = Handled /\ Held(current)' = Held(current)
    BY <1>t, <2>1, <2>2 DEF Handled, Held
  <2>5. made = Handled + Held(current) + Len(eventsChan) + 1
    BY <1>t, <2>1, <2>3 DEF Handled, Held
  <2>6. \A i \in 1 .. Len(eventsChan') : eventsChan'[i] = Handled + Held(current) + i
    BY <1>t, <2>2, <2>3, <2>5 DEF Held
  <2>7. Len(eventsChan') <= ChannelBufferSize
    BY <1>t, <2>1, <2>2, PipelineConstants
  <2> QED
    BY <1>0, <2>1, <2>4, <2>6, <2>7 DEF InOrderOnce
<1>4. CASE Receive
  <2>1. /\ handler = "select" /\ eventsChan # << >>
        /\ current' = Head(eventsChan) /\ eventsChan' = Tail(eventsChan)
        /\ UNCHANGED <<made, pending, accepted, refused>>
    BY <1>4 DEF Receive, assemblerVars, exporterVars
  <2>2. current = None
    BY <1>0, <2>1 DEF InFlight
  <2>3. /\ Len(eventsChan) >= 1 /\ Len(eventsChan') = Len(eventsChan) - 1
        /\ current' = eventsChan[1] /\ current' \in Events
        /\ \A i \in 1 .. Len(eventsChan') : eventsChan'[i] = eventsChan[i + 1]
    BY <1>t, <2>1, HeadTailProperties
  <2>4. /\ Handled \in Nat
        /\ \A i \in 1 .. Len(eventsChan) : eventsChan[i] = Handled + i
        /\ Len(eventsChan) <= ChannelBufferSize
    BY <1>0, <1>t, <2>2 DEF InOrderOnce, Held
  <2>5. current' # None /\ Held(current') = 1
    BY <2>3, PipelineConstants DEF Events, None, Held
  <2>6. Handled' = Handled
    BY <1>t, <2>1, <2>2, <2>3, <2>5 DEF Handled, Held
  <2>7. current' = Handled + 1
    BY <1>t, <2>3, <2>4
  <2>8. \A i \in 1 .. Len(eventsChan') : eventsChan'[i] = Handled + 1 + i
    BY <1>t, <2>3, <2>4
  <2>9. Len(eventsChan') <= ChannelBufferSize
    BY <1>t, <2>3, <2>4, PipelineConstants
  <2> QED
    BY <1>0, <2>1, <2>5, <2>6, <2>7, <2>8, <2>9 DEF InOrderOnce
<1>5. CASE HandleEvent
  <2>1. /\ handler = "busy" /\ current' = None
        /\ accepted' \cup refused' = (accepted \cup refused) \cup {current}
        /\ (current \notin accepted \cup refused /\ accepted \cap refused = {})
               => accepted' \cap refused' = {}
        /\ UNCHANGED <<made, pending, eventsChan>>
    BY <1>5 DEF HandleEvent, assemblerVars
  <2>2. current # None /\ Handled \in Nat /\ current = Handled + 1
    BY <1>0, <2>1 DEF InFlight, InOrderOnce
  <2>3. Handled' = Handled + 1 /\ Held(current) = 1 /\ Held(current') = 0
    BY <1>t, <2>1, <2>2 DEF Handled, Held
  <2>4. accepted' \cup refused' = 1 .. Handled + 1 /\ accepted' \cap refused' = {}
    <3>1. 1 .. Handled + 1 = (1 .. Handled) \cup {Handled + 1} /\ Handled + 1 \notin 1 .. Handled
      BY <2>2
    <3>2. accepted \cup refused = 1 .. Handled /\ accepted \cap refused = {}
      BY <1>0 DEF InOrderOnce
    <3> QED
      BY <2>1, <2>2, <3>1, <3>2
  <2>5. \A i \in 1 .. Len(eventsChan') : eventsChan'[i] = Handled + 1 + i
    BY <1>0, <2>1, <2>3 DEF InOrderOnce
  <2>6. Handled' + Held(current') = Handled + 1 /\ Handled' \in Nat
    BY <2>2, <2>3
  <2> QED
    BY <1>0, <2>1, <2>3, <2>4, <2>5, <2>6 DEF InOrderOnce
<1> QED
  BY <1>1, <1>2, <1>3, <1>4, <1>5 DEF Next, Assembler, Handler

LEMMA NextIInv == IInv /\ [Next]_vars => IInv'
BY TypeStep, InFlightStep, InOrderStep, WaitGroupStep, PhasesStep DEF IInv

(* The inductive invariant of the pipeline.                                *)
THEOREM Invariance == Spec => []IInv
BY InitIInv, NextIInv, PTL DEF Spec

-----------------------------------------------------------------------------
(* The variables keep their types, for any channel size.                   *)
THEOREM TypeCorrect == Spec => []TypeOK
<1>1. IInv => TypeOK
  BY DEF IInv
<1> QED
  BY Invariance, <1>1, PTL

(* No event is lost, duplicated or overtaken between parse and the         *)
(* exporter while the agent runs, whatever the size of the channel.        *)
THEOREM ExactlyOnceInOrder == Spec => []InOrderOnce
<1>1. IInv => InOrderOnce
  BY DEF IInv
<1> QED
  BY Invariance, <1>1, PTL

(* The WaitGroup of main never goes negative and never lets Wait return    *)
(* while a service runs.                                                   *)
THEOREM WaitGroup == Spec => []WaitGroupCountsServices
<1>1. IInv => WaitGroupCountsServices
  BY DEF IInv
<1> QED
  BY Invariance, <1>1, PTL

(* A completed shutdown loses what is left in the channel and nothing      *)
(* else: at most ChannelBufferSize events.                                 *)
THEOREM BoundedLoss == Spec => []LossAtExitBounded
<1>1. IInv => LossAtExitBounded
  <2> SUFFICES ASSUME IInv, main = "exited", ctxDone
               PROVE  /\ delivered = accepted
                      /\ pending = None /\ current = None
                      /\ made - Len(eventsChan) = Handled
                      /\ \A e \in 1 .. made : e \notin accepted \cup refused =>
                             \E i \in 1 .. Len(eventsChan) : eventsChan[i] = e
    BY DEF LossAtExitBounded
  <2>1. closed /\ handler = "ended" /\ assembler = "ended" /\ delivered = accepted
    BY DEF IInv, Phases
  <2>2. pending = None /\ current = None
    BY <2>1 DEF IInv, InFlight
  <2>3. made \in Nat /\ Len(eventsChan) \in Nat
    BY PipelineConstants DEF IInv, TypeOK
  <2>4. made - Len(eventsChan) = Handled
    BY <2>2, <2>3 DEF Handled, Held
  <2>5. /\ Handled \in Nat /\ accepted \cup refused = 1 .. Handled
        /\ \A i \in 1 .. Len(eventsChan) : eventsChan[i] = Handled + i
    BY <2>2 DEF IInv, InOrderOnce, Held
  <2>6. ASSUME NEW e \in 1 .. made, e \notin accepted \cup refused
        PROVE  \E i \in 1 .. Len(eventsChan) : eventsChan[i] = e
    <3>1. e - Handled \in 1 .. Len(eventsChan) /\ Handled + (e - Handled) = e
      BY <2>3, <2>4, <2>5, <2>6
    <3> QED
      BY <2>5, <3>1
  <2> QED
    BY <2>1, <2>2, <2>4, <2>6
<1> QED
  BY Invariance, <1>1, PTL

(* Nothing is given to the exporter after eventHandler.Close.              *)
THEOREM CloseIsLast == Spec => NothingSentAfterClose
<1>1. IInv /\ [Next]_vars => [closed => UNCHANGED <<accepted, refused, delivered, statsSent>>]_vars
  <2> SUFFICES ASSUME IInv, Next, closed
               PROVE  UNCHANGED <<accepted, refused, delivered, statsSent>>
    OBVIOUS
  <2>1. main \in {"notify", "exited"} /\ handler = "ended" /\ assembler = "ended"
    BY DEF IInv, Phases
  <2>2. pending = None
    BY <2>1 DEF IInv, InFlight
  <2>3. Exit
    BY <2>1, <2>2 DEF Next, Main, StartHandler, StartAssembler, StartupFails, Signal, WaitReturns,
                      Close, Assembler, BeginWork, EndWork, LogStats, MakeEvent, SendEvent,
                      AssemblerSeesDone, AssemblerReturns, Handler, Receive, HandleEvent,
                      HandlerSeesDone, ExporterSends
  <2> QED
    BY <2>3 DEF Exit, assemblerVars, exporterVars
<1> QED
  BY Invariance, <1>1, PTL DEF Spec, NothingSentAfterClose

(* Once the assembler waits on a full channel after the handler has        *)
(* returned, the shutdown never completes.                                 *)
THEOREM NoWayOut == Spec => StuckForever
<1>1. IInv /\ [Next]_vars => [Stuck => Stuck' /\ main' = main /\ accepted' = accepted]_vars
  <2> SUFFICES ASSUME IInv, Next, Stuck
               PROVE  Stuck' /\ main' = main /\ accepted' = accepted
    OBVIOUS
  <2>1. handler = "ended" /\ pending # None /\ Len(eventsChan) = ChannelBufferSize
    BY DEF Stuck
  <2>2. assembler \in {"busy", "stopping"}
    BY <2>1 DEF IInv, InFlight
  <2>3. wgServices # 0
    BY <2>1, <2>2 DEF IInv, WaitGroupCountsServices, Live
  <2>4. main = "waiting" \/ main = "exited"
    BY <2>1, <2>2 DEF IInv, TypeOK, MainStates, Phases
  <2>5. ~(Len(eventsChan) < ChannelBufferSize)
    BY <2>1, PipelineConstants
  <2>6. ExporterSends
    BY <2>1, <2>2, <2>3, <2>4, <2>5
       DEF Next, Main, StartHandler, StartAssembler, StartupFails, Signal, WaitReturns, Close, Exit,
           Assembler, BeginWork, EndWork, LogStats, MakeEvent, SendEvent, AssemblerSeesDone,
           AssemblerReturns, Handler, Receive, HandleEvent, HandlerSeesDone
  <2> QED
    BY <2>1, <2>6 DEF Stuck, ExporterSends, mainVars, assemblerVars, handlerVars
<1> QED
  BY Invariance, <1>1, PTL DEF Spec, StuckForever

(* The guards of the steps, for ENABLED is beyond the provers: main's, the *)
(* assembler's, the handler's and the exporter's.                          *)
Ready ==
    \/ main \in {"newHandler", "newAssembler", "ready", "closing", "notify"}
    \/ main = "waiting" /\ wgServices = 0
    \/ /\ Running
       /\ \/ assembler = "select"
          \/ assembler \in {"busy", "stopping"} /\ pending = None
          \/ pending # None /\ Len(eventsChan) < ChannelBufferSize
          \/ handler = "busy"
          \/ handler = "select" /\ (eventsChan # << >> \/ ctxDone)
          \/ ~closed /\ delivered # accepted

(* Stuck is the only way to hang: wherever no goroutine may take a step,   *)
(* main has returned, or the handler has and the assembler waits in        *)
(* parse's send on a full channel.  There is no state in which main waits  *)
(* for services that are through, or the services for each other.          *)
THEOREM HangsOnlyWhenStuck == Spec => [](Ready \/ main = "exited" \/ Stuck)
<1>1. IInv => Ready \/ main = "exited" \/ Stuck
  <2> SUFFICES ASSUME IInv, ~Ready, main # "exited" PROVE Stuck
    OBVIOUS
  <2>1. /\ main \in MainStates /\ assembler \in ServiceStates /\ handler \in ServiceStates
        /\ Len(eventsChan) \in Nat /\ Len(eventsChan) <= ChannelBufferSize
    BY DEF IInv, TypeOK, InOrderOnce
  <2>2. main = "waiting" /\ wgServices # 0
    BY <2>1 DEF Ready, MainStates
  <2>3. /\ assembler # "select" /\ handler # "busy" /\ handler # "stopping"
        /\ assembler \in {"busy", "stopping"} => pending # None
        /\ pending # None => ~(Len(eventsChan) < ChannelBufferSize)
        /\ handler = "select" => eventsChan = << >>
    BY DEF Ready, Running, IInv, InFlight
  <2>4. /\ handler # "off" /\ assembler # "off"
        /\ wgServices = Live(handler) + Live(assembler)
    BY <2>2 DEF IInv, Phases, WaitGroupCountsServices
  <2>5. assembler \in {"busy", "stopping"} \/ handler = "select"
    BY <2>1, <2>2, <2>3, <2>4 DEF ServiceStates, Live
  <2>6. handler = "select" => assembler \in {"busy", "stopping"} \/ assembler = "ended"
    BY <2>1, <2>3, <2>4 DEF ServiceStates
  <2>7. handler # "select"
    <3> SUFFICES ASSUME handler = "select" PROVE FALSE
      OBVIOUS
    <3>1. eventsChan = << >> /\ Len(eventsChan) = 0
      BY <2>3
    <3>2. CASE assembler = "ended"
      <4>1. ctxDone
        BY <3>2 DEF IInv, Phases
      <4> QED
        BY <4>1 DEF Ready, Running
    <3>3. CASE assembler \in {"busy", "stopping"}
      BY <2>3, <3>1, <3>3, PipelineConstants
    <3> QED
      BY <2>6, <3>2, <3>3
  <2>8. handler = "ended" /\ assembler \in {"busy", "stopping"}
    BY <2>1, <2>3, <2>4, <2>5, <2>7 DEF ServiceStates
  <2>9. pending # None /\ Len(eventsChan) = ChannelBufferSize
    BY <2>1, <2>3, <2>8, PipelineConstants
  <2> QED
    BY <2>8, <2>9 DEF Stuck
<1> QED
  BY Invariance, <1>1, PTL

(* A channel with room for every event that is made is never full while an *)
(* event waits: the shutdown cannot hang.                                  *)
THEOREM RoomyNeverStuck == ASSUME MaxEvents <= ChannelBufferSize PROVE Spec => []~Stuck
<1>1. IInv => ~Stuck
  <2> SUFFICES ASSUME IInv, Stuck PROVE FALSE
    OBVIOUS
  <2>1. pending # None /\ Len(eventsChan) = ChannelBufferSize
    BY DEF Stuck
  <2>2. made \in Nat /\ made <= MaxEvents /\ Handled \in Nat
    BY PipelineConstants DEF IInv, TypeOK, InOrderOnce
  <2>3. Handled = made - 1 - ChannelBufferSize - Held(current) /\ Held(current) \in {0, 1}
    BY <2>1 DEF Handled, Held
  <2> QED
    BY <2>2, <2>3, PipelineConstants
<1> QED
  BY Invariance, <1>1, PTL

-----------------------------------------------------------------------------
(* The refinement of Delivery.                                             *)

\* No event is made before the assembler is started.
MadeOnceStarted == assembler = "off" => made = 0

LEMMA MadeStep == Spec => []MadeOnceStarted
<1>1. Init => MadeOnceStarted
  BY DEF Init, MadeOnceStarted
<1>2. MadeOnceStarted /\ [Next]_vars => MadeOnceStarted'
  BY DEF MadeOnceStarted, vars, mainVars, assemblerVars, handlerVars, exporterVars, Next, Main,
         StartHandler, StartAssembler, StartupFails, Signal, WaitReturns, Close, Exit, Assembler,
         BeginWork, EndWork, LogStats, MakeEvent, SendEvent, AssemblerSeesDone, AssemblerReturns,
         Handler, Receive, HandleEvent, HandlerSeesDone, ExporterSends
<1> QED
  BY <1>1, <1>2, PTL DEF Spec

\* A step that leaves what Delivery talks about alone is a stuttering step.
LEMMA QuietStep ==
    ASSUME UNCHANGED <<made, accepted, refused, delivered>>,
           main' = main \/ (main # "exited" /\ main' # "exited")
    PROVE  UNCHANGED D!vars
BY DEF D!vars

\* The window is open when the assembler makes an event.
LEMMA MakeIsMake == IInv /\ MakeEvent => D!Make
<1> SUFFICES ASSUME IInv, MakeEvent PROVE D!Make
  OBVIOUS
<1>1. main # "exited" /\ pending = None /\ made' = made + 1 /\ main' = main
  BY DEF MakeEvent, Running, mainVars
<1>2. UNCHANGED <<accepted, refused, delivered>>
  BY DEF MakeEvent, exporterVars
<1>3. /\ made \in Nat /\ Len(eventsChan) \in Nat /\ Len(eventsChan) <= ChannelBufferSize
      /\ Handled \in Nat /\ accepted \cup refused = 1 .. Handled
  BY PipelineConstants DEF IInv, TypeOK, InOrderOnce
<1>4. Handled = made - Len(eventsChan) - Held(current) /\ Held(current) \in {0, 1}
  BY <1>1, <1>3 DEF Handled, Held
<1>5. \A e \in 1 .. made + 1 - (ChannelBufferSize + 2) : e \in 1 .. Handled
  BY <1>3, <1>4, PipelineConstants
<1>6. \A e \in 1 .. made + 1 - (ChannelBufferSize + 2) : e \in accepted \cup refused
  BY <1>3, <1>5
<1> QED
  BY <1>1, <1>2, <1>6 DEF D!Make, D!Handled

\* The event in handleEvent is the first that has not been handled.
LEMMA HandleIsHandle == IInv /\ HandleEvent => D!Handle
<1> SUFFICES ASSUME IInv, HandleEvent PROVE D!Handle
  OBVIOUS
<1>1. /\ main # "exited" /\ main' = main /\ handler = "busy"
      /\ UNCHANGED <<made, delivered>>
      /\ \/ accepted' = accepted \cup {current} /\ refused' = refused
         \/ refused' = refused \cup {current} /\ accepted' = accepted
  BY DEF HandleEvent, Running, mainVars, assemblerVars
<1>2. current # None
  BY <1>1 DEF IInv, InFlight
<1>3. /\ made \in Nat /\ Len(eventsChan) \in Nat /\ Handled \in Nat
      /\ accepted \cup refused = 1 .. Handled /\ current = Handled + 1
  BY <1>2, PipelineConstants DEF IInv, TypeOK, InOrderOnce
<1>4. Held(pending) \in {0, 1} /\ Held(current) = 1
  BY <1>2 DEF Held
<1>5. Handled = made - Held(pending) - Len(eventsChan) - 1
  BY <1>4 DEF Handled
<1>6. current \in 1 .. made /\ current \notin 1 .. Handled /\ \A d \in 1 .. current - 1 : d \in 1 .. Handled
  BY <1>3, <1>4, <1>5
<1>7. current \notin D!Handled /\ \A d \in 1 .. current - 1 : d \in D!Handled
  BY <1>3, <1>6 DEF D!Handled
<1>8. \E e \in 1 .. made :
          /\ e \notin D!Handled /\ \A d \in 1 .. e - 1 : d \in D!Handled
          /\ \/ accepted' = accepted \cup {e} /\ refused' = refused
             \/ refused' = refused \cup {e} /\ accepted' = accepted
  BY <1>1, <1>6, <1>7
<1> QED
  BY <1>1, <1>8 DEF D!Handle

\* main ends only when everything accepted has been sent.
LEMMA ExitIsExit == IInv /\ MadeOnceStarted /\ (Exit \/ StartupFails) => D!Exit
<1> SUFFICES ASSUME IInv, MadeOnceStarted, Exit \/ StartupFails PROVE D!Exit
  OBVIOUS
<1>1. /\ main # "exited" /\ main' = "exited"
      /\ UNCHANGED <<made, accepted, refused, delivered>>
  BY DEF Exit, StartupFails, assemblerVars, exporterVars
<1>2. delivered = accepted
  <2>1. CASE Exit
    BY <2>1 DEF Exit, IInv, Phases
  <2>2. CASE StartupFails
    <3>1. assembler = "off"
      BY <2>2 DEF StartupFails, IInv, Phases
    <3>2. made = 0
      BY <3>1 DEF MadeOnceStarted
    <3>3. /\ Len(eventsChan) \in Nat /\ Handled \in Nat
          /\ accepted \cup refused = 1 .. Handled /\ delivered \subseteq accepted
      BY DEF IInv, TypeOK, InOrderOnce
    <3>4. Held(pending) \in {0, 1} /\ Held(current) \in {0, 1}
      BY DEF Held
    <3>5. Handled = 0
      BY <3>2, <3>3, <3>4 DEF Handled
    <3>6. 1 .. Handled = {}
      BY <3>5
    <3> QED
      BY <3>3, <3>6
  <2> QED
    BY <2>1, <2>2
<1> QED
  BY <1>1, <1>2 DEF D!Exit

(* Every step of the pipeline is a step of Delivery or changes nothing of  *)
(* what it speaks about: goroutines, channel, WaitGroup and shutdown       *)
(* implement the promise, for a channel of every size.                     *)
THEOREM Refinement == Spec => DeliversAsPromised
<1>1. Init => D!Init
  BY DEF Init, D!Init
<1>2. IInv /\ MadeOnceStarted /\ [Next]_vars => [D!Next]_(D!vars)
  <2> SUFFICES ASSUME IInv, MadeOnceStarted, [Next]_vars PROVE [D!Next]_(D!vars)
    OBVIOUS
  <2> USE DEF mainVars, assemblerVars, handlerVars, exporterVars, Running
  <2>1. CASE UNCHANGED vars
    BY <2>1, QuietStep DEF vars
  <2>2. CASE StartHandler \/ StartAssembler \/ Signal \/ WaitReturns
    BY <2>2, QuietStep DEF StartHandler, StartAssembler, Signal, WaitReturns
  <2>3. CASE Exit \/ StartupFails
    BY <2>3, ExitIsExit DEF D!Next
  <2>4. CASE Close
    BY <2>4 DEF Close, D!Next, D!Deliver
  <2>5. CASE BeginWork \/ EndWork \/ LogStats \/ SendEvent \/ AssemblerSeesDone \/ AssemblerReturns
    BY <2>5, QuietStep DEF BeginWork, EndWork, LogStats, SendEvent, AssemblerSeesDone, AssemblerReturns
  <2>6. CASE MakeEvent
    BY <2>6, MakeIsMake DEF D!Next
  <2>7. CASE Receive \/ HandlerSeesDone
    BY <2>7, QuietStep DEF Receive, HandlerSeesDone
  <2>8. CASE HandleEvent
    BY <2>8, HandleIsHandle DEF D!Next
  <2>9. CASE ExporterSends
    BY <2>9 DEF ExporterSends, D!Next, D!Deliver
  <2> QED
    BY <2>1, <2>2, <2>3, <2>4, <2>5, <2>6, <2>7, <2>8, <2>9 DEF Next, Main, Assembler, Handler
<1> QED
  BY Invariance, MadeStep, <1>1, <1>2, PTL DEF Spec, DeliversAsPromised, D!Spec
=============================================================================
