---------------------------- MODULE AgentProofs -----------------------------
(***************************************************************************)
(* The agent does what its two halves promise.  Every behaviour of the     *)
(* whole is one of the TCP assembler and one of the pipeline, so all that  *)
(* TcpAssemblerProofs and EventPipelineProofs prove holds of the agent;    *)
(* what is new is the seam between them, parse's send: every match becomes *)
(* one event of the pipeline, in the order of the matches.                 *)
(*                                                                         *)
(* That is inductive together with Attended: the assembler's goroutine is  *)
(* inside a case of its select as long as a match waits to be sent or a    *)
(* flush is under way, so a match is never overwritten by the next.        *)
(***************************************************************************)
EXTENDS Agent, TcpAssemblerProofs

PP == INSTANCE EventPipelineProofs

\* parse's goroutine is in the middle of a case.
Attended == found # NoEvent \/ todo # {} => assembler \in {"busy", "stopping"}

AInv == /\ IInv /\ PP!IInv /\ Attended /\ log \in Seq(events) /\ EveryMatchSentOnce

-----------------------------------------------------------------------------
(* The agent implements the assembler and the pipeline.                    *)

LEMMA Constants == PP!PipelineConstants
BY FiniteTraffic, AgentConstants DEF PP!PipelineConstants

LEMMA AgentStep == [AgentNext]_agentVars => [Next]_vars
<1> SUFFICES ASSUME [AgentNext]_agentVars PROVE [Next]_vars
  OBVIOUS
<1>1. CASE TakePacket \/ TakeTick \/ TakeDone
  BY <1>1 DEF TakePacket, TakeTick, TakeDone, Next
<1>2. CASE Flush
  BY <1>2 DEF Flush, Next
<1>3. CASE Return
  BY <1>3 DEF Return, Next
<1>4. CASE Outside
  BY <1>4 DEF Outside, Next
<1>5. CASE TakeStats \/ Send \/ Finished \/ Others
  BY <1>5 DEF TakeStats, Send, Finished, Others
<1>6. CASE UNCHANGED agentVars
  BY <1>6 DEF agentVars
<1> QED
  BY <1>1, <1>2, <1>3, <1>4, <1>5, <1>6 DEF AgentNext

(* The agent's streams are those of the assembler: whatever the channel    *)
(* and the handler do, it takes no other steps than TcpAssembler allows.   *)
THEOREM AgentAssembles == AgentSpec => Spec
<1>1. AgentInit => Init
  BY DEF AgentInit
<1> QED
  BY <1>1, AgentStep, PTL DEF AgentSpec, Spec

LEMMA PipelineInit == AgentInit => PP!Init
BY DEF AgentInit, P!Init, PP!Init, P!None, PP!None

\* The pipeline's steps are the same under both names.
LEMMA SameSteps ==
    /\ P!BeginWork => PP!BeginWork
    /\ P!EndWork => PP!EndWork
    /\ P!LogStats => PP!LogStats
    /\ P!MakeEvent => PP!MakeEvent
    /\ P!SendEvent => PP!SendEvent
    /\ P!AssemblerSeesDone => PP!AssemblerSeesDone
    /\ P!AssemblerReturns => PP!AssemblerReturns
    /\ P!Main => PP!Main
    /\ P!Handler => PP!Handler
    /\ P!ExporterSends => PP!ExporterSends
<1> USE DEF P!mainVars, PP!mainVars, P!assemblerVars, PP!assemblerVars, P!handlerVars,
            PP!handlerVars, P!exporterVars, PP!exporterVars, P!Running, PP!Running, P!None, PP!None
<1>1. P!BeginWork => PP!BeginWork
  BY DEF P!BeginWork, PP!BeginWork
<1>2. P!EndWork => PP!EndWork
  BY DEF P!EndWork, PP!EndWork
<1>3. P!MakeEvent => PP!MakeEvent
  BY DEF P!MakeEvent, PP!MakeEvent
<1>4. P!SendEvent => PP!SendEvent
  BY DEF P!SendEvent, PP!SendEvent
<1>5. P!AssemblerSeesDone => PP!AssemblerSeesDone
  BY DEF P!AssemblerSeesDone, PP!AssemblerSeesDone
<1>6. P!AssemblerReturns => PP!AssemblerReturns
  BY DEF P!AssemblerReturns, PP!AssemblerReturns
<1>7. P!Main => PP!Main
  <2>1. P!StartHandler => PP!StartHandler
    BY DEF P!StartHandler, PP!StartHandler
  <2>2. P!StartAssembler => PP!StartAssembler
    BY DEF P!StartAssembler, PP!StartAssembler
  <2>3. P!StartupFails => PP!StartupFails
    BY DEF P!StartupFails, PP!StartupFails
  <2>4. P!Signal => PP!Signal
    BY DEF P!Signal, PP!Signal
  <2>5. P!WaitReturns => PP!WaitReturns
    BY DEF P!WaitReturns, PP!WaitReturns
  <2>6. P!Close => PP!Close
    BY DEF P!Close, PP!Close
  <2>7. P!Exit => PP!Exit
    BY DEF P!Exit, PP!Exit
  <2> QED
    BY <2>1, <2>2, <2>3, <2>4, <2>5, <2>6, <2>7 DEF P!Main, PP!Main
<1>8. P!Handler => PP!Handler
  <2>1. P!Receive => PP!Receive
    BY DEF P!Receive, PP!Receive
  <2>2. P!HandleEvent => PP!HandleEvent
    BY DEF P!HandleEvent, PP!HandleEvent
  <2>3. P!HandlerSeesDone => PP!HandlerSeesDone
    BY DEF P!HandlerSeesDone, PP!HandlerSeesDone
  <2> QED
    BY <2>1, <2>2, <2>3 DEF P!Handler, PP!Handler
<1>9. P!ExporterSends => PP!ExporterSends
  BY DEF P!ExporterSends, PP!ExporterSends
<1>10. P!LogStats => PP!LogStats
  BY DEF P!LogStats, PP!LogStats
<1> QED
  BY <1>1, <1>2, <1>3, <1>4, <1>5, <1>6, <1>7, <1>8, <1>9, <1>10

LEMMA PipelineStep == [AgentNext]_agentVars => [PP!Next]_(PP!vars)
<1> SUFFICES ASSUME [AgentNext]_agentVars PROVE [PP!Next]_(PP!vars)
  OBVIOUS
<1> USE SameSteps
<1>1. UNCHANGED pipelineVars => UNCHANGED PP!vars
  BY DEF pipelineVars, PP!vars, PP!mainVars, PP!assemblerVars, PP!handlerVars, PP!exporterVars
<1>2. CASE TakePacket \/ TakeTick \/ TakeDone \/ TakeStats \/ Send \/ Finished \/ Return
  <2>1. \/ PP!BeginWork \/ PP!AssemblerSeesDone \/ PP!LogStats \/ PP!MakeEvent \/ PP!EndWork
        \/ PP!AssemblerReturns
    BY <1>2 DEF TakePacket, TakeTick, TakeDone, TakeStats, Send, Finished, Return
  <2> QED
    BY <2>1 DEF PP!Next, PP!Assembler
<1>3. CASE Others
  <2>1. PP!Main \/ PP!Handler \/ PP!ExporterSends \/ PP!SendEvent
    BY <1>3 DEF Others
  <2> QED
    BY <2>1 DEF PP!Next, PP!Assembler
<1>4. CASE Flush \/ Outside
  BY <1>1, <1>4 DEF Flush, Outside
<1>5. CASE UNCHANGED agentVars
  BY <1>1, <1>5 DEF agentVars
<1> QED
  BY <1>2, <1>3, <1>4, <1>5 DEF AgentNext

(* The agent is a pipeline of the kind EventPipeline describes: its        *)
(* assembler makes events, waits with them and stops as that one does, for *)
(* a channel of every size.                                                *)
THEOREM AgentPipes == AgentSpec => PP!Spec
BY PipelineInit, PipelineStep, PTL DEF AgentSpec, PP!Spec

(* And so it delivers: no event is lost, duplicated or overtaken between   *)
(* parse and the exporter, and the process does not end while the exporter *)
(* holds events it has not sent.                                           *)
THEOREM AgentDelivers == AgentSpec => PP!DeliversAsPromised /\ []PP!InOrderOnce
<1>1. PP!Spec => PP!DeliversAsPromised
  BY Constants, PP!Refinement
<1>2. PP!Spec => []PP!InOrderOnce
  BY Constants, PP!ExactlyOnceInOrder
<1> QED
  BY AgentPipes, <1>1, <1>2, PTL

-----------------------------------------------------------------------------
(* The seam.                                                               *)

\* A step of the assembler makes one event at most, of a stream that is counted.
LEMMA OneEvent ==
    ASSUME IInv, [Next]_vars, events' # events
    PROVE  \E ev : events' = events \cup {ev} /\ ev \notin events /\ ev.stream # 0
<1>1. ASSUME NEW c \in Conns, NEW t, NEW k, Handled(c, t, k)
      PROVE  \E ev : events' = events \cup {ev} /\ ev.stream # 0
  <2>1. t.id # 0
    BY <1>1, KeepPool DEF Handled
  <2> QED
    BY <1>1, <2>1 DEF Handled
<1>2. \E ev : events' = events \cup {ev} /\ ev.stream # 0
  <2>1. CASE Packet
    BY <1>1, <2>1, PacketPassedOn DEF PassedOn
  <2>2. CASE FlushStep
    <3>1. PICK c \in Conns, e \in Ends : FlushRun(c, e) \/ CloseHalf(c, e) \/ NextHalf(c, e)
      BY <2>2 DEF FlushStep
    <3>2. CASE FlushRun(c, e)
      BY <1>1, <3>2, FlushRunPassedOn DEF PassedOn
    <3>3. CASE CloseHalf(c, e) \/ NextHalf(c, e)
      BY <3>3 DEF CloseHalf, NextHalf
    <3> QED
      BY <3>1, <3>2, <3>3
  <2>3. CASE ~Packet /\ ~FlushStep
    BY <2>3 DEF Next, vars, Capture, Lose, Tick, BeginFlush, BeginStop, Stopped
  <2> QED
    BY <2>1, <2>2, <2>3
<1> QED
  BY <1>2

LEMMA FoundIsNew ==
    ASSUME AInv, [Next]_vars, found = NoEvent, Note, log' = log, made' = made
    PROVE  log' \in Seq(events') /\ EveryMatchSentOnce'
<1>1. /\ events = {log[i] : i \in DOMAIN log} /\ log \in Seq(events)
      /\ \A i, j \in DOMAIN log : log[i] = log[j] => i = j
      /\ Len(log) = made
      /\ \A ev \in events : ev.stream # 0
  BY DEF AInv, EveryMatchSentOnce, IInv, EventsNamed
<1>2. NoEvent.stream = 0
  BY DEF NoEvent
<1>3. \A i \in DOMAIN log : log[i] \in events
  BY <1>1
<1>4. CASE events' = events
  <2>1. found' = NoEvent
    BY <1>4 DEF Note
  <2>2. \A i \in DOMAIN log : log[i] # NoEvent
    BY <1>1, <1>2, <1>3
  <2> QED
    BY <1>1, <1>4, <2>1, <2>2 DEF EveryMatchSentOnce
<1>5. CASE events' # events
  <2>1. PICK ev : events' = events \cup {ev} /\ ev \notin events /\ ev.stream # 0
    BY <1>5, OneEvent DEF AInv
  <2>2. events' \ events = {ev}
    BY <2>1
  <2>3. found' = ev
    BY <1>5, <2>2 DEF Note
  <2>4. ev # NoEvent /\ {ev} \ {NoEvent} = {ev}
    BY <1>2, <2>1
  <2>5. \A i \in DOMAIN log : log[i] # ev
    BY <1>3, <2>1
  <2>6. log \in Seq(events')
    <3>1. events \subseteq events'
      BY <2>1
    <3> QED
      BY <1>1, <3>1
  <2>7. events' = {log[i] : i \in DOMAIN log} \cup ({ev} \ {NoEvent})
    BY <1>1, <2>1, <2>4
  <2> QED
    BY <1>1, <2>3, <2>5, <2>6, <2>7 DEF EveryMatchSentOnce
<1> QED
  BY <1>4, <1>5

LEMMA SentOnce ==
    ASSUME AInv, Send
    PROVE  log' \in Seq(events') /\ EveryMatchSentOnce'
<1>1. /\ found # NoEvent /\ log' = Append(log, found) /\ found' = NoEvent /\ events' = events
      /\ made' = made + 1
  BY DEF Send, vars, P!MakeEvent
<1>2. /\ events = {log[i] : i \in DOMAIN log} \cup ({found} \ {NoEvent}) /\ log \in Seq(events)
      /\ \A i, j \in DOMAIN log : log[i] = log[j] => i = j
      /\ \A i \in DOMAIN log : log[i] # found
      /\ Len(log) = made
      /\ \A ev \in events : ev.stream # 0
  BY DEF AInv, EveryMatchSentOnce, IInv, EventsNamed
<1>3. found \in events
  BY <1>1, <1>2
<1>4. /\ log' \in Seq(events) /\ Len(log') = Len(log) + 1 /\ Len(log) \in Nat
      /\ DOMAIN log = 1 .. Len(log) /\ DOMAIN log' = 1 .. Len(log) + 1
      /\ log'[Len(log) + 1] = found /\ \A i \in 1 .. Len(log) : log'[i] = log[i]
  BY <1>1, <1>2, <1>3
<1>5. \A i \in DOMAIN log' : i \in DOMAIN log \/ i = Len(log) + 1
  BY <1>4
<1>6. \A i, j \in DOMAIN log' : log'[i] = log'[j] => i = j
  BY <1>2, <1>4, <1>5
<1>7. {log'[i] : i \in DOMAIN log'} = {log[i] : i \in DOMAIN log} \cup {found}
  <2>1. Len(log) + 1 \in DOMAIN log' /\ \A i \in DOMAIN log : i \in DOMAIN log'
    BY <1>4
  <2>2. \A i \in DOMAIN log : log'[i] = log[i]
    BY <1>4
  <2> QED
    BY <1>4, <1>5, <2>1, <2>2
<1>8. events = {log'[i] : i \in DOMAIN log'}
  BY <1>1, <1>2, <1>7
<1>9. \A i \in DOMAIN log' : log'[i] # NoEvent
  <2>1. NoEvent.stream = 0
    BY DEF NoEvent
  <2> QED
    BY <1>2, <1>8, <2>1
<1>10. Len(log') = made'
  BY <1>1, <1>2, <1>4
<1> QED
  BY <1>1, <1>4, <1>6, <1>8, <1>9, <1>10 DEF EveryMatchSentOnce

\* What else happens leaves the matches alone.
LEMMA NoMatch ==
    ASSUME AInv, UNCHANGED <<events, found, log, made>>
    PROVE  log' \in Seq(events') /\ EveryMatchSentOnce'
BY DEF AInv, EveryMatchSentOnce

LEMMA AInvInit == AgentInit => AInv
<1> SUFFICES ASSUME AgentInit PROVE AInv
  OBVIOUS
<1>1. IInv
  BY InitIInv DEF AgentInit
<1>2. PP!IInv
  BY Constants, PipelineInit, PP!InitIInv
<1>3. events = {} /\ todo = {} /\ found = NoEvent /\ log = << >> /\ made = 0
  BY DEF AgentInit, Init, P!Init
<1>4. DOMAIN log = {} /\ Len(log) = 0 /\ log \in Seq(events)
  BY <1>3
<1>5. EveryMatchSentOnce
  BY <1>3, <1>4 DEF EveryMatchSentOnce
<1> QED
  BY <1>1, <1>2, <1>3, <1>4, <1>5 DEF AInv, Attended

LEMMA AInvNext == AInv /\ [AgentNext]_agentVars => AInv'
<1> SUFFICES ASSUME AInv, [AgentNext]_agentVars PROVE AInv'
  OBVIOUS
<1>1. IInv' /\ [Next]_vars
  BY AgentStep, NextIInv DEF AInv
<1>2. PP!IInv'
  BY Constants, PipelineStep, PP!NextIInv DEF AInv
<1>3. assembler = "select" => found = NoEvent /\ todo = {}
  BY DEF AInv, Attended
<1> USE DEF P!mainVars, P!assemblerVars, P!handlerVars, P!exporterVars
<1>4. Attended' /\ log' \in Seq(events') /\ EveryMatchSentOnce'
  <2>1. CASE TakePacket
    <3>1. /\ assembler = "select" /\ assembler' = "busy" /\ made' = made
          /\ Note /\ log' = log
      BY <2>1 DEF TakePacket, P!BeginWork
    <3> QED
      BY <1>1, <1>3, <3>1, FoundIsNew DEF Attended
  <2>2. CASE TakeTick
    <3>1. assembler' = "busy" /\ UNCHANGED <<events, found, log, made>>
      BY <2>2 DEF TakeTick, P!BeginWork, BeginFlush
    <3> QED
      BY <3>1, NoMatch DEF Attended
  <2>3. CASE TakeDone
    <3>1. assembler' = "stopping" /\ UNCHANGED <<events, found, log, made>>
      BY <2>3 DEF TakeDone, P!AssemblerSeesDone, BeginStop
    <3> QED
      BY <3>1, NoMatch DEF Attended
  <2>4. CASE Flush
    <3>1. /\ found = NoEvent /\ Note /\ log' = log /\ made' = made /\ assembler' = assembler
          /\ FlushStep
      BY <2>4 DEF Flush, Parsed, pipelineVars
    <3>2. todo # {}
      BY <3>1 DEF FlushStep, FlushRun, CloseHalf, NextHalf, Turn
    <3> QED
      BY <1>1, <3>1, <3>2, FoundIsNew DEF Attended, AInv
  <2>5. CASE Send
    <3>1. assembler' = assembler /\ assembler \in {"busy", "stopping"}
      BY <2>5 DEF Send, P!MakeEvent
    <3> QED
      BY <2>5, <3>1, SentOnce DEF Attended
  <2>6. CASE Finished
    <3>1. found' = NoEvent /\ todo' = {} /\ UNCHANGED <<events, found, log, made>>
      BY <2>6 DEF Finished, Parsed, P!EndWork, vars
    <3> QED
      BY <3>1, NoMatch DEF Attended
  <2>7. CASE Return
    <3>1. found' = NoEvent /\ todo' = {} /\ UNCHANGED <<events, found, log, made>>
      BY <2>7 DEF Return, Parsed, P!AssemblerReturns, Stopped
    <3> QED
      BY <3>1, NoMatch DEF Attended
  <2>8. CASE Others
    <3>1. UNCHANGED <<todo, events, found, log>>
      BY <2>8 DEF Others, vars
    <3>2. made' = made /\ (assembler' = assembler \/ assembler = "off")
      <4>1. CASE P!Main
        BY <4>1 DEF P!Main, P!StartHandler, P!StartAssembler, P!StartupFails, P!Signal,
                    P!WaitReturns, P!Close, P!Exit, AInv, PP!IInv, PP!Phases
      <4>2. CASE P!Handler \/ P!ExporterSends \/ P!SendEvent
        BY <4>2 DEF P!Handler, P!Receive, P!HandleEvent, P!HandlerSeesDone, P!ExporterSends,
                    P!SendEvent
      <4> QED
        BY <2>8, <4>1, <4>2 DEF Others
    <3> QED
      BY <3>1, <3>2, NoMatch DEF Attended, AInv
  <2>9. CASE Outside
    <3>1. UNCHANGED <<todo, events, found, log, made, assembler>>
      BY <2>9 DEF Outside, pipelineVars, Tick, Capture, Lose
    <3> QED
      BY <3>1, NoMatch DEF Attended, AInv
  <2>10. CASE UNCHANGED agentVars
    <3>1. UNCHANGED <<todo, events, found, log, made, assembler>>
      BY <2>10 DEF agentVars, pipelineVars, vars
    <3> QED
      BY <3>1, NoMatch DEF Attended, AInv
  <2>11. CASE TakeStats
    <3>1. UNCHANGED <<todo, events, found, log, made, assembler>>
      BY <2>11 DEF TakeStats, P!LogStats, vars
    <3> QED
      BY <3>1, NoMatch DEF Attended, AInv
  <2> QED
    BY <2>1, <2>2, <2>3, <2>4, <2>5, <2>6, <2>7, <2>8, <2>9, <2>10, <2>11 DEF AgentNext
<1> QED
  BY <1>1, <1>2, <1>4 DEF AInv

(* The inductive invariant of the agent.                                   *)
THEOREM AgentInvariance == AgentSpec => []AInv
BY AInvInit, AInvNext, PTL DEF AgentSpec

(* Every match that a stream makes is sent once, in the order of the       *)
(* matches, though the goroutine that makes them waits in the middle of a  *)
(* flush or of Stop whenever the channel is full: parse never finds an     *)
(* event while an earlier one is still in its hands.                       *)
THEOREM MatchesSentOnce == AgentSpec => []EveryMatchSentOnce
<1>1. AInv => EveryMatchSentOnce
  BY DEF AInv
<1> QED
  BY AgentInvariance, <1>1, PTL

(* The variables of the agent keep their types.                            *)
THEOREM AgentTypeCorrect == AgentSpec => []AgentTypeOK
<1>1. AInv => AgentTypeOK
  <2> SUFFICES ASSUME AInv PROVE AgentTypeOK
    OBVIOUS
  <2>1. TypeOK /\ EveryMatchSentOnce
    BY DEF AInv, IInv
  <2>2. PP!TypeOK
    BY DEF AInv, PP!IInv
  <2>3. P!TypeOK
    BY <2>2 DEF PP!TypeOK, P!TypeOK, PP!MainStates, P!MainStates, PP!ServiceStates,
                P!ServiceStates, PP!Events, P!Events, PP!None, P!None
  <2>4. found \in events \cup {NoEvent} /\ \A i \in DOMAIN log : log[i] \in events
    BY <2>1 DEF EveryMatchSentOnce
  <2> QED
    BY <2>1, <2>3, <2>4 DEF AgentTypeOK
<1> QED
  BY AgentInvariance, <1>1, PTL
=============================================================================
