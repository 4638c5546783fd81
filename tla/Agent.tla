------------------------------- MODULE Agent --------------------------------
(***************************************************************************)
(* The agent from the wire to the exporter: the TCP assembler              *)
(* (TcpAssembler) as the producer of the pipeline (EventPipeline).         *)
(*                                                                         *)
(* The goroutine of tcpAssembler.Start runs both: it takes a packet or a   *)
(* tick when its select comes to it, and where a match makes an event it   *)
(* stands in parse's send until the channel has room, with the flush or    *)
(* the Stop it is in the middle of waiting as well.  The wire goes on      *)
(* meanwhile; the clock does too unless a flush is under way, whose        *)
(* reading of the clock is the one it started with.  The ticks that pass   *)
(* during a flush are counted when it is over.                             *)
(***************************************************************************)
EXTENDS TcpAssembler

CONSTANTS ChannelBufferSize, MaxEvents, MaxStats

VARIABLES main, ctxDone, wgServices, assembler, made, pending, eventsChan,
          handler, current, accepted, refused, delivered, statsSent, closed,
          found,  \* the event that has just been matched, in parse
          log     \* history: the events in the order in which they were sent

P == INSTANCE EventPipeline

pipelineVars == <<main, ctxDone, wgServices, assembler, made, pending, eventsChan,
                  handler, current, accepted, refused, delivered, statsSent, closed>>
agentVars == <<vars, pipelineVars, found, log>>

(* The bound on the events is none: a packet makes one at the most.        *)
ASSUME AgentConstants ==
    ChannelBufferSize \in Nat \ {0} /\ MaxStats \in Nat /\ MaxEvents = Cardinality(Packets)

NoEvent == [stream |-> 0]

AgentInit == Init /\ P!Init /\ found = NoEvent /\ log = << >>

-----------------------------------------------------------------------------
(* parse returns to the assembler once the event it has found, if any, is  *)
(* in the channel.                                                         *)
Parsed == found = NoEvent /\ pending = 0

\* The event that a step of the assembler has found.
Note == found' = IF events' = events THEN NoEvent ELSE CHOOSE ev \in events' \ events : TRUE

\* case packet := <-h.packetSource.Packets()
TakePacket == P!BeginWork /\ Packet /\ Note /\ UNCHANGED log

\* case <-flushCloseTicker.C
TakeTick == P!BeginWork /\ BeginFlush /\ UNCHANGED <<found, log>>

\* case <-ctx.Done(): h.Stop()
TakeDone == P!AssemblerSeesDone /\ BeginStop /\ UNCHANGED <<found, log>>

\* case <-statsTicker.C
TakeStats == P!LogStats /\ UNCHANGED <<vars, found, log>>

\* Mutant of Flush: the flush goes on while an event waits to be sent.
FlushOn == P!Running /\ UNCHANGED <<pipelineVars, log>> /\ FlushStep /\ Note

\* FlushWithOptions or FlushAll goes on.
Flush == P!Running /\ Parsed /\ UNCHANGED <<pipelineVars, log>> /\ FlushStep /\ Note

\* Mutant of Send: the event sent is one of the stream's, not the one found.
SendAny ==
    /\ found # NoEvent /\ P!MakeEvent
    /\ log' = Append(log, CHOOSE ev \in events : TRUE)
    /\ found' = NoEvent
    /\ UNCHANGED vars

\* parse builds the event and comes to its send.
Send ==
    /\ found # NoEvent /\ P!MakeEvent
    /\ log' = Append(log, found)
    /\ found' = NoEvent
    /\ UNCHANGED vars

\* The case of the select is through.
Finished == Parsed /\ todo = {} /\ P!EndWork /\ UNCHANGED <<vars, found, log>>

\* Mutant of Return: Stop waits until the packet source, which nobody reads
\* any more, is empty.
ReturnDrained ==
    Parsed /\ source = << >> /\ Stopped /\ P!AssemblerReturns /\ UNCHANGED <<found, log>>

\* Stop and Start return.
Return == Parsed /\ Stopped /\ P!AssemblerReturns /\ UNCHANGED <<found, log>>

(* The steps of main, of the handler and of the exporter, and the sends.   *)
Others ==
    /\ P!Main \/ P!Handler \/ P!ExporterSends \/ P!SendEvent
    /\ UNCHANGED <<vars, found, log>>

\* The wire and the clock, from the time the packet source is open.
Outside ==
    /\ P!Running /\ assembler # "off"
    /\ Tick \/ \E p \in Packets : Capture(p) \/ Lose(p)
    /\ UNCHANGED <<pipelineVars, found, log>>

-----------------------------------------------------------------------------
AgentNext ==
    \/ TakePacket \/ TakeTick \/ TakeDone \/ TakeStats \/ Flush \/ Send \/ Finished \/ Return
    \/ Others \/ Outside

AgentSpec == AgentInit /\ [][AgentNext]_agentVars

(* What the two modules assume of the scheduling.  The steps of one        *)
(* goroutine that are under one WF exclude each other.  Nothing hangs on   *)
(* the statistics, and nothing is assumed of their ticker.                 *)
MainGoesOn == P!StartHandler \/ P!StartAssembler \/ P!WaitReturns \/ P!Close \/ P!Exit
AssemblerGoesOn ==
    Flush \/ Send \/ Finished \/ Return \/ (P!SendEvent /\ UNCHANGED <<vars, found, log>>)
AgentFairness ==
    /\ WF_agentVars(AssemblerGoesOn)
    /\ WF_agentVars(MainGoesOn /\ UNCHANGED <<vars, found, log>>)
    /\ WF_agentVars((P!Receive \/ P!HandleEvent) /\ UNCHANGED <<vars, found, log>>)
    /\ SF_agentVars(P!HandlerSeesDone /\ UNCHANGED <<vars, found, log>>)
    /\ SF_agentVars(TakePacket) /\ SF_agentVars(TakeTick) /\ SF_agentVars(TakeDone)
    /\ SF_agentVars(P!Running /\ assembler # "off" /\ UNCHANGED <<pipelineVars, found, log>> /\ Tick)

AgentFairSpec == AgentSpec /\ AgentFairness

-----------------------------------------------------------------------------
\* The variables hold values of their types.
AgentTypeOK ==
    /\ TypeOK /\ P!TypeOK
    /\ found \in events \cup {NoEvent} /\ \A i \in DOMAIN log : log[i] \in events

(* What EventPipeline takes for granted of the producer, by its fairness:  *)
(* whatever the assembler is at, a packet, a flush or Stop's FlushAll, it  *)
(* comes to an end unless it is held up in a send.                         *)
AssemblerComesBack == []<>(assembler \notin {"busy", "stopping"} \/ pending # 0)

(* Every match that the streams made is on its way once: it is the one     *)
(* just found or was sent, and was sent only once, in the order in which   *)
(* the matches were made.                                                  *)
EveryMatchSentOnce ==
    /\ events = {log[i] : i \in DOMAIN log} \cup ({found} \ {NoEvent})
    /\ \A i, j \in DOMAIN log : log[i] = log[j] => i = j
    /\ \A i \in DOMAIN log : log[i] # found
    /\ Len(log) = made

\* The events of a connection, as the exporter gets them.
CycleAt(i) == Traffic[log[i].entry.request].cycle

(* What is exported of a connection comes in the order in which its client *)
(* sent the requests, though responses are flushed late and a flush may be *)
(* held up by a full channel between two events.                           *)
ExportedInRequestOrder ==
    \A i, j \in DOMAIN log :
        i < j /\ log[i].stream = log[j].stream => CycleAt(i) < CycleAt(j)

Taken(p) == p \in passed \ lost /\ \A n \in DOMAIN source : source[n].pkt # p

\* A request and its response.
Pair(q, r) ==
    /\ Traffic[q].kind = "request" /\ Traffic[r].kind = "response"
    /\ Traffic[q].conn = Traffic[r].conn /\ Traffic[q].cycle = Traffic[r].cycle

(* A wire on which every packet comes once and in order and is let through *)
(* by the checks: nothing is lost or sent again, a FIN is on the last      *)
(* packet of its direction, a response begins where its request            *)
(* acknowledges, and the first packet of a connection is of the end that   *)
(* sends its requests.                                                     *)
OrderlyWire ==
    /\ Reorder = 0 /\ ~MayLose
    /\ \A v \in Verdicts : (v.fsm \/ Ignorefsmerr) /\ (v.opt \/ Nooptcheck) /\ (v.sum \/ ~Checksum)
    /\ \A p, q \in Packets :
          /\ p < q /\ SameWay(p, q) => EndSeq(p) <= Traffic[q].seq /\ ~Traffic[p].fin
          /\ Pair(p, q) => Traffic[p].ack = Traffic[q].seq
          /\ /\ Traffic[p].conn = Traffic[q].conn /\ Traffic[q].kind # "torn"
             /\ \A x \in Packets : Traffic[x].conn = Traffic[p].conn => p <= x
             => (Traffic[q].kind = "request" <=> Traffic[q].from = Traffic[p].from)

(* What a shutdown forgets.  When main returns after a signal, a cycle of  *)
(* which both messages were taken from the source has been handled by the  *)
(* exporter, or it is one of at most ChannelBufferSize left in the         *)
(* channel, or was swallowed in a batch: FlushAll gets the rest out while  *)
(* the channel has room.                                                   *)
ForgottenAtExit ==
    main = "exited" /\ ctxDone /\ stats.total_streams <= 1 =>
        \A q, r \in Packets :
            Pair(q, r) /\ Taken(q) /\ Taken(r)
            => \/ {q, r} \cap swallowed # {}
               \/ \E i \in DOMAIN log :
                     /\ CycleAt(i) = Traffic[q].cycle
                     /\ \/ i \in accepted \cup refused
                        \/ \E k \in DOMAIN eventsChan : eventsChan[k] = i

\* The cycle of a request has been handled, in the sense of accepted or refused.
Exported(q) == \E i \in accepted \cup refused : CycleAt(i) = Traffic[q].cycle

(* The whole way of a cycle: when all packets have been captured, each     *)
(* request and its response come to the exporter in the end, though a      *)
(* response waits behind a hole for a flush, and the flush for room in the *)
(* channel - or one of the two is swallowed in a batch, the connection has *)
(* been closed and begun again as another stream in between, the process   *)
(* has ended, or its end hangs on a full channel that nobody empties.      *)
CapturedIsExported ==
    passed = Packets /\ lost = {} ~>
        \/ \A q, r \in Packets : Pair(q, r) => {q, r} \cap swallowed # {} \/ Exported(q)
        \/ stats.total_streams > 1 \/ main = "exited" \/ P!Stuck
=============================================================================
