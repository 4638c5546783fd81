---------------------------- MODULE TcpAssembler ----------------------------
(***************************************************************************)
(* The TCP assembler: from captured packets to HTTP events.                *)
(*                                                                         *)
(* tcpAssembler.Start (assemblers/tcp_assembler.go) takes packets from the *)
(* source one at a time and gives them to gopacket's reassembly, which     *)
(* keeps one stream per connection and calls the agent back: New for a     *)
(* connection it does not know (tcp_stream_factory.go), Accept for every   *)
(* packet, ReassembledSG when bytes are in order, ReassemblyComplete when  *)
(* both directions are closed (tcp_stream.go).  A ticker flushes what has  *)
(* waited too long and closes what is idle; Stop flushes everything.       *)
(*                                                                         *)
(* Traffic is the packets on the wire that the capture filter lets through *)
(* (config.go, buildBpfFilter): those whose payload begins a request or a  *)
(* response.  SYNs, bare ACKs and the continuations of a message never     *)
(* reach the agent, so a direction starts in the middle and has holes.     *)
(* Packets may be lost, overtake each other and be retransmitted.          *)
(*                                                                         *)
(* The clock is modelled by ages: how long ago a packet was captured, up   *)
(* to MaxAge, which is older than both timeouts can tell.  A packet's      *)
(* number stands for the identity of the message it begins and for its     *)
(* capture timestamp, so that one sees whose timestamp an event carries.   *)
(* Events leave on the channel that EventPipeline models; here they are    *)
(* collected.                                                              *)
(***************************************************************************)
EXTENDS MatcherOps, Integers, Sequences, FiniteSets

CONSTANTS
    Traffic,         \* the packets: [conn, from, kind, seq, ack, len, fin, cycle]
    Reorder,         \* by how many places a packet may overtake others
    MayLose,         \* whether packets may be lost before they are captured
    SourceSize,      \* bound on the packets captured and not yet taken
    FlushTimeout,    \* config.StreamFlushTimeout
    CloseTimeout,    \* config.StreamCloseTimeout
    MaxPages,        \* config.MaxBufferedPagesPerConnection
    StartAnywhere,   \* gopacket: whether a direction starts without its SYN
    Verdicts,        \* gopacket: [fsm, opt, sum], what the three checks may say
    Ignorefsmerr, Nooptcheck, Checksum,  \* config
    Word             \* the counters are unsigned integers modulo Word

Packets == DOMAIN Traffic
Conns == {Traffic[p].conn : p \in Packets}
Ends == {"client", "server"}
Keys == {Traffic[p].ack : p \in Packets} \cup {Traffic[p].seq : p \in Packets}
EndSeq(p) == Traffic[p].seq + Traffic[p].len
MaxAge == CloseTimeout + 1

(* The agent sees fewer packets than its counters, of 64 bits, can count.  *)
ASSUME AssemblerConstants ==
    /\ Len(Traffic) \in Nat /\ Packets = 1 .. Len(Traffic)
    /\ \A p \in Packets : /\ Traffic[p].from \in Ends
                          /\ Traffic[p].kind \in {"request", "response", "torn"}
                          /\ Traffic[p].seq \in Nat \ {0} /\ Traffic[p].ack \in Nat
                          /\ Traffic[p].len \in Nat \ {0} /\ Traffic[p].fin \in BOOLEAN
    /\ Word \in Nat /\ Len(Traffic) < Word
    /\ FlushTimeout \in Nat /\ CloseTimeout \in Nat /\ FlushTimeout <= CloseTimeout
    /\ Reorder \in Nat /\ SourceSize \in Nat /\ MaxPages \in Nat \ {0}
    /\ StartAnywhere \in BOOLEAN
    /\ Verdicts \subseteq [fsm: BOOLEAN, opt: BOOLEAN, sum: BOOLEAN]

VARIABLES
    passed,     \* packets that have gone by, captured or lost
    lost,       \* those of them that were not captured
    source,     \* packetSource.Packets(): [pkt, age] in order of capture
    pool,       \* streamPool: the stream of each connection
    todo,       \* directions the running flush has still to visit
    phase,      \* "running", "stopping" (in Stop) or "stopped"
    stats,      \* the counters of tcp_assembler.go
    events,     \* history: the events sent
    swallowed   \* history: packets handed to the parser behind another one

vars == <<passed, lost, source, pool, todo, phase, stats, events, swallowed>>

-----------------------------------------------------------------------------
(* Streams.  A direction of a stream is gopacket's half connection.        *)

Unstarted == 0

NewHalf == [nextSeq |-> Unstarted, buffered |-> {}, closed |-> FALSE, idle |-> MaxAge]

\* NewTcpStream: src is the end that sent the first packet seen.
NewStream(id, src) ==
    [id |-> id, src |-> src, fsmerr |-> FALSE,
     half |-> [e \in Ends |-> NewHalf], messages |-> NewMatcher(Keys)]

\* A connection that is not in the pool.
NoStream == NewStream(0, "client")
Live(c) == pool[c].id # 0

Init ==
    /\ passed = {} /\ lost = {} /\ source = << >>
    /\ pool = [c \in Conns |-> NoStream]
    /\ todo = {} /\ phase = "running"
    /\ stats = [total_streams |-> 0, active_streams |-> 0,
                rejectFsm |-> 0, rejectConnFsm |-> 0, rejectOpt |-> 0]
    /\ events = {} /\ swallowed = {}

Inc(n) == (n + 1) % Word
\* active_streams.Add(^uint64(0))
Dec(n) == (n + Word - 1) % Word
\* Add 1 when the condition holds.
IncIf(n, b) == IF b THEN Inc(n) ELSE n

\* conn.lastSeen(), as the age of the latest packet of either direction.
IdleFor(s) ==
    IF s.half["client"].idle < s.half["server"].idle
    THEN s.half["client"].idle ELSE s.half["server"].idle

-----------------------------------------------------------------------------
(* ReassembledSG and parse.  A batch is a run of packets without holes.    *)

First(batch) == CHOOSE p \in batch : \A q \in batch : Traffic[p].seq <= Traffic[q].seq
Last(batch) == CHOOSE p \in batch : \A q \in batch : Traffic[q].seq <= Traffic[p].seq

\* The bytes from seq on that the packets of a set have without a hole.
Covers(ps, x) == \E p \in ps : Traffic[p].seq <= x /\ x < EndSeq(p)
Run(ps, seq) == {p \in ps : \A x \in seq .. Traffic[p].seq : Covers(ps, x)}

(* A request is read from the client's direction only, a response from the *)
(* other; a message that is torn in its headers is read from neither.      *)
Parses(p, isClient) == Traffic[p].kind = IF isClient THEN "request" ELSE "response"

\* Mutant of RequestId: the two numbers are swapped.
SwappedId(ctx, isClient) == IF isClient THEN Traffic[ctx].seq ELSE Traffic[ctx].ack

RequestId(ctx, isClient) == IF isClient THEN Traffic[ctx].ack ELSE Traffic[ctx].seq

(* What the callback makes of a batch of direction e, in the context of    *)
(* packet ctx: the first message is read and matched, the rest of the      *)
(* buffer is not looked at.  A parse error leaves the matcher alone.       *)
ReassembledSG(s, e, batch, ctx) ==
    LET isClient == e = s.src
        id  == RequestId(ctx, isClient)
        msg == First(batch)
    IN  IF ~Parses(msg, isClient)
        THEN [messages |-> s.messages, match |-> NoEntry]
        ELSE IF isClient
             THEN GetOrStoreRequest(s.messages, id, ctx, msg, Cardinality(batch))
             ELSE GetOrStoreResponse(s.messages, id, ctx, msg, Cardinality(batch))

Closed(half) == [half EXCEPT !.closed = TRUE, !.buffered = {}]

\* The direction after the batch has been handed over; a FIN closes it.
After(half, batch) ==
    LET rest == [half EXCEPT !.nextSeq = EndSeq(Last(batch)),
                             !.buffered = {i \in @ : i.pkt \notin batch}]
    IN  IF Traffic[Last(batch)].fin THEN Closed(rest) ELSE rest

\* Both directions closed: gopacket calls ReassemblyComplete.
Complete(s) == \A e \in Ends : s.half[e].closed

\* Mutant of Keep: the stream is not counted out.
KeepCount(c, s, counters) ==
    /\ pool' = [pool EXCEPT ![c] = IF Complete(s) THEN NoStream ELSE s]
    /\ stats' = counters

\* Mutant of Keep: streams are counted out at every callback, below zero.
CountOutAlways(c, s, counters) ==
    /\ pool' = [pool EXCEPT ![c] = IF Complete(s) THEN NoStream ELSE s]
    /\ stats' = [counters EXCEPT !.active_streams = @ - 1]

\* ReassemblyComplete returns true: the stream leaves the pool.
Keep(c, s, counters) ==
    /\ pool' = [pool EXCEPT ![c] = IF Complete(s) THEN NoStream ELSE s]
    /\ stats' = IF Complete(s)
                THEN [counters EXCEPT !.active_streams = Dec(@)] ELSE counters

\* gopacket's sendToConnection: hand a batch to the stream and keep the result.
Deliver(c, s, e, batch, ctx, counters) ==
    LET result == ReassembledSG(s, e, batch, ctx)
    IN  /\ Keep(c, [s EXCEPT !.messages = result.messages,
                             !.half[e] = After(@, batch)], counters)
        /\ events' = IF result.match = NoEntry THEN events
                     ELSE events \cup {[stream |-> s.id, conn |-> c, src |-> s.src,
                                        requestId |-> RequestId(ctx, e = s.src),
                                        entry |-> result.match]}
        /\ swallowed' = swallowed \cup (batch \ {First(batch)})

-----------------------------------------------------------------------------
(* The wire and the clock.                                                 *)

\* No packet is overtaken by one more than Reorder places behind it.
InReach(p) ==
    /\ phase # "stopped" /\ p \notin passed
    /\ \A q \in Packets : q < p - Reorder => q \in passed

Capture(p) ==
    /\ InReach(p)
    /\ Len(source) < SourceSize
    /\ passed' = passed \cup {p}
    /\ source' = Append(source, [pkt |-> p, age |-> 0])
    /\ UNCHANGED <<lost, pool, todo, phase, stats, events, swallowed>>

\* Dropped by the kernel, or by one of the early returns in Start.
Lose(p) ==
    /\ MayLose
    /\ InReach(p)
    /\ passed' = passed \cup {p}
    /\ lost' = lost \cup {p}
    /\ UNCHANGED <<source, pool, todo, phase, stats, events, swallowed>>

Older(age) == IF age < MaxAge THEN age + 1 ELSE age
OlderItem(i) == [i EXCEPT !.age = Older(@)]
OlderHalf(h) == [h EXCEPT !.buffered = {OlderItem(i) : i \in @}, !.idle = Older(@)]

(* Time passes.  A flush reads the clock once, when it starts, so the      *)
(* clock stands still while one is under way.                              *)
Tick ==
    /\ todo = {} /\ phase = "running"
    /\ source' = [n \in DOMAIN source |-> OlderItem(source[n])]
    /\ pool' = [c \in Conns |->
                  IF Live(c)
                  THEN [pool[c] EXCEPT !.half = [e \in Ends |-> OlderHalf(@[e])]]
                  ELSE NoStream]
    /\ UNCHANGED <<passed, lost, todo, phase, stats, events, swallowed>>

-----------------------------------------------------------------------------
(* case packet := <-h.packetSource.Packets(): AssembleWithContext.         *)

\* Mutant of Stream: the stream count is not advanced, so streams share an id.
SameId(p) ==
    LET c == Traffic[p].conn
    IN  IF Live(c) THEN pool[c] ELSE NewStream(1, Traffic[p].from)

\* The stream the pool has for the packet, or the one the factory makes.
Stream(p) ==
    LET c == Traffic[p].conn
    IN  IF Live(c) THEN pool[c] ELSE NewStream(Inc(stats.total_streams), Traffic[p].from)

\* tcpStreamFactory.New and NewTcpStream count a stream that is made.
Counted(p) ==
    IF Live(Traffic[p].conn) THEN stats
    ELSE [stats EXCEPT !.total_streams = Inc(@), !.active_streams = Inc(@)]

\* half.lastSeen becomes the packet's timestamp if that is later.
Touched(s, item) ==
    [s EXCEPT !.half[Traffic[item.pkt].from].idle = IF item.age < @ THEN item.age ELSE @]

\* Mutant of Accept: fsmerr is not set.
AcceptUnmarked(s, v, counters) ==
    [ok |-> v.fsm, stream |-> s,
     counters |-> [counters EXCEPT !.rejectFsm = IncIf(@, ~v.fsm),
                                   !.rejectConnFsm = IncIf(@, ~v.fsm /\ ~s.fsmerr)]]

(* Accept, given what the checks say of the packet: what it returns, and   *)
(* what it does to the stream and to the counters.  A check that rejects   *)
(* keeps the later ones from being made.                                   *)
Accept(s, v, counters) ==
    LET fsmStops == ~v.fsm /\ ~Ignorefsmerr
        optFails == ~fsmStops /\ ~v.opt
        optStops == optFails /\ ~Nooptcheck
        sumFails == ~fsmStops /\ ~optStops /\ Checksum /\ ~v.sum
    IN  [ok |-> ~fsmStops /\ ~optStops /\ ~sumFails,
         stream |-> [s EXCEPT !.fsmerr = @ \/ ~v.fsm],
         counters |-> [counters EXCEPT
             !.rejectFsm = IncIf(@, ~v.fsm),
             !.rejectConnFsm = IncIf(@, ~v.fsm /\ ~s.fsmerr),
             !.rejectOpt = IncIf(IncIf(@, optFails), sumFails)]]

\* Accept's answer on a packet that was taken from the source.
Accepted(item, v) ==
    Accept(Touched(Stream(item.pkt), item), v, Counted(item.pkt))

Buffered(half) == {i.pkt : i \in half.buffered}

\* The direction is closed, or it has all the bytes of the packet already.
Stale(half, p) ==
    \/ half.closed
    \/ half.nextSeq # Unstarted /\ EndSeq(p) <= half.nextSeq

\* The packet is the next one of its direction, as far as that is known.
InOrder(half, p) ==
    /\ ~Stale(half, p)
    /\ IF half.nextSeq = Unstarted THEN StartAnywhere ELSE Traffic[p].seq <= half.nextSeq

\* Rejected by Accept, or of no use to the direction.
Drop(item, accept) ==
    LET p == item.pkt
    IN  /\ ~accept.ok \/ Stale(accept.stream.half[Traffic[p].from], p)
        /\ Keep(Traffic[p].conn, accept.stream, accept.counters)
        /\ UNCHANGED <<events, swallowed>>

\* In order: it is delivered, with what was waiting right behind it.
Forward(item, accept) ==
    LET p == item.pkt
        e == Traffic[p].from
        half == accept.stream.half[e]
    IN  /\ accept.ok /\ InOrder(half, p)
        /\ Deliver(Traffic[p].conn, accept.stream, e,
                   {p} \cup Run(Buffered(half), EndSeq(p)), p, accept.counters)

\* Mutant of OverLimit: the option is not set, which means no limit.
NoLimit(pages) == FALSE

\* assembler.AssemblerOptions.MaxBufferedPagesPerConnection
OverLimit(pages) == Cardinality(pages) >= MaxPages

(* Not in order: it is buffered.  When that makes too many pages, the      *)
(* first run of the buffer is delivered in the context of this packet.     *)
Queue(item, accept) ==
    LET p == item.pkt
        c == Traffic[p].conn
        e == Traffic[p].from
        half == accept.stream.half[e]
        fresh == \A q \in Buffered(half) : Traffic[q].seq # Traffic[p].seq
        queued == [accept.stream EXCEPT
                     !.half[e].buffered = IF fresh THEN @ \cup {item} ELSE @]
        pages == Buffered(queued.half[e])
    IN  /\ accept.ok /\ ~Stale(half, p) /\ ~InOrder(half, p)
        /\ IF OverLimit(pages)
           THEN Deliver(c, queued, e, Run(pages, Traffic[First(pages)].seq), p,
                        accept.counters)
           ELSE Keep(c, queued, accept.counters) /\ UNCHANGED <<events, swallowed>>

Packet ==
    /\ phase = "running" /\ todo = {}
    /\ source # << >>
    /\ source' = Tail(source)
    /\ \E v \in Verdicts :
          LET item == Head(source)
              accept == Accepted(item, v)
          IN  Drop(item, accept) \/ Forward(item, accept) \/ Queue(item, accept)
    /\ UNCHANGED <<passed, lost, todo, phase>>

-----------------------------------------------------------------------------
(* case <-flushCloseTicker.C: FlushWithOptions; case <-ctx.Done(): Stop,   *)
(* whose FlushAll visits the same directions as if everything were old.    *)

Directions == {<<c, e>> : c \in {c \in Conns : Live(c)}, e \in Ends}

BeginFlush ==
    /\ phase = "running" /\ todo = {}
    /\ todo' = Directions
    /\ UNCHANGED <<passed, lost, source, pool, phase, stats, events, swallowed>>

\* Mutant of BeginStop: Stop without FlushAll.
StopUnflushed ==
    /\ phase = "running" /\ todo = {}
    /\ phase' = "stopping"
    /\ UNCHANGED <<passed, lost, source, pool, todo, stats, events, swallowed>>

BeginStop ==
    /\ phase = "running" /\ todo = {}
    /\ phase' = "stopping"
    /\ todo' = Directions
    /\ UNCHANGED <<passed, lost, source, pool, stats, events, swallowed>>

\* A stream's server-to-client direction is visited before the other.
Turn(c, e) ==
    /\ <<c, e>> \in todo
    /\ e = pool[c].src => \A f \in Ends \ {e} : <<c, f>> \notin todo

\* Mutant of DueForFlush: only Stop flushes.
FlushOnStop(half) == half.buffered # {} /\ phase = "stopping"

\* T: the first buffered page was seen longer than FlushTimeout ago.
DueForFlush(half) ==
    /\ half.buffered # {}
    /\ \E i \in half.buffered : /\ i.pkt = First(Buffered(half))
                               /\ (phase = "stopping" \/ i.age > FlushTimeout)

\* Mutants of DueForClose: T and TC swapped; only Stop closes.
CloseAfterFlushTimeout(s, half) ==
    half.buffered = {} /\ (phase = "stopping" \/ IdleFor(s) > FlushTimeout)
CloseOnStop(s, half) == half.buffered = {} /\ phase = "stopping"

\* TC: nothing is buffered and the connection is idle for longer than CloseTimeout.
DueForClose(s, half) ==
    half.buffered = {} /\ (phase = "stopping" \/ IdleFor(s) > CloseTimeout)

\* skipFlush: the first run is delivered in the context of its first page.
FlushRun(c, e) ==
    LET half  == pool[c].half[e]
        first == First(Buffered(half))
        batch == Run(Buffered(half), Traffic[first].seq)
    IN  /\ Turn(c, e) /\ Live(c) /\ ~half.closed /\ DueForFlush(half)
        /\ Deliver(c, pool[c], e, batch, first, stats)
        /\ UNCHANGED <<passed, lost, source, todo, phase>>

CloseHalf(c, e) ==
    LET half == pool[c].half[e]
    IN  /\ Turn(c, e) /\ Live(c) /\ ~half.closed /\ DueForClose(pool[c], half)
        /\ Keep(c, [pool[c] EXCEPT !.half[e] = Closed(@)], stats)
        /\ todo' = todo \ {<<c, e>>}
        /\ UNCHANGED <<passed, lost, source, phase, events, swallowed>>

\* Nothing left to do in this direction.
NextHalf(c, e) ==
    LET half == pool[c].half[e]
    IN  /\ Turn(c, e)
        /\ \/ ~Live(c) \/ half.closed
           \/ ~DueForFlush(half) /\ ~DueForClose(pool[c], half)
        /\ todo' = todo \ {<<c, e>>}
        /\ UNCHANGED <<passed, lost, source, pool, phase, stats, events, swallowed>>

FlushStep == \E c \in Conns, e \in Ends : FlushRun(c, e) \/ CloseHalf(c, e) \/ NextHalf(c, e)

\* Stop and Start return.
Stopped ==
    /\ phase = "stopping" /\ todo = {}
    /\ phase' = "stopped"
    /\ UNCHANGED <<passed, lost, source, pool, todo, stats, events, swallowed>>

-----------------------------------------------------------------------------
Next ==
    \/ \E p \in Packets : Capture(p) \/ Lose(p)
    \/ Tick
    \/ Packet
    \/ BeginFlush \/ FlushStep
    \/ BeginStop \/ Stopped

Spec == Init /\ [][Next]_vars

(* The clock runs, the goroutine of the assembler runs while it can, and   *)
(* its select, which picks among the ready cases at random, neither        *)
(* starves the packets nor the ticker.  Nothing is assumed of the wire and *)
(* of the signal.                                                          *)
Fairness ==
    /\ SF_vars(Tick) /\ SF_vars(Packet) /\ SF_vars(BeginFlush)
    /\ WF_vars(FlushStep) /\ WF_vars(Stopped)

FairSpec == Spec /\ Fairness

-----------------------------------------------------------------------------
(* What makes HTTP over TCP a sequence of cycles: segments of a direction  *)
(* do not overlap, and one that is sent again is the same; a request       *)
(* acknowledges the response before it and no two do the same one (no      *)
(* pipelining); its own response begins where it acknowledges; and both    *)
(* sides keep the order of the cycles.                                     *)
SameWay(p, q) == Traffic[p].conn = Traffic[q].conn /\ Traffic[p].from = Traffic[q].from

HttpOverTcp ==
    \A p, q \in Packets :
        /\ SameWay(p, q) /\ Traffic[p].seq = Traffic[q].seq => Traffic[p].len = Traffic[q].len
        /\ SameWay(p, q) /\ Traffic[p].seq < Traffic[q].seq => EndSeq(p) <= Traffic[q].seq
        /\ /\ SameWay(p, q) /\ Traffic[p].ack = Traffic[q].ack
           /\ Traffic[p].kind = "request" /\ Traffic[q].kind = "request"
           => Traffic[p].seq = Traffic[q].seq
        /\ /\ Traffic[p].conn = Traffic[q].conn /\ Traffic[p].from # Traffic[q].from
           /\ Traffic[p].kind = "request" /\ Traffic[q].kind = "response"
           /\ Traffic[p].ack = Traffic[q].seq
           => Traffic[p].cycle = Traffic[q].cycle
        /\ /\ SameWay(p, q) /\ Traffic[p].kind = Traffic[q].kind
           /\ Traffic[p].seq < Traffic[q].seq
           => Traffic[p].cycle < Traffic[q].cycle
        /\ Traffic[p].cycle \in Nat

-----------------------------------------------------------------------------
Halves == [nextSeq: Nat, closed: BOOLEAN, idle: 0 .. MaxAge,
           buffered: SUBSET [pkt: Packets, age: 0 .. MaxAge]]

Streams == [id: Nat, src: Ends, fsmerr: BOOLEAN, half: [Ends -> Halves],
            messages: [Keys -> Entry]]

Counters == [total_streams: 0 .. Word - 1, active_streams: 0 .. Word - 1,
             rejectFsm: 0 .. Word - 1, rejectConnFsm: 0 .. Word - 1, rejectOpt: 0 .. Word - 1]

\* The variables hold values of their types.
TypeOK ==
    /\ passed \subseteq Packets /\ lost \subseteq passed /\ swallowed \subseteq passed
    /\ source \in Seq([pkt: Packets, age: 0 .. MaxAge])
    /\ pool \in [Conns -> Streams] /\ stats \in Counters
    /\ todo \subseteq Conns \X Ends
    /\ phase \in {"running", "stopping", "stopped"}
    /\ \A ev \in events : ev.conn \in Conns /\ ev.entry \in Entry

(* Every event is one request and its own response: both there, both of    *)
(* one cycle of the connection the event names, each with its own          *)
(* timestamp, under the id that request and response share, and with the   *)
(* sender of the request as source - whatever was lost, retransmitted,     *)
(* overtaken or flushed on the way.  It is what the pairing by sequence    *)
(* and acknowledgement numbers is for (ReassembledSG, parse, the matcher). *)
EventIsOneCycle ==
    \A ev \in events :
        LET q == ev.entry.request
            r == ev.entry.response
        IN  /\ q # Nil /\ r # Nil
            /\ Traffic[q].conn = ev.conn /\ Traffic[r].conn = ev.conn
            /\ Traffic[q].cycle = Traffic[r].cycle
            /\ ev.requestId = Traffic[q].ack /\ ev.requestId = Traffic[r].seq
            /\ ev.entry.requestTimestamp = q /\ ev.entry.responseTimestamp = r
            /\ ev.src = Traffic[q].from

\* The cycles whose messages an event carries.
CyclesOf(ev) ==
    {Traffic[p].cycle : p \in {ev.entry.request, ev.entry.response} \ {Nil}}

(* A cycle makes one event in a stream at most, though its packets may be  *)
(* captured more than once: a retransmission is neither reported again nor *)
(* matched with the message it repeats.                                    *)
CycleReportedOnce ==
    \A x, y \in events :
        x.stream = y.stream /\ x # y => CyclesOf(x) \cap CyclesOf(y) = {}

(* active_streams is the number of streams in the pool and total_streams   *)
(* the highest stream id given out, no two live streams sharing one: every *)
(* stream that New counts in is counted out once by ReassemblyComplete, on *)
(* FIN, on timeout and on Stop alike, and the counter never wraps.         *)
StreamAccounting ==
    /\ stats.active_streams = Cardinality({c \in Conns : Live(c)})
    /\ \A c, d \in Conns : Live(c) /\ Live(d) /\ pool[c].id = pool[d].id => c = d
    /\ \A c \in Conns : pool[c].id <= stats.total_streams
    /\ \A ev \in events : ev.stream <= stats.total_streams

(* A connection is counted as rejected by the FSM once, whatever number of *)
(* its packets is rejected (Accept's fsmerr).                              *)
RejectAccounting ==
    /\ stats.rejectConnFsm <= stats.rejectFsm
    /\ stats.rejectConnFsm <= stats.total_streams
    /\ stats.rejectConnFsm >= Cardinality({c \in Conns : pool[c].fsmerr})

(* Stop leaves nothing behind: no stream is in the pool, nothing waits in  *)
(* a buffer, and active_streams is back to zero.                           *)
StopDrains ==
    phase = "stopped" => stats.active_streams = 0 /\ \A c \in Conns : pool[c] = NoStream

(* A stream whose connection saw no FIN is taken out of the pool, while    *)
(* the agent runs, only when its last packet is older than CloseTimeout: a *)
(* response that is slower than FlushTimeout, but not than CloseTimeout,   *)
(* still meets its request (FlushWithOptions' T and TC).                   *)
ClosedOnlyWhenIdle ==
    [][\A c \in Conns :
          /\ Live(c) /\ pool'[c].id # pool[c].id /\ phase = "running"
          /\ \A p \in passed : Traffic[p].conn = c => ~Traffic[p].fin
          => IdleFor(pool[c]) > CloseTimeout]_vars

(* The memory a direction may use for packets out of order is bounded by   *)
(* the limit NewTcpAssembler sets, "very important to limit memory usage", *)
(* however many packets are missing.                                       *)
PagesBounded ==
    \A c \in Conns, e \in Ends : Cardinality(pool[c].half[e].buffered) < MaxPages

(* What waits in a buffer for a packet that never comes is handed over in  *)
(* the end: the flush ticker or Stop gets it out.                          *)
BufferedIsFlushed ==
    \A c \in Conns, e \in Ends :
        []<>(pool[c].half[e].buffered = {})

(* A connection that falls silent leaves the pool, with the unmatched      *)
(* messages its stream retains, even if its FIN is never seen.             *)
SilentStreamsLeave == <>[](\A c \in Conns : ~Live(c))
=============================================================================
