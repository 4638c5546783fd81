--------------------------- MODULE ForgottenProofs --------------------------
(***************************************************************************)
(* What a shutdown forgets (ForgottenAtExit), for every orderly wire.      *)
(*                                                                         *)
(* That a cycle is not lost needs to know where each of its messages is at *)
(* every moment (Whereabouts): still to come, in the buffer of its         *)
(* direction, with the matcher, in an event, or swallowed in a batch.      *)
(*                                                                         *)
(* A message could go missing in two ways.  It could come to a direction   *)
(* that takes it no more, being past its bytes or closed: but a direction  *)
(* is never past what is still to come (Ordered), and none is closed       *)
(* before its last packet except by a flush of an idle connection, whose   *)
(* other direction it closes before the next packet is taken (Shut,        *)
(* Visited, Aged).  Or it could be stored in the matcher of a stream that  *)
(* leaves the pool: but then its other half is not captured, or the two    *)
(* have met (Parted), since they are stored under one id.  At the exit no  *)
(* stream is left, no match is on its way (EveryMatchSentOnce), and        *)
(* EventPipeline bounds what is lost after parse's send.                   *)
(***************************************************************************)
EXTENDS MatchingProofs

\* The packets that have not been taken from the source yet.
Coming == {p \in Packets : ~Taken(p)}

\* Nothing overtakes and nothing is lost.
InLine ==
    /\ lost = {}
    /\ \A m, n \in DOMAIN source : m < n => source[m].pkt < source[n].pkt
    /\ \A q \in passed, p \in Packets \ passed : q < p

(* What is still to come of a direction lies behind what the direction has *)
(* had.                                                                    *)
Ordered(coming, c, s) ==
    \A p \in coming : Traffic[p].conn = c =>
        LET h == s.half[Traffic[p].from]
        IN  h.nextSeq <= Traffic[p].seq /\ \A i \in h.buffered : i.pkt < p

\* What waits was captured before the connection fell silent.
Aged(s) == \A e \in Ends : \A i \in s.half[e].buffered : i.age >= s.half[e].idle

(* A direction is closed when nothing more is to come of it, or because    *)
(* its connection is idle: then the other one will be closed too by the    *)
(* flush that is under way.                                                *)
Shut(coming, visits, c, s) ==
    \A e \in Ends : s.half[e].closed =>
        \/ \A p \in coming : ~(Traffic[p].conn = c /\ Traffic[p].from = e)
        \/ IdleFor(s) > CloseTimeout /\ \E f \in Ends \ {e} : <<c, f>> \in visits

\* What a flush leaves open is not idle.
Visited(visits, c, s) ==
    \A e, f \in Ends :
        <<c, e>> \in visits /\ <<c, f>> \notin visits => s.half[f].closed \/ IdleFor(s) <= CloseTimeout

Fits(coming, visits, c, s) ==
    Ordered(coming, c, s) /\ Aged(s) /\ Shut(coming, visits, c, s) /\ Visited(visits, c, s)

\* The client of the stream is the end that sends the requests.
Facing(c, s) ==
    \A p \in Packets : Traffic[p].conn = c /\ Traffic[p].kind # "torn" =>
        (Traffic[p].kind = "request" <=> Traffic[p].from = s.src)

\* A message has left the stream, in an event or swallowed.
Out(p) == p \in swallowed \/ \E ev \in events : p \in {ev.entry.request, ev.entry.response}

\* A message is stored in the matcher, waiting for the other half of its cycle.
Stored(s, p) ==
    \/ Traffic[p].kind = "request" /\ s.messages[Traffic[p].ack].request = p
    \/ Traffic[p].kind = "response" /\ s.messages[Traffic[p].seq].response = p

\* A message is with the stream, in the buffer of its direction or in the matcher.
Has(s, p) == (\E i \in s.half[Traffic[p].from].buffered : i.pkt = p) \/ Stored(s, p)

\* The one or the other of a cycle's messages has left its stream.
Parted(q, r) == Pair(q, r) => Out(q) \/ Out(r)

(* Where a captured message is, as long as there has been one stream at    *)
(* the most.                                                               *)
Whereabouts ==
    /\ stats.total_streams = 0 => Coming = Packets
    /\ stats.total_streams <= 1 =>
          /\ \A c \in Conns : Live(c) => Facing(c, pool[c])
          /\ \A p \in Packets \ Coming :
                Live(Traffic[p].conn) /\ Traffic[p].kind # "torn" => Out(p) \/ Has(pool[Traffic[p].conn], p)
          /\ \A q, r \in Packets \ Coming : ~Live(Traffic[q].conn) => Parted(q, r)

(* While the agent runs, what is open fits what is to come of it.          *)
WhereInv ==
    /\ InLine /\ Whereabouts
    /\ phase = "running" => \A c \in Conns : Live(c) => Fits(Coming, todo, c, pool[c])

(* The assembler's goroutine returns from Stop, after FlushAll.            *)
Ended == assembler = "ended" => phase = "stopped"

FInv == MInv /\ WhereInv

-----------------------------------------------------------------------------
(* The wire.                                                               *)

LEMMA Wire ==
    ASSUME OrderlyWire
    PROVE  /\ Reorder = 0 /\ ~MayLose
           /\ \A p, q \in Packets : p < q /\ SameWay(p, q) => EndSeq(p) <= Traffic[q].seq /\ ~Traffic[p].fin
           /\ \A p, q \in Packets : Pair(p, q) => Traffic[p].ack = Traffic[q].seq
BY DEF OrderlyWire

\* Accept lets everything through.
LEMMA AllAccepted ==
    ASSUME OrderlyWire, NEW v \in Verdicts, NEW item
    PROVE  Accepted(item, v).ok
<1>1. (v.fsm \/ Ignorefsmerr) /\ (v.opt \/ Nooptcheck) /\ (v.sum \/ ~Checksum)
  BY DEF OrderlyWire
<1> QED
  BY <1>1 DEF Accepted, Accept

LEMMA SourceType ==
    ASSUME IInv
    PROVE  /\ source \in Seq([pkt: Packets, age: 0 .. MaxAge]) /\ Len(source) \in Nat
           /\ DOMAIN source = 1 .. Len(source)
           /\ \A n \in DOMAIN source : source[n] \in [pkt: Packets, age: 0 .. MaxAge]
           /\ \A n \in DOMAIN source : source[n].pkt \in passed
           /\ passed \subseteq Packets
<1> DEFINE S == [pkt: Packets, age: 0 .. MaxAge]
<1>1. source \in Seq(S) /\ passed \subseteq Packets
  BY DEF IInv, TypeOK
<1>2. \A n \in DOMAIN source : source[n].pkt \in passed
  BY DEF IInv, PoolOK
<1> HIDE DEF S
<1>3. /\ Len(source) \in Nat /\ DOMAIN source = 1 .. Len(source)
      /\ \A n \in DOMAIN source : source[n] \in S
  BY <1>1
<1> QED
  BY <1>1, <1>2, <1>3 DEF S

LEMMA LineSame ==
    ASSUME InLine, UNCHANGED <<passed, lost, source>>
    PROVE  InLine' /\ Coming' = Coming
BY DEF InLine, Coming, Taken

LEMMA LineTick ==
    ASSUME IInv, InLine, Tick
    PROVE  InLine' /\ Coming' = Coming
<1>1. /\ source' = [n \in DOMAIN source |-> OlderItem(source[n])]
      /\ UNCHANGED <<passed, lost>>
  BY DEF Tick
<1>2. \A n \in DOMAIN source : OlderItem(source[n]).pkt = source[n].pkt
  <2> SUFFICES ASSUME NEW n \in DOMAIN source PROVE OlderItem(source[n]).pkt = source[n].pkt
    OBVIOUS
  <2>1. source[n] \in [pkt: Packets, age: 0 .. MaxAge]
    BY SourceType
  <2> QED
    BY <2>1, OlderType
<1>3. DOMAIN source' = DOMAIN source /\ \A n \in DOMAIN source : source'[n].pkt = source[n].pkt
  BY <1>1, <1>2
<1> QED
  BY <1>1, <1>3 DEF InLine, Coming, Taken

LEMMA LineCapture ==
    ASSUME OrderlyWire, IInv, InLine, NEW p \in Packets, Capture(p)
    PROVE  InLine' /\ Coming' = Coming
<1> DEFINE i == [pkt |-> p, age |-> 0]
           n == Len(source)
<1>1. /\ p \notin passed /\ \A q \in Packets : q < p - Reorder => q \in passed
      /\ passed' = passed \cup {p} /\ source' = Append(source, i) /\ lost' = lost
  BY DEF Capture, InReach
<1>2. i \in [pkt: Packets, age: 0 .. MaxAge] /\ i.pkt = p
  BY TimeFacts
<1> HIDE DEF i
<1>3. /\ n \in Nat /\ DOMAIN source = 1 .. n /\ DOMAIN source' = 1 .. n + 1
      /\ source'[n + 1].pkt = p /\ \A m \in 1 .. n : source'[m] = source[m]
  BY <1>1, <1>2, SourceType
<1>4. \A m \in 1 .. n : source[m].pkt \in passed
  BY <1>3, SourceType
<1>5. /\ lost = {} /\ \A q \in passed, x \in Packets \ passed : q < x
      /\ \A a, b \in 1 .. n : a < b => source[a].pkt < source[b].pkt
  BY <1>3 DEF InLine
<1>6. \A q \in passed : q < p
  BY <1>1, <1>5
<1>7. ASSUME NEW a \in DOMAIN source', NEW b \in DOMAIN source', a < b
      PROVE  source'[a].pkt < source'[b].pkt
  <2>1. a \in 1 .. n
    BY <1>3, <1>7
  <2>2. CASE b \in 1 .. n
    BY <1>3, <1>5, <1>7, <2>1, <2>2
  <2>3. CASE b = n + 1
    BY <1>3, <1>4, <1>6, <2>1, <2>3
  <2> QED
    BY <1>3, <2>2, <2>3
<1>8. ASSUME NEW q \in passed', NEW x \in Packets \ passed'
      PROVE  q < x
  <2>1. x \notin passed /\ x # p /\ x \in Nat /\ p \in Nat
    BY <1>1, PacketFacts
  <2>2. ~(x < p - Reorder) /\ p - Reorder = p
    BY <1>1, <2>1, Wire
  <2> QED
    BY <1>1, <1>5, <2>1, <2>2
<1>9. Coming' = Coming
  <2> SUFFICES ASSUME NEW x \in Packets PROVE Taken(x)' <=> Taken(x)
    BY DEF Coming
  <2>1. CASE x = p
    BY <1>1, <1>3, <2>1 DEF Taken
  <2>2. CASE x # p
    <3>1. (\A m \in DOMAIN source' : source'[m].pkt # x) <=> \A m \in DOMAIN source : source[m].pkt # x
      BY <1>3, <2>2
    <3> QED
      BY <1>1, <2>2, <3>1 DEF Taken
  <2> QED
    BY <2>1, <2>2
<1> QED
  BY <1>1, <1>5, <1>7, <1>8, <1>9 DEF InLine

\* The packet taken is the first of those still to come.
LEMMA LinePacket ==
    ASSUME IInv, InLine, Packet, NEW p, p = Head(source).pkt
    PROVE  /\ InLine' /\ p \in Coming /\ Coming' = Coming \ {p}
           /\ \A x \in Coming' : p < x
<1> DEFINE n == Len(source)
<1>1. source # << >> /\ source' = Tail(source) /\ UNCHANGED <<passed, lost>>
  BY DEF Packet
<1>2. /\ n \in Nat /\ n >= 1 /\ DOMAIN source = 1 .. n /\ DOMAIN source' = 1 .. n - 1
      /\ p = source[1].pkt /\ \A m \in 1 .. n - 1 : source'[m] = source[m + 1]
  BY <1>1, SourceType
<1>3. /\ lost = {} /\ \A q \in passed, x \in Packets \ passed : q < x
      /\ \A a, b \in 1 .. n : a < b => source[a].pkt < source[b].pkt
  BY <1>2 DEF InLine
<1>4. p \in passed /\ p \in Packets /\ passed \subseteq Packets
  BY <1>2, SourceType
<1>5. \A a \in 1 .. n - 1 : a + 1 \in 1 .. n /\ 1 \in 1 .. n /\ 1 < a + 1
  BY <1>2
<1>6. \A a \in 1 .. n - 1 : p < source'[a].pkt
  BY <1>2, <1>3, <1>5
<1>7. InLine'
  <2>1. \A a, b \in 1 .. n - 1 : a < b => source'[a].pkt < source'[b].pkt
    BY <1>2, <1>3, <1>5
  <2> QED
    BY <1>1, <1>2, <1>3, <2>1 DEF InLine
<1>8. ASSUME NEW x \in Packets, x # p PROVE Taken(x)' <=> Taken(x)
  <2>1. ASSUME NEW a \in 1 .. n, source[a].pkt = x PROVE \E b \in 1 .. n - 1 : source'[b].pkt = x
    <3>1. a # 1 /\ a - 1 \in 1 .. n - 1 /\ (a - 1) + 1 = a
      BY <1>2, <1>8, <2>1
    <3>2. source'[a - 1].pkt = x
      BY <1>2, <2>1, <3>1
    <3> QED
      BY <3>1, <3>2
  <2>2. ASSUME NEW b \in 1 .. n - 1, source'[b].pkt = x PROVE \E a \in 1 .. n : source[a].pkt = x
    BY <1>2, <1>5, <2>2
  <2> QED
    BY <1>1, <1>2, <2>1, <2>2 DEF Taken
<1>9. ~Taken(p) /\ Taken(p)'
  <2>1. 1 \in 1 .. n /\ p \in Nat
    BY <1>2, <1>4, PacketFacts
  <2>2. ~Taken(p)
    BY <1>2, <2>1 DEF Taken
  <2>3. \A a \in 1 .. n - 1 : source'[a].pkt # p
    BY <1>2, <1>6, <2>1
  <2> QED
    BY <1>1, <1>2, <1>3, <1>4, <2>2, <2>3 DEF Taken
<1>10. p \in Coming /\ Coming' = Coming \ {p}
  BY <1>4, <1>8, <1>9 DEF Coming
<1>11. ASSUME NEW x \in Coming' PROVE p < x
  <2>1. x \in Packets /\ ~Taken(x)'
    BY <1>11 DEF Coming
  <2>2. CASE x \notin passed
    BY <1>3, <1>4, <2>1, <2>2
  <2>3. CASE x \in passed
    BY <1>1, <1>2, <1>3, <1>6, <2>1, <2>3 DEF Taken
  <2> QED
    BY <2>2, <2>3
<1> QED
  BY <1>7, <1>10, <1>11

-----------------------------------------------------------------------------
(* What the streams' operations make of the order and the idleness.        *)

LEMMA Behind ==
    ASSUME OrderlyWire, NEW x \in Packets, NEW y \in Packets, SameWay(x, y)
    PROVE  /\ x < y => EndSeq(x) <= Traffic[y].seq /\ Traffic[x].seq < Traffic[y].seq /\ ~Traffic[x].fin
           /\ EndSeq(x) <= Traffic[y].seq => x < y
<1>1. /\ x \in Nat /\ y \in Nat
      /\ Traffic[x].seq \in Nat /\ EndSeq(x) \in Nat /\ EndSeq(x) > Traffic[x].seq
      /\ Traffic[y].seq \in Nat /\ EndSeq(y) \in Nat /\ EndSeq(y) > Traffic[y].seq
  BY PacketFacts
<1>2. x < y => EndSeq(x) <= Traffic[y].seq /\ ~Traffic[x].fin
  BY Wire
<1>3. SameWay(y, x)
  BY DEF SameWay
<1>4. y < x => EndSeq(y) <= Traffic[x].seq
  BY <1>3, Wire
<1>5. x = y => ~(EndSeq(x) <= Traffic[y].seq)
  BY <1>1
<1> QED
  BY <1>1, <1>2, <1>4, <1>5

\* The fields of a stream that has been handed a batch.
HandedOn(s, e, batch, l, t) ==
    /\ t.src = s.src /\ l \in batch
    /\ \A f \in Ends \ {e} : t.half[f] = s.half[f]
    /\ t.half[e].nextSeq = EndSeq(l) /\ t.half[e].idle = s.half[e].idle
    /\ \A i : i \in t.half[e].buffered <=> i \in s.half[e].buffered /\ i.pkt \notin batch
    /\ t.half[e].closed <=> s.half[e].closed \/ Traffic[l].fin
    /\ t.half[e].closed => t.half[e].buffered = {}

LEMMA HandedHalves ==
    ASSUME OrderlyWire, NEW c, NEW e \in Ends, NEW s \in Streams, StreamOK(c, s),
           NEW batch, NEW m, BatchOK(c, s, e, batch, m),
           NEW t, t = Handed(s, e, batch, m), NEW l, l = Last(batch)
    PROVE  /\ HandedOn(s, e, batch, l, t)
           /\ t.messages = ReassembledSG(s, e, batch, m).messages
<1> DEFINE h == s.half[e]
           left == {i \in h.buffered : i.pkt \notin batch}
           rest == [h EXCEPT !.nextSeq = EndSeq(l), !.buffered = {i \in @ : i.pkt \notin batch}]
<1>1. batch \in SUBSET Packets /\ m \in batch /\ \A p \in batch : Traffic[p].conn = c /\ Traffic[p].from = e
  BY DEF BatchOK
<1>2. l \in batch /\ l \in Packets /\ EndSeq(l) \in Nat /\ Traffic[l].fin \in BOOLEAN
  BY <1>1, LastIn, PacketFacts
<1>3. h \in Halves /\ s.half \in [Ends -> Halves]
  BY DEF Streams
<1>4. /\ \A i \in h.buffered : i.pkt \in Packets /\ Traffic[i.pkt].conn = c /\ Traffic[i.pkt].from = e
      /\ h.closed => h.buffered = {}
      /\ \A i \in left : EndSeq(l) < Traffic[i.pkt].seq
  <2>1. HalfOK(c, e, h)
    BY DEF StreamOK
  <2>2. \A i \in h.buffered : i.pkt \in Packets
    BY <1>3 DEF Halves
  <2> QED
    BY <2>1, <2>2 DEF HalfOK, Arrived, BatchOK
<1>5. Traffic[l].fin => left = {}
  <2> SUFFICES ASSUME NEW i \in left PROVE ~Traffic[l].fin
    OBVIOUS
  <2>1. SameWay(l, i.pkt) /\ i.pkt \in Packets
    BY <1>1, <1>2, <1>4 DEF SameWay
  <2>2. EndSeq(l) <= Traffic[i.pkt].seq
    BY <1>2, <1>4, <2>1, PacketFacts
  <2> QED
    BY <1>2, <2>1, <2>2, Behind
<1>6. t = [s EXCEPT !.messages = ReassembledSG(s, e, batch, m).messages,
                    !.half = [s.half EXCEPT ![e] = After(h, batch)]]
  BY DEF Handed
<1>7. After(h, batch) = IF Traffic[l].fin THEN Closed(rest) ELSE rest
  BY DEF After
<1> HIDE DEF h
<1>8. /\ rest \in Halves /\ rest.nextSeq = EndSeq(l) /\ rest.idle = h.idle
      /\ rest.closed = h.closed /\ rest.buffered = left /\ h.closed \in BOOLEAN
  BY <1>2, <1>3 DEF Halves
<1> HIDE DEF rest, left
<1> DEFINE a == After(h, batch)
<1>9. /\ a.nextSeq = EndSeq(l) /\ a.idle = h.idle /\ a.buffered = left
      /\ a.closed <=> h.closed \/ Traffic[l].fin
  <2>1. CASE Traffic[l].fin
    BY <1>5, <1>7, <1>8, <2>1, ClosedHalf
  <2>2. CASE ~Traffic[l].fin
    BY <1>7, <1>8, <2>2
  <2> QED
    BY <2>1, <2>2
<1>10. a.closed => a.buffered = {}
  BY <1>4, <1>5, <1>9 DEF left
<1> HIDE DEF a
<1>11. /\ t.src = s.src /\ t.messages = ReassembledSG(s, e, batch, m).messages
       /\ t.half = [s.half EXCEPT ![e] = a]
  BY <1>6 DEF Streams, a
<1>12. t.half[e] = a /\ \A f \in Ends \ {e} : t.half[f] = s.half[f]
  BY <1>3, <1>11
<1> QED
  BY <1>2, <1>9, <1>10, <1>11, <1>12 DEF h, left, HandedOn

LEMMA HandedFits ==
    ASSUME OrderlyWire, NEW c, NEW e \in Ends, NEW s \in Streams, StreamOK(c, s),
           NEW batch, NEW m, BatchOK(c, s, e, batch, m),
           NEW coming \in SUBSET Packets, NEW visits, Fits(coming, visits, c, s),
           NEW rest \in SUBSET coming, \A x \in rest : SameWay(m, x) => m < x
    PROVE  Fits(rest, visits, c, Handed(s, e, batch, m))
<1> DEFINE t == Handed(s, e, batch, m)
           l == Last(batch)
<1>0. t = Handed(s, e, batch, m) /\ l = Last(batch)
  OBVIOUS
<1> HIDE DEF t, l
<1>1. /\ \A f \in Ends \ {e} : t.half[f] = s.half[f]
      /\ l \in batch /\ t.half[e].nextSeq = EndSeq(l) /\ t.half[e].idle = s.half[e].idle
      /\ \A i : i \in t.half[e].buffered <=> i \in s.half[e].buffered /\ i.pkt \notin batch
      /\ t.half[e].closed <=> s.half[e].closed \/ Traffic[l].fin
  <2>1. HandedOn(s, e, batch, l, t)
    BY <1>0, HandedHalves
  <2> QED
    BY <2>1 DEF HandedOn
<1>2. /\ batch \in SUBSET Packets /\ \A p \in batch : Traffic[p].conn = c /\ Traffic[p].from = e
      /\ m \in batch /\ batch \subseteq Buffered(s.half[e]) \cup {m}
  BY DEF BatchOK
<1>3. IdleFor(t) = IdleFor(s)
  <2>1. \A f \in Ends : t.half[f].idle = s.half[f].idle
    BY <1>1
  <2> QED
    BY <2>1 DEF IdleFor, Ends
<1>4. ASSUME NEW x \in rest, Traffic[x].conn = c, Traffic[x].from = e PROVE l < x /\ SameWay(l, x)
  <2>1. SameWay(l, x) /\ SameWay(m, x)
    BY <1>1, <1>2, <1>4 DEF SameWay
  <2>2. CASE l = m
    BY <2>1, <2>2
  <2>3. CASE l # m
    <3>1. PICK i \in s.half[e].buffered : l = i.pkt
      BY <1>1, <1>2, <2>3 DEF Buffered
    <3> QED
      BY <1>4, <2>1, <3>1 DEF Fits, Ordered
  <2> QED
    BY <2>2, <2>3
<1>5. Ordered(rest, c, t)
  <2> SUFFICES ASSUME NEW x \in rest, Traffic[x].conn = c
               PROVE  /\ t.half[Traffic[x].from].nextSeq <= Traffic[x].seq
                      /\ \A i \in t.half[Traffic[x].from].buffered : i.pkt < x
    BY DEF Ordered
  <2>1. /\ s.half[Traffic[x].from].nextSeq <= Traffic[x].seq
        /\ \A i \in s.half[Traffic[x].from].buffered : i.pkt < x
    BY DEF Fits, Ordered
  <2>2. CASE Traffic[x].from = e
    <3>1. EndSeq(l) <= Traffic[x].seq
      BY <1>1, <1>2, <1>4, <2>2, Behind
    <3> QED
      BY <1>1, <2>1, <2>2, <3>1
  <2>3. CASE Traffic[x].from # e
    BY <1>1, <2>1, <2>3, PacketFacts
  <2> QED
    BY <2>2, <2>3
<1>6. Aged(t)
  <2> SUFFICES ASSUME NEW f \in Ends, NEW i \in t.half[f].buffered PROVE i.age >= t.half[f].idle
    BY DEF Aged
  <2>1. i \in s.half[f].buffered /\ t.half[f].idle = s.half[f].idle
    BY <1>1
  <2> QED
    BY <2>1 DEF Fits, Aged
<1>7. Shut(rest, visits, c, t)
  <2> SUFFICES ASSUME NEW f \in Ends, t.half[f].closed
               PROVE  \/ \A p \in rest : ~(Traffic[p].conn = c /\ Traffic[p].from = f)
                      \/ IdleFor(t) > CloseTimeout /\ \E g \in Ends \ {f} : <<c, g>> \in visits
    BY DEF Shut
  <2>1. CASE s.half[f].closed
    BY <1>3, <2>1 DEF Fits, Shut
  <2>2. CASE ~s.half[f].closed
    <3>1. f = e /\ Traffic[l].fin
      BY <1>1, <2>2
    <3> QED
      BY <1>1, <1>2, <1>4, <3>1, Behind
  <2> QED
    BY <2>1, <2>2
<1>8. Visited(visits, c, t)
  <2>1. \A f \in Ends : s.half[f].closed => t.half[f].closed
    BY <1>1
  <2> QED
    BY <1>3, <2>1 DEF Fits, Visited
<1> QED
  BY <1>5, <1>6, <1>7, <1>8 DEF Fits, t

LEMMA FitsLess ==
    ASSUME NEW c, NEW s, NEW coming, NEW visits, Fits(coming, visits, c, s),
           NEW rest \in SUBSET coming, NEW left, \A e \in Ends : <<c, e>> \in left <=> <<c, e>> \in visits
    PROVE  Fits(rest, left, c, s)
<1>1. Ordered(rest, c, s) /\ Aged(s)
  BY DEF Fits, Ordered
<1>2. Shut(rest, left, c, s)
  BY DEF Fits, Shut
<1>3. Visited(left, c, s)
  BY DEF Fits, Visited
<1> QED
  BY <1>1, <1>2, <1>3 DEF Fits

LEMMA NewFits ==
    ASSUME NEW coming \in SUBSET Packets, NEW c, NEW id, NEW src
    PROVE  Fits(coming, {}, c, NewStream(id, src))
<1> DEFINE s == NewStream(id, src)
<1>1. \A e \in Ends : s.half[e].nextSeq = 0 /\ s.half[e].buffered = {} /\ ~s.half[e].closed
  BY DEF NewStream, NewHalf, Unstarted
<1> HIDE DEF s
<1>2. Ordered(coming, c, s)
  BY <1>1, PacketFacts DEF Ordered
<1>3. Aged(s) /\ Shut(coming, {}, c, s) /\ Visited({}, c, s)
  BY <1>1 DEF Aged, Shut, Visited
<1> QED
  BY <1>2, <1>3 DEF Fits, s

\* A stream that has been shown a packet: its direction is as young as the packet.
LEMMA MarkedFits ==
    ASSUME NEW c, NEW coming \in SUBSET Packets, NEW s, NEW t, SameButMarks(s, t), Fits(coming, {}, c, s),
           \A e \in Ends : t.half[e].idle \in Nat /\ s.half[e].idle \in Nat /\ t.half[e].idle <= s.half[e].idle,
           \A e \in Ends : \A i \in s.half[e].buffered : i.age \in Nat
    PROVE  Fits(coming, {}, c, t)
<1>1. Ordered(coming, c, t)
  <2> SUFFICES ASSUME NEW x \in coming, Traffic[x].conn = c
               PROVE  /\ t.half[Traffic[x].from].nextSeq <= Traffic[x].seq
                      /\ \A i \in t.half[Traffic[x].from].buffered : i.pkt < x
    BY DEF Ordered
  <2>1. Traffic[x].from \in Ends
    BY PacketFacts
  <2> QED
    BY <2>1 DEF Fits, Ordered, SameButMarks
<1>2. Aged(t)
  <2> SUFFICES ASSUME NEW f \in Ends, NEW i \in t.half[f].buffered PROVE i.age >= t.half[f].idle
    BY DEF Aged
  <2>1. i \in s.half[f].buffered
    BY DEF SameButMarks
  <2>2. i.age >= s.half[f].idle
    BY <2>1 DEF Fits, Aged
  <2> QED
    BY <2>1, <2>2
<1>3. Shut(coming, {}, c, t)
  BY DEF Fits, Shut, SameButMarks
<1>4. Visited({}, c, t)
  BY DEF Visited
<1> QED
  BY <1>1, <1>2, <1>3, <1>4 DEF Fits

LEMMA AcceptedYounger ==
    ASSUME NEW s \in Streams, NEW item \in [pkt: Packets, age: 0 .. MaxAge], NEW v \in Verdicts,
           NEW k, NEW t, t = Accept(Touched(s, item), v, k).stream
    PROVE  /\ \A e \in Ends : t.half[e].idle \in Nat /\ s.half[e].idle \in Nat
                              /\ t.half[e].idle <= s.half[e].idle
           /\ t.half[Traffic[item.pkt].from].idle <= item.age
<1> DEFINE f == Traffic[item.pkt].from
           h == s.half[f]
           age == IF item.age < h.idle THEN item.age ELSE h.idle
           g == [h EXCEPT !.idle = age]
           u == Touched(s, item)
<1>1. f \in Ends /\ item.age \in 0 .. MaxAge /\ MaxAge \in Nat
  BY PacketFacts, TimeFacts
<1>2. h \in Halves /\ s.half \in [Ends -> Halves]
  BY <1>1 DEF Streams
<1>3. age \in Nat /\ age <= h.idle /\ age <= item.age /\ h.idle \in Nat
  BY <1>1, <1>2 DEF Halves
<1>4. u = [s EXCEPT !.half = [s.half EXCEPT ![f] = g]]
  BY <1>1, <1>2 DEF Touched, Halves, Streams
<1>5. t = [u EXCEPT !.fsmerr = @ \/ ~v.fsm]
  BY DEF Accept
<1> HIDE DEF h, age
<1>6. g.idle = age
  BY <1>2 DEF Halves
<1> HIDE DEF g, u, f
<1>7. u.half = [s.half EXCEPT ![f] = g] /\ t.half = u.half
  BY <1>4, <1>5 DEF Streams
<1>8. \A e \in Ends : t.half[e] = IF e = f THEN g ELSE s.half[e]
  BY <1>1, <1>2, <1>7
<1>9. \A e \in Ends : s.half[e].idle \in Nat
  BY <1>1, <1>2 DEF Halves
<1>10. ASSUME NEW e \in Ends
       PROVE  t.half[e].idle \in Nat /\ s.half[e].idle \in Nat /\ t.half[e].idle <= s.half[e].idle
  <2>1. CASE e = f
    BY <1>3, <1>6, <1>8, <1>9, <2>1 DEF h
  <2>2. CASE e # f
    BY <1>8, <1>9, <2>2
  <2> QED
    BY <2>1, <2>2
<1>11. t.half[f].idle <= item.age
  BY <1>1, <1>3, <1>6, <1>8
<1> QED
  BY <1>10, <1>11 DEF f

\* The stream in whose buffer a packet has been put.
QueuedOn(s, e, p, t) ==
    /\ t.src = s.src /\ t.messages = s.messages
    /\ \E i \in t.half[e].buffered : i.pkt = p
    /\ \A f \in Ends : /\ s.half[f].buffered \subseteq t.half[f].buffered
                       /\ t.half[f].closed => t.half[f].buffered = {}

LEMMA QueuedFits ==
    ASSUME OrderlyWire, NEW s \in Streams, NEW item \in [pkt: Packets, age: 0 .. MaxAge],
           NEW p, p = item.pkt, NEW c, c = Traffic[p].conn, NEW e, e = Traffic[p].from, StreamOK(c, s),
           NEW coming \in SUBSET Packets, Fits(coming, {}, c, s), p \in coming,
           NEW rest \in SUBSET coming, \A x \in rest : p < x,
           s.half[e].idle <= item.age, NEW t, t = Queued(s, item)
    PROVE  Fits(rest, {}, c, t) /\ QueuedOn(s, e, p, t)
<1> DEFINE h == s.half[e]
           g == [h EXCEPT !.buffered = @ \cup {item}]
<1>1. p \in Packets /\ e \in Ends
  BY PacketFacts
<1>2. h \in Halves /\ s.half \in [Ends -> Halves]
  BY <1>1 DEF Streams
<1>3. \A q \in Buffered(h) : Traffic[q].seq # Traffic[p].seq
  <2> SUFFICES ASSUME NEW i \in h.buffered PROVE Traffic[i.pkt].seq # Traffic[p].seq
    BY DEF Buffered
  <2>1. HalfOK(c, e, h)
    BY <1>1 DEF StreamOK
  <2>2. i.pkt \in Packets /\ Traffic[i.pkt].conn = c /\ Traffic[i.pkt].from = e
    BY <1>2, <2>1 DEF HalfOK, Arrived, Halves
  <2>3. SameWay(i.pkt, p)
    BY <2>2 DEF SameWay
  <2>4. i.pkt < p
    BY <1>1 DEF Fits, Ordered
  <2>5. Traffic[i.pkt].seq < Traffic[p].seq
    BY <1>1, <2>2, <2>3, <2>4, Behind
  <2> QED
    BY <1>1, <2>2, <2>5, PacketFacts
<1>4. ~h.closed
  BY <1>1 DEF Fits, Shut
<1>5. t = [s EXCEPT !.half = [s.half EXCEPT ![e] = g]]
  <2>1. t = [s EXCEPT !.half[e].buffered = @ \cup {item}]
    BY <1>3 DEF Queued
  <2> QED
    BY <1>1, <1>2, <2>1 DEF Streams, Halves
<1>6. /\ g.nextSeq = h.nextSeq /\ g.idle = h.idle /\ g.closed = h.closed
      /\ g.buffered = h.buffered \cup {item}
  BY <1>2 DEF Halves
<1>7. h = s.half[e]
  OBVIOUS
<1> HIDE DEF h, g
<1>8. t.half = [s.half EXCEPT ![e] = g] /\ t.src = s.src /\ t.messages = s.messages
  BY <1>5 DEF Streams
<1>9. t.half[e] = g /\ \A f \in Ends \ {e} : t.half[f] = s.half[f]
  BY <1>1, <1>2, <1>8
<1>10. \A f \in Ends : /\ t.half[f].nextSeq = s.half[f].nextSeq /\ t.half[f].idle = s.half[f].idle
                       /\ t.half[f].closed = s.half[f].closed
  BY <1>6, <1>7, <1>9
<1>11. \A f \in Ends : \A i \in t.half[f].buffered : i \in s.half[f].buffered \/ (f = e /\ i = item)
  BY <1>6, <1>7, <1>9
<1>12. Ordered(rest, c, t)
  <2> SUFFICES ASSUME NEW x \in rest, Traffic[x].conn = c
               PROVE  /\ t.half[Traffic[x].from].nextSeq <= Traffic[x].seq
                      /\ \A i \in t.half[Traffic[x].from].buffered : i.pkt < x
    BY DEF Ordered
  <2>1. Traffic[x].from \in Ends
    BY PacketFacts
  <2>2. /\ s.half[Traffic[x].from].nextSeq <= Traffic[x].seq
        /\ \A i \in s.half[Traffic[x].from].buffered : i.pkt < x
    BY DEF Fits, Ordered
  <2> QED
    BY <1>10, <1>11, <2>1, <2>2
<1>13. Aged(t)
  <2> SUFFICES ASSUME NEW f \in Ends, NEW i \in t.half[f].buffered PROVE i.age >= t.half[f].idle
    BY DEF Aged
  <2>1. CASE i \in s.half[f].buffered
    BY <1>10, <2>1 DEF Fits, Aged
  <2>2. CASE f = e /\ i = item
    <3>1. h.idle \in Nat /\ item.age \in Nat /\ h.idle <= item.age
      BY <1>2, <1>7, TimeFacts DEF Halves
    <3> QED
      BY <1>7, <1>10, <2>2, <3>1
  <2> QED
    BY <1>11, <2>1, <2>2
<1>14. Shut(rest, {}, c, t) /\ Visited({}, c, t)
  BY <1>10 DEF Fits, Shut, Visited
<1>15. \A f \in Ends : s.half[f].buffered \subseteq t.half[f].buffered
  BY <1>6, <1>7, <1>9
<1>16. \E i \in t.half[e].buffered : i.pkt = p
  BY <1>6, <1>9
<1>17. ASSUME NEW f \in Ends, t.half[f].closed PROVE t.half[f].buffered = {}
  <2>1. f # e /\ s.half[f].closed /\ t.half[f] = s.half[f]
    BY <1>4, <1>7, <1>9, <1>10, <1>17
  <2> QED
    BY <2>1 DEF StreamOK, HalfOK
<1> QED
  BY <1>8, <1>12, <1>13, <1>14, <1>15, <1>16, <1>17 DEF Fits, QueuedOn

LEMMA IdleType == ASSUME NEW s \in Streams PROVE IdleFor(s) \in Nat
<1>1. s.half["client"].idle \in Nat /\ s.half["server"].idle \in Nat
  BY TimeFacts DEF Streams, Halves, Ends
<1> QED
  BY <1>1 DEF IdleFor

LEMMA TwoEnds ==
    ASSUME NEW s, NEW e \in Ends, NEW f \in Ends, e # f, s.half[e].closed, s.half[f].closed
    PROVE  Complete(s)
BY DEF Complete, Ends

\* A direction closed for idleness: the other one is still to be visited.
LEMMA ClosedFits ==
    ASSUME NEW c, NEW e \in Ends, NEW s \in Streams,
           NEW coming \in SUBSET Packets, NEW visits, Fits(coming, visits, c, s),
           <<c, e>> \in visits, IdleFor(s) > CloseTimeout,
           NEW t, t = ClosedIn(s, e), ~Complete(t)
    PROVE  Fits(coming, visits \ {<<c, e>>}, c, t)
<1> DEFINE h == s.half[e]
           g == Closed(h)
           left == visits \ {<<c, e>>}
<1>1. h \in Halves /\ s.half \in [Ends -> Halves]
  BY DEF Streams
<1>2. t = [s EXCEPT !.half = [s.half EXCEPT ![e] = g]]
  BY DEF ClosedIn
<1>3. h = s.half[e]
  OBVIOUS
<1> HIDE DEF h
<1>4. g.closed /\ g.buffered = {} /\ g.nextSeq = h.nextSeq /\ g.idle = h.idle
  BY <1>1, ClosedHalf
<1> HIDE DEF g
<1>5. t.half = [s.half EXCEPT ![e] = g]
  BY <1>2 DEF Streams
<1>6. t.half[e] = g /\ \A f \in Ends \ {e} : t.half[f] = s.half[f]
  BY <1>1, <1>5
<1>7. /\ \A f \in Ends : /\ t.half[f].nextSeq = s.half[f].nextSeq /\ t.half[f].idle = s.half[f].idle
                         /\ t.half[f].buffered \subseteq s.half[f].buffered
      /\ t.half[e].closed
  BY <1>3, <1>4, <1>6
<1>8. IdleFor(t) = IdleFor(s) /\ IdleFor(s) \in Nat /\ CloseTimeout \in Nat
  BY <1>7, IdleType, TimeFacts DEF IdleFor, Ends
<1>9. \A f \in Ends \ {e} : ~t.half[f].closed /\ ~s.half[f].closed
  BY <1>6, <1>7, TwoEnds
<1>10. \A f \in Ends \ {e} : <<c, f>> \in visits
  BY <1>8, <1>9 DEF Fits, Visited
<1>11. Ordered(coming, c, t)
  <2> SUFFICES ASSUME NEW x \in coming, Traffic[x].conn = c
               PROVE  /\ t.half[Traffic[x].from].nextSeq <= Traffic[x].seq
                      /\ \A i \in t.half[Traffic[x].from].buffered : i.pkt < x
    BY DEF Ordered
  <2>1. Traffic[x].from \in Ends
    BY PacketFacts
  <2> QED
    BY <1>7, <2>1 DEF Fits, Ordered
<1>12. Aged(t)
  BY <1>7 DEF Fits, Aged
<1>13. \E f \in Ends \ {e} : TRUE
  BY DEF Ends
<1>14. \A f \in Ends \ {e} : <<c, f>> \in left
  BY <1>10
<1> HIDE DEF left
<1>15. Shut(coming, left, c, t)
  BY <1>8, <1>9, <1>13, <1>14 DEF Shut
<1>16. Visited(left, c, t)
  BY <1>7, <1>14 DEF Visited
<1> QED
  BY <1>11, <1>12, <1>15, <1>16 DEF Fits, left

LEMMA NextFits ==
    ASSUME NEW c, NEW e \in Ends, NEW s \in Streams, NEW coming, NEW visits, Fits(coming, visits, c, s),
           <<c, e>> \in visits, s.half[e].closed \/ IdleFor(s) <= CloseTimeout, ~Complete(s)
    PROVE  Fits(coming, visits \ {<<c, e>>}, c, s)
<1> DEFINE left == visits \ {<<c, e>>}
<1>1. IdleFor(s) \in Nat /\ CloseTimeout \in Nat
  BY IdleType, TimeFacts
<1>2. \A f \in Ends \ {e} : <<c, f>> \in visits <=> <<c, f>> \in left
  OBVIOUS
<1>3. left \subseteq visits
  OBVIOUS
<1> HIDE DEF left
<1>4. Shut(coming, left, c, s)
  <2> SUFFICES ASSUME NEW f \in Ends, s.half[f].closed, IdleFor(s) > CloseTimeout,
                      NEW g \in Ends \ {f}, <<c, g>> \in visits
               PROVE  \E x \in Ends \ {f} : <<c, x>> \in left
    BY DEF Fits, Shut
  <2>1. g # e
    BY <1>1, TwoEnds
  <2> QED
    BY <1>2, <2>1
<1>5. Visited(left, c, s)
  <2> SUFFICES ASSUME NEW a \in Ends, NEW b \in Ends, <<c, a>> \in left, <<c, b>> \notin left
               PROVE  s.half[b].closed \/ IdleFor(s) <= CloseTimeout
    BY DEF Visited
  <2>1. CASE b = e
    BY <2>1
  <2>2. CASE b # e
    BY <1>2, <1>3, <2>2 DEF Fits, Visited
  <2> QED
    BY <2>1, <2>2
<1> QED
  BY <1>4, <1>5 DEF Fits, left

-----------------------------------------------------------------------------
(* No message gets lost on its way through a stream.                       *)

\* What GetOrStore leaves of the other keys, and of its own.
LEMMA KeysKept ==
    ASSUME NEW M \in [Keys -> Entry], NEW k \in Keys, NEW filled, filled # NoEntry,
           NEW r, r = GetOrStore(M, k, filled)
    PROVE  /\ \A j \in Keys \ {k} : r.messages[j] = M[j]
           /\ M[k] = NoEntry => r.messages[k] = filled
           /\ M[k] # NoEntry => r.match = filled /\ r.match # NoEntry
BY DEF GetOrStore, Found

LEMMA RequestKept ==
    ASSUME HttpOverTcp, NEW c, NEW s \in Streams, MsgOK(c, s), NEW e \in Ends, e = s.src,
           NEW m \in Packets, Traffic[m].conn = c, Traffic[m].from = e,
           Traffic[m].kind = "request", s.half[e].nextSeq <= Traffic[m].seq,
           NEW n, NEW r, r = GetOrStoreRequest(s.messages, Traffic[m].ack, m, m, n),
           NEW t, t.messages = r.messages, NEW x \in Packets, Stored(s, x) \/ x = m
    PROVE  Stored(t, x) \/ (r.match # NoEntry /\ x \in {r.match.request, r.match.response})
<1> DEFINE k == Traffic[m].ack
           y == s.messages[k]
           filled == WithRequest(y, m, m, n)
<1>1. k \in Keys /\ s.messages \in [Keys -> Entry]
  BY PacketFacts DEF Streams
<1>2. y = NoEntry \/ y.request = Nil
  <2>1. Traffic[m].from = s.src /\ s.half[s.src].nextSeq <= Traffic[m].seq
    OBVIOUS
  <2> QED
    BY <2>1, RequestFinds
<1>3. filled.request = m /\ filled.response = y.response
  BY FilledFields
<1>4. r = GetOrStore(s.messages, k, filled)
  BY DEF GetOrStoreRequest
<1>5. x # 0 /\ m # 0 /\ Traffic[x].ack \in Keys /\ Traffic[x].seq \in Keys
  BY PacketFacts
<1>6. NoEntry.request = 0 /\ NoEntry.response = 0 /\ Nil = 0
  BY DEF NoEntry, Nil
<1>7. filled # NoEntry /\ y.request = 0
  BY <1>2, <1>3, <1>5, <1>6
<1>8. y = s.messages[k] /\ k = Traffic[m].ack
  OBVIOUS
<1> HIDE DEF filled, y, k
<1>9. /\ \A j \in Keys \ {k} : t.messages[j] = s.messages[j]
      /\ y = NoEntry => t.messages[k] = filled
      /\ y # NoEntry => r.match = filled /\ r.match # NoEntry
  BY <1>1, <1>4, <1>7, <1>8, KeysKept
<1>10. CASE x = m
  BY <1>3, <1>8, <1>9, <1>10 DEF Stored
<1>11. CASE Traffic[x].kind = "request" /\ s.messages[Traffic[x].ack].request = x
  BY <1>5, <1>7, <1>8, <1>9, <1>11 DEF Stored
<1>12. CASE Traffic[x].kind = "response" /\ s.messages[Traffic[x].seq].response = x
  <2>1. CASE Traffic[x].seq = k
    BY <1>3, <1>5, <1>6, <1>8, <1>9, <1>12, <2>1
  <2>2. CASE Traffic[x].seq # k
    BY <1>5, <1>9, <1>12, <2>2 DEF Stored
  <2> QED
    BY <2>1, <2>2
<1> QED
  BY <1>10, <1>11, <1>12 DEF Stored

LEMMA ResponseKept ==
    ASSUME HttpOverTcp, NEW c, NEW s \in Streams, MsgOK(c, s), NEW e \in Ends, e # s.src,
           NEW m \in Packets, Traffic[m].conn = c, Traffic[m].from = e,
           Traffic[m].kind = "response", s.half[e].nextSeq <= Traffic[m].seq,
           NEW n, NEW r, r = GetOrStoreResponse(s.messages, Traffic[m].seq, m, m, n),
           NEW t, t.messages = r.messages, NEW x \in Packets, Stored(s, x) \/ x = m
    PROVE  Stored(t, x) \/ (r.match # NoEntry /\ x \in {r.match.request, r.match.response})
<1> DEFINE k == Traffic[m].seq
           y == s.messages[k]
           filled == WithResponse(y, m, m, n)
<1>1. k \in Keys /\ s.messages \in [Keys -> Entry]
  BY PacketFacts DEF Streams
<1>2. y = NoEntry \/ y.response = Nil
  BY ResponseFinds
<1>3. filled.response = m /\ filled.request = y.request
  BY FilledFields
<1>4. r = GetOrStore(s.messages, k, filled)
  BY DEF GetOrStoreResponse
<1>5. x # 0 /\ m # 0 /\ Traffic[x].ack \in Keys /\ Traffic[x].seq \in Keys
  BY PacketFacts
<1>6. NoEntry.request = 0 /\ NoEntry.response = 0 /\ Nil = 0
  BY DEF NoEntry, Nil
<1>7. filled # NoEntry /\ y.response = 0
  BY <1>2, <1>3, <1>5, <1>6
<1>8. y = s.messages[k] /\ k = Traffic[m].seq
  OBVIOUS
<1> HIDE DEF filled, y, k
<1>9. /\ \A j \in Keys \ {k} : t.messages[j] = s.messages[j]
      /\ y = NoEntry => t.messages[k] = filled
      /\ y # NoEntry => r.match = filled /\ r.match # NoEntry
  BY <1>1, <1>4, <1>7, <1>8, KeysKept
<1>10. CASE x = m
  BY <1>3, <1>8, <1>9, <1>10 DEF Stored
<1>11. CASE Traffic[x].kind = "response" /\ s.messages[Traffic[x].seq].response = x
  BY <1>5, <1>7, <1>8, <1>9, <1>11 DEF Stored
<1>12. CASE Traffic[x].kind = "request" /\ s.messages[Traffic[x].ack].request = x
  <2>1. CASE Traffic[x].ack = k
    BY <1>3, <1>5, <1>6, <1>8, <1>9, <1>12, <2>1
  <2>2. CASE Traffic[x].ack # k
    BY <1>5, <1>9, <1>12, <2>2 DEF Stored
  <2> QED
    BY <2>1, <2>2
<1> QED
  BY <1>10, <1>11, <1>12 DEF Stored

LEMMA KindType == ASSUME NEW p \in Packets PROVE Traffic[p].kind \in {"request", "response", "torn"}
BY AssemblerConstants, Zenon

\* The first message of a batch is read: it is stored or meets the other half of its cycle.
LEMMA MessageKept ==
    ASSUME HttpOverTcp, NEW c, NEW e \in Ends, NEW s \in Streams, MsgOK(c, s), Facing(c, s),
           NEW batch, NEW m, BatchOK(c, s, e, batch, m),
           NEW r, r = ReassembledSG(s, e, batch, m),
           NEW t, t.messages = r.messages,
           NEW x \in Packets, Traffic[x].kind # "torn", Stored(s, x) \/ x = m
    PROVE  Stored(t, x) \/ (r.match # NoEntry /\ x \in {r.match.request, r.match.response})
<1>1. /\ m \in Packets /\ Traffic[m].conn = c /\ Traffic[m].from = e
      /\ s.half[e].nextSeq <= Traffic[m].seq /\ m = First(batch)
  BY DEF BatchOK
<1>2. CASE ~Parses(m, e = s.src)
  <2>1. r.match = NoEntry /\ t.messages = s.messages
    BY <1>1, <1>2 DEF ReassembledSG
  <2>2. Traffic[m].kind = "torn"
    BY <1>1, <1>2, KindType DEF Facing, Parses
  <2> QED
    BY <2>1, <2>2 DEF Stored
<1>3. CASE Parses(m, e = s.src) /\ e = s.src
  <2>1. /\ r = GetOrStoreRequest(s.messages, Traffic[m].ack, m, m, Cardinality(batch))
        /\ Traffic[m].kind = "request"
    BY <1>1, <1>3 DEF ReassembledSG, RequestId, Parses
  <2> QED
    BY <1>1, <1>3, <2>1, RequestKept
<1>4. CASE Parses(m, e = s.src) /\ e # s.src
  <2>1. /\ r = GetOrStoreResponse(s.messages, Traffic[m].seq, m, m, Cardinality(batch))
        /\ Traffic[m].kind = "response"
    BY <1>1, <1>4 DEF ReassembledSG, RequestId, Parses
  <2> QED
    BY <1>1, <1>4, <2>1, ResponseKept
<1> QED
  BY <1>2, <1>3, <1>4

\* Out of the stream, or still with it.
NoneLost(s, batch, t) ==
    \A x \in Packets :
        Traffic[x].kind # "torn" /\ (Out(x) \/ Has(s, x) \/ x \in batch) => Out(x)' \/ Has(t, x)

LEMMA HandedKept ==
    ASSUME HttpOverTcp, OrderlyWire, NEW c, NEW e \in Ends, NEW s \in Streams, StreamOK(c, s),
           MsgOK(c, s), Facing(c, s), NEW batch, NEW m, BatchOK(c, s, e, batch, m), NEW k,
           Deliver(c, s, e, batch, m, k), NEW t, t = Handed(s, e, batch, m)
    PROVE  NoneLost(s, batch, t)
<1> DEFINE r == ReassembledSG(s, e, batch, m)
           new == [stream |-> s.id, conn |-> c, src |-> s.src,
                   requestId |-> RequestId(m, e = s.src), entry |-> r.match]
           l == Last(batch)
<1>1. /\ events' = IF r.match = NoEntry THEN events ELSE events \cup {new}
      /\ swallowed' = swallowed \cup (batch \ {First(batch)})
  BY DEF Deliver
<1>2. new.entry = r.match /\ l = Last(batch) /\ r = ReassembledSG(s, e, batch, m)
  OBVIOUS
<1> HIDE DEF r, new, l
<1>3. HandedOn(s, e, batch, l, t) /\ t.messages = r.messages
  BY <1>2, HandedHalves
<1>4. /\ m = First(batch) /\ m \in batch /\ batch \in SUBSET Packets
      /\ \A p \in batch : Traffic[p].from = e
  BY DEF BatchOK
<1>5. ASSUME NEW x \in Packets, Out(x) PROVE Out(x)'
  BY <1>1, <1>5 DEF Out
<1>6. ASSUME NEW x \in Packets, Traffic[x].kind # "torn", Stored(s, x) \/ x = m
      PROVE  Out(x)' \/ Stored(t, x)
  <2>1. Stored(t, x) \/ (r.match # NoEntry /\ x \in {r.match.request, r.match.response})
    BY <1>2, <1>3, <1>6, MessageKept
  <2>2. ASSUME r.match # NoEntry, x \in {r.match.request, r.match.response} PROVE Out(x)'
    <3>1. new \in events' /\ x \in {new.entry.request, new.entry.response}
      BY <1>1, <1>2, <2>2
    <3> QED
      BY <3>1 DEF Out
  <2> QED
    BY <2>1, <2>2
<1>7. ASSUME NEW x \in batch, x # m PROVE Out(x)'
  BY <1>1, <1>4, <1>7 DEF Out
<1>8. ASSUME NEW x \in Packets, NEW i \in s.half[Traffic[x].from].buffered, i.pkt = x, x \notin batch
      PROVE  i \in t.half[Traffic[x].from].buffered
  <2>1. CASE Traffic[x].from = e
    BY <1>3, <1>8, <2>1 DEF HandedOn
  <2>2. CASE Traffic[x].from # e
    BY <1>3, <1>8, <2>2, PacketFacts DEF HandedOn
  <2> QED
    BY <2>1, <2>2
<1>9. ASSUME NEW x \in Packets, Traffic[x].kind # "torn", Out(x) \/ Has(s, x) \/ x \in batch
      PROVE  Out(x)' \/ Has(t, x)
  BY <1>5, <1>6, <1>7, <1>8, <1>9 DEF Has
<1> QED
  BY <1>9 DEF NoneLost

-----------------------------------------------------------------------------
(* A stream goes on: everything is still where it can be found.            *)

\* A request and its response are not both waiting for each other.
LEMMA PairApart ==
    ASSUME OrderlyWire, NEW c, NEW t, MsgOK(c, t), NEW q \in Packets, NEW r \in Packets,
           Pair(q, r), Stored(t, q), Stored(t, r)
    PROVE  FALSE
<1>1. /\ t.messages[Traffic[q].ack].request = q /\ t.messages[Traffic[r].seq].response = r
      /\ Traffic[q].ack = Traffic[r].seq
  BY Wire DEF Pair, Stored
<1>2. Traffic[q].ack \in Keys /\ q # Nil /\ r # Nil /\ NoEntry.request = Nil
  BY PacketFacts DEF Nil, NoEntry
<1> QED
  BY <1>1, <1>2 DEF MsgOK

LEMMA PoolKept ==
    ASSUME IInv, NEW c \in Conns, NEW t \in Streams, NEW k \in Counters, Keep(c, t, k), t.id # 0
    PROVE  /\ \A d \in Conns \ {c} : pool'[d] = pool[d] /\ (Live(d)' <=> Live(d))
           /\ Live(c)' <=> ~Complete(t)
           /\ Live(c)' => pool'[c] = t
           /\ stats'.total_streams = k.total_streams
<1>1. pool \in [Conns -> Streams]
  BY DEF IInv, TypeOK
<1>2. pool' = [pool EXCEPT ![c] = IF Complete(t) THEN NoStream ELSE t]
  BY DEF Keep
<1>3. pool'[c] = IF Complete(t) THEN NoStream ELSE t
  BY <1>1, <1>2
<1>4. \A d \in Conns \ {c} : pool'[d] = pool[d]
  BY <1>1, <1>2
<1>5. stats'.total_streams = k.total_streams
  BY DEF Keep, Counters
<1> QED
  BY <1>3, <1>4, <1>5, NoStreamType DEF Live

\* What the next stream of a connection is asked for.
Goes(c, t, k) ==
    /\ t \in Streams /\ k \in Counters /\ t.id # 0
    /\ k.total_streams = IF Live(c) THEN stats.total_streams ELSE stats.total_streams + 1
    /\ \A f \in Ends : t.half[f].closed => t.half[f].buffered = {}
    /\ k.total_streams <= 1 => Facing(c, t)

LEMMA WhereaboutsKept ==
    ASSUME OrderlyWire, IInv, Whereabouts, NEW c \in Conns, NEW t, NEW k, Goes(c, t, k),
           Keep(c, t, k), MsgOK(c, t), \A x \in Packets : Out(x) => Out(x)',
           \A x \in Packets \ Coming' : Traffic[x].conn # c => x \notin Coming,
           \A x \in Packets \ Coming' :
               k.total_streams <= 1 /\ Traffic[x].conn = c /\ Traffic[x].kind # "torn" => Out(x)' \/ Has(t, x)
    PROVE  Whereabouts'
<1>1. /\ \A d \in Conns \ {c} : pool'[d] = pool[d] /\ (Live(d)' <=> Live(d))
      /\ Live(c)' <=> ~Complete(t)
      /\ Live(c)' => pool'[c] = t
      /\ stats'.total_streams = k.total_streams
  BY PoolKept DEF Goes
<1>2. /\ k.total_streams \in Nat /\ stats.total_streams \in Nat /\ stats.total_streams <= k.total_streams
      /\ k.total_streams # 0
  <2>1. stats.total_streams \in Nat /\ k.total_streams \in Nat
    BY CounterFacts DEF IInv, TypeOK, Goes
  <2>2. pool[c].id <= stats.total_streams /\ pool[c].id \in Nat
    BY DEF IInv, TypeOK, StreamAccounting, Streams
  <2> QED
    BY <2>1, <2>2 DEF Goes, Live
<1> SUFFICES ASSUME stats'.total_streams <= 1
             PROVE  /\ \A d \in Conns : Live(d)' => Facing(d, pool'[d])
                    /\ \A p \in Packets \ Coming' :
                          Live(Traffic[p].conn)' /\ Traffic[p].kind # "torn"
                          => Out(p)' \/ Has(pool'[Traffic[p].conn], p)
                    /\ \A q, r \in Packets \ Coming' : ~Live(Traffic[q].conn)' => Parted(q, r)'
  BY <1>1, <1>2 DEF Whereabouts, Facing, Has, Stored
<1>3. k.total_streams <= 1 /\ stats.total_streams <= 1
  BY <1>1, <1>2
<1>4. /\ \A d \in Conns : Live(d) => Facing(d, pool[d])
      /\ \A p \in Packets \ Coming :
            Live(Traffic[p].conn) /\ Traffic[p].kind # "torn" => Out(p) \/ Has(pool[Traffic[p].conn], p)
      /\ \A q, r \in Packets \ Coming : ~Live(Traffic[q].conn) => Parted(q, r)
  BY <1>3 DEF Whereabouts
<1>5. ASSUME NEW d \in Conns, Live(d)' PROVE Facing(d, pool'[d])
  BY <1>1, <1>3, <1>4, <1>5 DEF Goes
<1>6. ASSUME NEW p \in Packets \ Coming', Live(Traffic[p].conn)', Traffic[p].kind # "torn"
      PROVE  Out(p)' \/ Has(pool'[Traffic[p].conn], p)
  <2>1. CASE Traffic[p].conn = c
    BY <1>1, <1>3, <1>6, <2>1
  <2>2. CASE Traffic[p].conn # c
    <3>1. Traffic[p].conn \in Conns
      BY PacketFacts
    <3> QED
      BY <1>1, <1>4, <1>6, <2>2, <3>1
  <2> QED
    BY <2>1, <2>2
<1>7. ASSUME NEW q \in Packets \ Coming', NEW r \in Packets \ Coming', ~Live(Traffic[q].conn)', Pair(q, r)
      PROVE  Out(q)' \/ Out(r)'
  <2>1. /\ Traffic[q].conn \in Conns /\ Traffic[r].conn = Traffic[q].conn
        /\ Traffic[q].kind # "torn" /\ Traffic[r].kind # "torn"
    BY <1>7, PacketFacts DEF Pair
  <2>2. CASE Traffic[q].conn = c
    <3>1. Complete(t)
      BY <1>1, <1>7, <2>2
    <3>2. \A f \in Ends : t.half[f].buffered = {}
      BY <3>1 DEF Complete, Goes
    <3>3. \A x \in {q, r} : Out(x)' \/ Has(t, x)
      BY <1>3, <2>1, <2>2
    <3>4. \A x \in {q, r} : Has(t, x) => Stored(t, x)
      BY <3>2, PacketFacts DEF Has
    <3>5. ~(Stored(t, q) /\ Stored(t, r))
      BY <1>7, PairApart
    <3> QED
      BY <3>3, <3>4, <3>5
  <2>3. CASE Traffic[q].conn # c
    <3>1. Parted(q, r)
      BY <1>1, <1>4, <1>7, <2>1, <2>3
    <3> QED
      BY <1>7, <3>1 DEF Parted
  <2> QED
    BY <2>2, <2>3
<1>8. \A q, r \in Packets \ Coming' : ~Live(Traffic[q].conn)' => Parted(q, r)'
  BY <1>7 DEF Parted, Pair
<1> QED
  BY <1>5, <1>6, <1>8

\* One stream goes on, the others stay as they are.
Moves(c, t, k) ==
    /\ Goes(c, t, k) /\ Keep(c, t, k) /\ MsgOK(c, t)
    /\ InLine' /\ Coming' \subseteq Coming /\ \A x \in Coming \ Coming' : Traffic[x].conn = c
    /\ \A x \in Packets : Out(x) => Out(x)'
    /\ k.total_streams <= 1 =>
          \A x \in Packets \ Coming' :
              Traffic[x].conn = c /\ Traffic[x].kind # "torn" => Out(x)' \/ Has(t, x)
    /\ phase' = phase
    /\ \A d \in Conns \ {c}, e \in Ends : <<d, e>> \in todo' <=> <<d, e>> \in todo
    /\ phase = "running" /\ ~Complete(t) => Fits(Coming', todo', c, t)

LEMMA StreamGoesOn ==
    ASSUME OrderlyWire, IInv, WhereInv, NEW c \in Conns, NEW t, NEW k, Moves(c, t, k)
    PROVE  WhereInv'
<1>0. /\ Goes(c, t, k) /\ Keep(c, t, k) /\ MsgOK(c, t) /\ InLine' /\ Coming' \subseteq Coming
      /\ phase' = phase /\ \A d \in Conns \ {c}, e \in Ends : <<d, e>> \in todo' <=> <<d, e>> \in todo
      /\ phase = "running" /\ ~Complete(t) => Fits(Coming', todo', c, t)
  BY DEF Moves
<1>1. Whereabouts'
  BY WhereaboutsKept DEF WhereInv, Moves
<1>2. /\ \A d \in Conns \ {c} : pool'[d] = pool[d] /\ (Live(d)' <=> Live(d))
      /\ Live(c)' <=> ~Complete(t)
      /\ Live(c)' => pool'[c] = t
  BY <1>0, PoolKept DEF Goes
<1>3. ASSUME phase' = "running", NEW d \in Conns, Live(d)' PROVE Fits(Coming', todo', d, pool'[d])
  <2>1. CASE d = c
    BY <1>0, <1>2, <1>3, <2>1
  <2>2. CASE d # c
    <3>1. pool'[d] = pool[d] /\ Fits(Coming, todo, d, pool[d])
      BY <1>0, <1>2, <1>3, <2>2 DEF WhereInv
    <3> QED
      BY <1>0, <2>2, <3>1, FitsLess
  <2> QED
    BY <2>1, <2>2
<1>4. ASSUME phase' = "running", NEW d \in Conns, Live(d)' PROVE Fits(Coming, todo, d, pool[d])'
  BY <1>3, <1>4 DEF Fits, Ordered, Aged, Shut, Visited, IdleFor
<1> QED
  BY <1>0, <1>1, <1>4 DEF WhereInv

-----------------------------------------------------------------------------
(* A packet.                                                               *)

\* Accept lets the packet through, and its direction is waiting for it.
LEMMA AcceptedKept ==
    ASSUME OrderlyWire, FInv, phase = "running", todo = {}, source # << >>, NEW v \in Verdicts,
           NEW item, item = Head(source), item.pkt \in Coming, \A x \in Coming : item.pkt <= x,
           NEW c, c = Traffic[item.pkt].conn, NEW a, a = Accepted(item, v)
    PROVE  /\ Fits(Coming, {}, c, a.stream)
           /\ a.stream.half[Traffic[item.pkt].from].idle <= item.age
           /\ a.ok /\ ~Stale(a.stream.half[Traffic[item.pkt].from], item.pkt)
           /\ a.stream \in Streams /\ StreamOK(c, a.stream) /\ a.stream.id # 0 /\ a.counters \in Counters
           /\ a.counters.total_streams = IF Live(c) THEN stats.total_streams ELSE stats.total_streams + 1
           /\ a.counters.total_streams <= 1 =>
                 /\ Facing(c, a.stream)
                 /\ \A x \in Packets \ Coming :
                       Traffic[x].conn = c /\ Traffic[x].kind # "torn" => Out(x) \/ Has(a.stream, x)
<1> DEFINE p == item.pkt
           s == Stream(p)
           t == a.stream
           e == Traffic[p].from
<1>1. IInv /\ item \in [pkt: Packets, age: 0 .. MaxAge] /\ p \in Packets
  BY TakenFacts DEF FInv, MInv
<1>2. c \in Conns /\ e \in Ends
  BY <1>1, PacketFacts
<1>3. KeepPre(c, t, a.counters) /\ SameButMarks(s, t)
  BY <1>1, AcceptPre
<1>4. s \in Streams /\ Live(c) => s = pool[c]
  BY <1>1, FactoryStream
<1>5. t = Accept(Touched(s, item), v, Counted(p)).stream
  BY DEF Accepted
<1>6. ~Live(c) => s = NewStream(Inc(stats.total_streams), e)
  BY DEF Stream
<1>7. Coming \in SUBSET Packets
  BY DEF Coming
<1>8. s \in Streams
  BY <1>1, FactoryStream
<1> HIDE DEF s, t, e
<1>9. /\ \A f \in Ends : t.half[f].idle \in Nat /\ s.half[f].idle \in Nat
                         /\ t.half[f].idle <= s.half[f].idle
      /\ t.half[e].idle <= item.age
  BY <1>1, <1>5, <1>8, AcceptedYounger DEF e
<1>10. Fits(Coming, {}, c, s)
  <2>1. CASE Live(c)
    BY <1>2, <1>4, <1>8, <2>1 DEF FInv, WhereInv
  <2>2. CASE ~Live(c)
    BY <1>6, <1>7, <2>2, NewFits
  <2> QED
    BY <2>1, <2>2
<1>11. Fits(Coming, {}, c, t)
  <2>1. \A f \in Ends : \A i \in s.half[f].buffered : i.age \in Nat
    BY <1>8, TimeFacts DEF Streams, Halves
  <2> QED
    BY <1>3, <1>7, <1>9, <1>10, <2>1, MarkedFits
<1>12. /\ t \in Streams /\ StreamOK(c, t) /\ a.counters \in Counters
       /\ a.counters.total_streams = IF Live(c) THEN stats.total_streams ELSE stats.total_streams + 1
       /\ t.id = IF Live(c) THEN pool[c].id ELSE stats.total_streams + 1
  BY <1>3 DEF KeepPre
<1>13. stats.total_streams \in Nat
  BY <1>1, CounterFacts DEF IInv, TypeOK
<1>14. t.id # 0
  BY <1>12, <1>13 DEF Live
<1>15. a.ok
  BY AllAccepted
<1>16. ~Stale(t.half[e], p)
  <2>1. ~t.half[e].closed
    BY <1>2, <1>7, <1>11 DEF Fits, Shut, e
  <2>2. t.half[e].nextSeq <= Traffic[p].seq
    BY <1>7, <1>11 DEF Fits, Ordered, e
  <2>3. /\ t.half[e].nextSeq \in Nat /\ Traffic[p].seq \in Nat /\ EndSeq(p) \in Nat
        /\ EndSeq(p) > Traffic[p].seq
    BY <1>1, <1>2, <1>12, PacketFacts DEF Streams, Halves
  <2> QED
    BY <2>1, <2>2, <2>3 DEF Stale
<1>17. /\ t.src = s.src /\ t.messages = s.messages
       /\ \A f \in Ends : t.half[f].buffered = s.half[f].buffered
  BY <1>3 DEF SameButMarks
<1>18. ASSUME a.counters.total_streams <= 1
       PROVE  /\ Facing(c, t)
              /\ \A x \in Packets \ Coming :
                    Traffic[x].conn = c /\ Traffic[x].kind # "torn" => Out(x) \/ Has(t, x)
  <2>1. CASE Live(c)
    <3>1. /\ Facing(c, s)
          /\ \A x \in Packets \ Coming :
                Traffic[x].conn = c /\ Traffic[x].kind # "torn" => Out(x) \/ Has(s, x)
      BY <1>2, <1>4, <1>8, <1>12, <1>18, <2>1 DEF FInv, WhereInv, Whereabouts
    <3>2. Facing(c, t)
      BY <1>17, <3>1 DEF Facing
    <3>3. ASSUME NEW x \in Packets, Has(s, x) PROVE Has(t, x)
      BY <1>17, <3>3, PacketFacts DEF Has, Stored
    <3> QED
      BY <3>1, <3>2, <3>3
  <2>2. CASE ~Live(c)
    <3>1. Coming = Packets
      BY <1>12, <1>13, <1>18, <2>2 DEF FInv, WhereInv, Whereabouts
    <3>2. t.src = e
      BY <1>6, <1>17, <2>2 DEF NewStream
    <3>3. \A q \in Packets :
              Traffic[p].conn = Traffic[q].conn /\ Traffic[q].kind # "torn"
              => (Traffic[q].kind = "request" <=> Traffic[q].from = e)
      BY <1>1, <3>1 DEF OrderlyWire, e
    <3>4. Facing(c, t)
      BY <3>2, <3>3 DEF Facing
    <3> QED
      BY <3>1, <3>4
  <2> QED
    BY <2>1, <2>2
<1> QED
  BY <1>9, <1>11, <1>12, <1>14, <1>15, <1>16, <1>18 DEF t, e

LEMMA PacketKept == ASSUME HttpOverTcp, OrderlyWire, Room, FInv, Packet PROVE WhereInv'
<1>1. PICK v \in Verdicts : \/ Drop(Head(source), Accepted(Head(source), v))
                            \/ Forward(Head(source), Accepted(Head(source), v))
                            \/ Queue(Head(source), Accepted(Head(source), v))
  BY DEF Packet
<1>2. PICK item, a : item = Head(source) /\ a = Accepted(item, v)
  OBVIOUS
<1>3. PICK p, c, e, s, k : /\ p = item.pkt /\ c = Traffic[p].conn /\ e = Traffic[p].from
                           /\ s = a.stream /\ k = a.counters
  OBVIOUS
<1>4. MInv /\ IInv /\ WhereInv /\ InLine
  BY DEF FInv, MInv, WhereInv
<1>5. source # << >> /\ phase = "running" /\ todo = {} /\ phase' = phase /\ todo' = todo
  BY DEF Packet
<1>6. /\ InLine' /\ p \in Coming /\ Coming' = Coming \ {p}
      /\ \A x \in Coming' : p < x
  BY <1>2, <1>3, <1>4, LinePacket
<1>7. item \in [pkt: Packets, age: 0 .. MaxAge] /\ p \in passed /\ p \in Packets
  BY <1>2, <1>3, <1>4, <1>5, TakenFacts
<1>8. c \in Conns /\ e \in Ends /\ p \in Nat
  BY <1>3, <1>7, PacketFacts
<1>9. \A x \in Coming : p <= x
  BY <1>6, <1>8
<1>10. /\ Fits(Coming, {}, c, s) /\ s.half[e].idle <= item.age
       /\ a.ok /\ ~Stale(s.half[e], p)
       /\ s \in Streams /\ StreamOK(c, s) /\ s.id # 0 /\ k \in Counters
       /\ k.total_streams = IF Live(c) THEN stats.total_streams ELSE stats.total_streams + 1
       /\ k.total_streams <= 1 =>
             /\ Facing(c, s)
             /\ \A x \in Packets \ Coming :
                   Traffic[x].conn = c /\ Traffic[x].kind # "torn" => Out(x) \/ Has(s, x)
  BY <1>2, <1>3, <1>5, <1>6, <1>9, AcceptedKept
<1>11. /\ KeepPre(c, s, k) /\ Good(events, c, s)
       /\ \A f \in Ends : Cardinality(s.half[f].buffered) + 1 < MaxPages
  BY <1>2, <1>3, <1>4, <1>5, AcceptedGood
<1>12. Coming \in SUBSET Packets /\ Coming' \in SUBSET Coming
  BY <1>6 DEF Coming
<1>13. \A x \in Packets \ Coming' : x \in Packets \ Coming \/ x = p
  BY <1>6
<1>14. CASE Forward(item, a)
  <2>1. PICK batch : BatchOK(c, s, e, batch, p) /\ Deliver(c, s, e, batch, p, k)
    BY <1>3, <1>4, <1>7, <1>11, <1>14, ForwardBatch
  <2>2. PICK t : t = Handed(s, e, batch, p)
    OBVIOUS
  <2>3. Paired(c, t, k) /\ t.id = s.id
    BY <1>8, <1>10, <1>11, <2>1, <2>2, DeliverMatches DEF BatchOK
  <2>4. Fits(Coming', {}, c, t)
    BY <1>6, <1>8, <1>10, <1>12, <2>1, <2>2, HandedFits
  <2>5. MsgOK(c, s) /\ MsgOK(c, t) /\ Keep(c, t, k) /\ t \in Streams
    BY <1>11, <2>3 DEF Paired, Good
  <2>6. ASSUME k.total_streams <= 1
        PROVE  /\ Facing(c, t)
               /\ \A x \in Packets \ Coming' :
                     Traffic[x].conn = c /\ Traffic[x].kind # "torn" => Out(x)' \/ Has(t, x)
    <3>1. Facing(c, s)
      BY <1>10, <2>6
    <3>2. NoneLost(s, batch, t)
      BY <1>8, <1>10, <2>1, <2>2, <2>5, <3>1, HandedKept
    <3>3. p \in batch /\ t.src = s.src
      BY <2>1, <2>2 DEF BatchOK, Handed, Streams
    <3>4. Facing(c, t)
      BY <3>1, <3>3 DEF Facing
    <3> QED
      BY <1>10, <1>13, <2>6, <3>2, <3>3, <3>4 DEF NoneLost
  <2>7. \A f \in Ends : t.half[f].closed => t.half[f].buffered = {}
    <3>1. HandedOn(s, e, batch, Last(batch), t)
      BY <1>8, <1>10, <2>1, <2>2, HandedHalves
    <3> QED
      BY <1>10, <3>1 DEF HandedOn, StreamOK, HalfOK
  <2>8. \A x \in Packets : Out(x) => Out(x)'
    <3>1. events \subseteq events' /\ swallowed \subseteq swallowed'
      BY <2>1 DEF Deliver
    <3> QED
      BY <3>1 DEF Out
  <2>9. Goes(c, t, k)
    BY <1>10, <2>3, <2>5, <2>6, <2>7 DEF Goes
  <2>10. Moves(c, t, k)
    BY <1>3, <1>5, <1>6, <1>12, <2>4, <2>5, <2>6, <2>8, <2>9 DEF Moves
  <2> QED
    BY <1>4, <1>8, <2>10, StreamGoesOn
<1>15. CASE Queue(item, a)
  <2>1. PICK t : t = Queued(s, item)
    OBVIOUS
  <2>2. Paired(c, t, k) /\ t.id = s.id /\ events' = events /\ swallowed' = swallowed
    BY <1>3, <1>4, <1>7, <1>11, <1>15, <2>1, QueueMatches
  <2>3. Fits(Coming', {}, c, t) /\ QueuedOn(s, e, p, t)
    <3>1. /\ s \in Streams /\ StreamOK(c, s) /\ Fits(Coming, {}, c, s) /\ s.half[e].idle <= item.age
          /\ p = item.pkt /\ c = Traffic[p].conn /\ e = Traffic[p].from
      BY <1>3, <1>10
    <3>2. p \in Coming /\ \A x \in Coming' : p < x
      BY <1>6
    <3> QED
      BY <1>7, <1>12, <2>1, <3>1, <3>2, QueuedFits
  <2>4. MsgOK(c, t) /\ Keep(c, t, k) /\ t \in Streams
    BY <2>2 DEF Paired, Good
  <2>5. \A x \in Packets : Out(x) => Out(x)'
    BY <2>2 DEF Out
  <2>6. ASSUME NEW x \in Packets, Has(s, x) PROVE Has(t, x)
    BY <2>3, <2>6, PacketFacts DEF Has, Stored, QueuedOn
  <2>7. Has(t, p)
    BY <1>3, <2>3 DEF Has, QueuedOn
  <2>8. ASSUME k.total_streams <= 1
        PROVE  /\ Facing(c, t)
               /\ \A x \in Packets \ Coming' :
                     Traffic[x].conn = c /\ Traffic[x].kind # "torn" => Out(x)' \/ Has(t, x)
    <3>1. Facing(c, t)
      BY <1>10, <2>3, <2>8 DEF Facing, QueuedOn
    <3> QED
      BY <1>10, <1>13, <2>5, <2>6, <2>7, <2>8, <3>1
  <2>9. Goes(c, t, k)
    BY <1>10, <2>2, <2>3, <2>4, <2>8 DEF Goes, QueuedOn
  <2>10. Moves(c, t, k)
    BY <1>3, <1>5, <1>6, <1>12, <2>3, <2>4, <2>5, <2>8, <2>9 DEF Moves
  <2> QED
    BY <1>4, <1>8, <2>10, StreamGoesOn
<1>16. ~Drop(item, a)
  BY <1>3, <1>10 DEF Drop
<1> QED
  BY <1>1, <1>2, <1>14, <1>15, <1>16

-----------------------------------------------------------------------------
(* The flush.                                                              *)

LEMMA LiveStream ==
    ASSUME FInv, NEW c \in Conns, Live(c), NEW s, s = pool[c]
    PROVE  /\ s \in Streams /\ StreamOK(c, s) /\ ~Complete(s) /\ s.id # 0 /\ stats \in Counters
           /\ Good(events, c, s) /\ MsgOK(c, s)
           /\ phase = "running" => Fits(Coming, todo, c, s)
           /\ stats.total_streams <= 1 =>
                 /\ Facing(c, s)
                 /\ \A x \in Packets \ Coming :
                       Traffic[x].conn = c /\ Traffic[x].kind # "torn" => Out(x) \/ Has(s, x)
<1>1. MInv /\ IInv /\ WhereInv
  BY DEF FInv, MInv
<1>2. s \in Streams /\ StreamOK(c, s) /\ ~Complete(s) /\ stats \in Counters
  BY <1>1 DEF IInv, TypeOK, PoolOK
<1>3. Good(events, c, s)
  BY <1>1 DEF MInv
<1>4. s.id # 0
  BY DEF Live
<1>5. phase = "running" => Fits(Coming, todo, c, s)
  BY <1>1 DEF WhereInv
<1>6. ASSUME stats.total_streams <= 1
      PROVE  /\ Facing(c, s)
             /\ \A x \in Packets \ Coming :
                   Traffic[x].conn = c /\ Traffic[x].kind # "torn" => Out(x) \/ Has(s, x)
  BY <1>1, <1>6 DEF WhereInv, Whereabouts
<1> QED
  BY <1>2, <1>3, <1>4, <1>5, <1>6 DEF Good

LEMMA FlushRunKept ==
    ASSUME HttpOverTcp, OrderlyWire, FInv, NEW c \in Conns, NEW e \in Ends, FlushRun(c, e)
    PROVE  WhereInv'
<1>1. MInv /\ IInv /\ WhereInv /\ InLine
  BY DEF FInv, MInv, WhereInv
<1>2. Live(c) /\ UNCHANGED <<passed, lost, source, todo, phase>>
  BY DEF FlushRun
<1>3. PICK s, k : s = pool[c] /\ k = stats
  OBVIOUS
<1>4. /\ s \in Streams /\ StreamOK(c, s) /\ ~Complete(s) /\ s.id # 0 /\ k \in Counters
      /\ Good(events, c, s) /\ MsgOK(c, s)
      /\ phase = "running" => Fits(Coming, todo, c, s)
      /\ k.total_streams <= 1 =>
            /\ Facing(c, s)
            /\ \A x \in Packets \ Coming :
                  Traffic[x].conn = c /\ Traffic[x].kind # "torn" => Out(x) \/ Has(s, x)
  BY <1>2, <1>3, LiveStream
<1>5. PICK batch, m : /\ BatchOK(c, s, e, batch, m) /\ Deliver(c, s, e, batch, m, k)
                      /\ m \in Buffered(s.half[e])
  BY <1>1, <1>3, <1>4, FlushBatch
<1>6. PICK t : t = Handed(s, e, batch, m)
  OBVIOUS
<1>7. Paired(c, t, k) /\ t.id = s.id
  BY <1>4, <1>5, <1>6, DeliverMatches DEF BatchOK
<1>8. InLine' /\ Coming' = Coming /\ Coming \in SUBSET Packets
  BY <1>1, <1>2, LineSame DEF Coming
<1>9. ASSUME phase = "running" PROVE Fits(Coming', todo', c, t)
  <2>1. Fits(Coming, todo, c, s)
    BY <1>4, <1>9
  <2>2. \A x \in Coming : SameWay(m, x) => m < x
    <3>1. Traffic[m].conn = c /\ Traffic[m].from = e
      BY <1>5 DEF BatchOK
    <3> QED
      BY <1>5, <2>1, <3>1 DEF SameWay, Buffered, Fits, Ordered
  <2>3. Coming \in SUBSET Coming
    OBVIOUS
  <2>4. Fits(Coming, todo, c, t)
    BY <1>4, <1>5, <1>6, <1>8, <2>1, <2>2, <2>3, HandedFits
  <2> QED
    BY <1>2, <1>8, <2>4
<1>10. MsgOK(c, t) /\ Keep(c, t, k) /\ t \in Streams
  BY <1>7 DEF Paired, Good
<1>11. ASSUME k.total_streams <= 1
       PROVE  /\ Facing(c, t)
              /\ \A x \in Packets \ Coming' :
                    Traffic[x].conn = c /\ Traffic[x].kind # "torn" => Out(x)' \/ Has(t, x)
  <2>1. Facing(c, s)
    BY <1>4, <1>11
  <2>2. NoneLost(s, batch, t)
    BY <1>4, <1>5, <1>6, <2>1, HandedKept
  <2>3. t.src = s.src
    BY <1>4, <1>6 DEF Handed, Streams
  <2>4. Facing(c, t)
    BY <2>1, <2>3 DEF Facing
  <2> QED
    BY <1>4, <1>8, <1>11, <2>2, <2>4 DEF NoneLost
<1>12. \A f \in Ends : t.half[f].closed => t.half[f].buffered = {}
  <2>1. HandedOn(s, e, batch, Last(batch), t)
    BY <1>4, <1>5, <1>6, HandedHalves
  <2> QED
    BY <1>4, <2>1 DEF HandedOn, StreamOK, HalfOK
<1>13. \A x \in Packets : Out(x) => Out(x)'
  <2>1. events \subseteq events' /\ swallowed \subseteq swallowed'
    BY <1>5 DEF Deliver
  <2> QED
    BY <2>1 DEF Out
<1>14. Goes(c, t, k)
  BY <1>2, <1>3, <1>4, <1>7, <1>10, <1>11, <1>12 DEF Goes
<1>15. Moves(c, t, k)
  BY <1>2, <1>8, <1>9, <1>10, <1>11, <1>13, <1>14 DEF Moves
<1> QED
  BY <1>1, <1>15, StreamGoesOn

LEMMA CloseHalfKept ==
    ASSUME HttpOverTcp, OrderlyWire, FInv, NEW c \in Conns, NEW e \in Ends, CloseHalf(c, e)
    PROVE  WhereInv'
<1>1. MInv /\ IInv /\ WhereInv /\ InLine
  BY DEF FInv, MInv, WhereInv
<1>2. PICK s, k : s = pool[c] /\ k = stats
  OBVIOUS
<1>3. /\ Live(c) /\ <<c, e>> \in todo /\ todo' = todo \ {<<c, e>>} /\ DueForClose(s, s.half[e])
      /\ UNCHANGED <<passed, lost, source, phase, events, swallowed>>
  BY <1>2 DEF CloseHalf, Turn
<1>4. /\ s \in Streams /\ StreamOK(c, s) /\ s.id # 0 /\ k \in Counters
      /\ Good(events, c, s)
      /\ phase = "running" => Fits(Coming, todo, c, s)
      /\ k.total_streams <= 1 =>
            /\ Facing(c, s)
            /\ \A x \in Packets \ Coming :
                  Traffic[x].conn = c /\ Traffic[x].kind # "torn" => Out(x) \/ Has(s, x)
  BY <1>2, <1>3, LiveStream
<1>5. PICK t : t = ClosedIn(s, e)
  OBVIOUS
<1>6. Paired(c, t, k) /\ t.id = s.id
  BY <1>1, <1>2, <1>4, <1>5, CloseHalfMatches
<1>7. InLine' /\ Coming' = Coming /\ Coming \in SUBSET Packets
  BY <1>1, <1>3, LineSame DEF Coming
<1>8. s.half[e].buffered = {} /\ (phase = "running" => IdleFor(s) > CloseTimeout)
  BY <1>3 DEF DueForClose
<1>9. phase = "running" /\ ~Complete(t) => Fits(Coming', todo', c, t)
  BY <1>3, <1>4, <1>5, <1>7, <1>8, ClosedFits
<1>10. MsgOK(c, t) /\ Keep(c, t, k) /\ t \in Streams
  BY <1>6 DEF Paired, Good
<1>11. /\ t.src = s.src /\ t.messages = s.messages
       /\ \A f \in Ends : s.half[f].buffered \subseteq t.half[f].buffered
       /\ \A f \in Ends : t.half[f].closed => t.half[f].buffered = {}
  <2>1. s.half \in [Ends -> Halves]
    BY <1>4 DEF Streams
  <2>2. /\ t.src = s.src /\ t.messages = s.messages
        /\ t.half = [s.half EXCEPT ![e] = Closed(s.half[e])]
    BY <1>4, <1>5 DEF ClosedIn, Streams
  <2>3. /\ t.half[e] = Closed(s.half[e]) /\ \A f \in Ends \ {e} : t.half[f] = s.half[f]
        /\ s.half[e] \in Halves
    BY <2>1, <2>2
  <2>4. t.half[e].buffered = {}
    BY <2>3, ClosedHalf
  <2> QED
    BY <1>4, <1>8, <2>2, <2>3, <2>4 DEF StreamOK, HalfOK
<1>12. \A x \in Packets : Out(x) => Out(x)'
  BY <1>3 DEF Out
<1>13. ASSUME k.total_streams <= 1
       PROVE  /\ Facing(c, t)
              /\ \A x \in Packets \ Coming' :
                    Traffic[x].conn = c /\ Traffic[x].kind # "torn" => Out(x)' \/ Has(t, x)
  <2>1. Facing(c, t)
    BY <1>4, <1>11, <1>13 DEF Facing
  <2>2. ASSUME NEW x \in Packets, Has(s, x) PROVE Has(t, x)
    BY <1>11, <2>2, PacketFacts DEF Has, Stored
  <2> QED
    BY <1>4, <1>7, <1>12, <1>13, <2>1, <2>2
<1>14. Goes(c, t, k)
  BY <1>2, <1>3, <1>4, <1>6, <1>10, <1>11, <1>13 DEF Goes
<1>15. Moves(c, t, k)
  BY <1>3, <1>7, <1>9, <1>10, <1>12, <1>13, <1>14 DEF Moves
<1> QED
  BY <1>1, <1>15, StreamGoesOn

\* Steps that hand nothing over.
Alike(s, t) ==
    /\ t.src = s.src /\ t.messages = s.messages
    /\ \A e \in Ends : \A i \in s.half[e].buffered : \E j \in t.half[e].buffered : j.pkt = i.pkt

LEMMA QuietKept ==
    ASSUME WhereInv, InLine', Coming' = Coming, UNCHANGED <<events, swallowed, stats>>,
           \A d \in Conns : (Live(d)' <=> Live(d)) /\ (Live(d) => Alike(pool[d], pool'[d])),
           phase' = "running" => \A d \in Conns : Live(d) => Fits(Coming, todo', d, pool'[d])
    PROVE  WhereInv'
<1>1. \A x \in Packets : Out(x)' <=> Out(x)
  BY DEF Out
<1>2. ASSUME NEW d \in Conns, Live(d), NEW x \in Packets, Has(pool[d], x) PROVE Has(pool'[d], x)
  BY <1>2, PacketFacts DEF Has, Stored, Alike
<1>3. ASSUME NEW d \in Conns, Live(d), Facing(d, pool[d]) PROVE Facing(d, pool'[d])
  BY <1>3 DEF Facing, Alike
<1>4. Whereabouts'
  <2> SUFFICES ASSUME stats'.total_streams <= 1
               PROVE  /\ \A d \in Conns : Live(d)' => Facing(d, pool'[d])
                      /\ \A p \in Packets \ Coming' :
                            Live(Traffic[p].conn)' /\ Traffic[p].kind # "torn"
                            => Out(p)' \/ Has(pool'[Traffic[p].conn], p)
                      /\ \A q, r \in Packets \ Coming' : ~Live(Traffic[q].conn)' => Parted(q, r)'
    BY DEF WhereInv, Whereabouts, Facing, Has, Stored
  <2>1. /\ \A d \in Conns : Live(d) => Facing(d, pool[d])
        /\ \A p \in Packets \ Coming :
              Live(Traffic[p].conn) /\ Traffic[p].kind # "torn" => Out(p) \/ Has(pool[Traffic[p].conn], p)
        /\ \A q, r \in Packets \ Coming : ~Live(Traffic[q].conn) => Parted(q, r)
    BY DEF WhereInv, Whereabouts
  <2>2. \A p \in Packets : Traffic[p].conn \in Conns
    BY PacketFacts
  <2>3. \A q, r \in Packets : Parted(q, r) => Parted(q, r)'
    BY <1>1 DEF Parted, Pair
  <2> QED
    BY <1>1, <1>2, <1>3, <2>1, <2>2, <2>3
<1>5. ASSUME phase' = "running", NEW d \in Conns, Live(d)' PROVE Fits(Coming, todo, d, pool[d])'
  <2>1. Fits(Coming', todo', d, pool'[d])
    BY <1>5
  <2> QED
    BY <2>1 DEF Fits, Ordered, Aged, Shut, Visited, IdleFor
<1> QED
  BY <1>4, <1>5 DEF WhereInv

\* A flush leaves a direction open only while its connection is not idle.
LEMMA NotDue ==
    ASSUME NEW s \in Streams, Aged(s), phase = "running", NEW e \in Ends,
           ~DueForFlush(s.half[e]), ~DueForClose(s, s.half[e])
    PROVE  IdleFor(s) <= CloseTimeout
<1> DEFINE h == s.half[e]
<1>1. /\ FlushTimeout \in Nat /\ CloseTimeout \in Nat /\ FlushTimeout <= CloseTimeout
  BY AssemblerConstants, Zenon
<1>2. /\ IdleFor(s) \in Nat /\ IdleFor(s) <= h.idle /\ h.idle \in Nat
      /\ \A i \in h.buffered : i.pkt \in Packets /\ i.age \in Nat /\ i.age >= h.idle
  <2>1. \A f \in Ends : s.half[f].idle \in Nat /\ s.half[f] \in Halves
    BY TimeFacts DEF Streams, Halves
  <2>2. IdleFor(s) <= h.idle
    BY <2>1 DEF IdleFor, Ends
  <2>3. \A i \in h.buffered : i.pkt \in Packets /\ i.age \in Nat
    BY <2>1, TimeFacts DEF Halves
  <2> QED
    BY <2>1, <2>2, <2>3, IdleType DEF Aged
<1>3. CASE h.buffered = {}
  BY <1>1, <1>2, <1>3 DEF DueForClose
<1>4. CASE h.buffered # {}
  <2>1. Buffered(h) \in SUBSET Packets /\ Buffered(h) # {}
    BY <1>2, <1>4 DEF Buffered
  <2>2. First(Buffered(h)) \in Buffered(h)
    BY <2>1, FirstIn
  <2>3. PICK i \in h.buffered : i.pkt = First(Buffered(h))
    BY <2>2 DEF Buffered
  <2>4. ~(i.age > FlushTimeout)
    BY <1>4, <2>3 DEF DueForFlush
  <2> QED
    BY <1>1, <1>2, <2>4
<1> QED
  BY <1>3, <1>4

-----------------------------------------------------------------------------
(* The other steps of the assembler.                                       *)

\* The clock ages what waits and the connection alike.
LEMMA OlderFits ==
    ASSUME NEW c, NEW s \in Streams, StreamOK(c, s), NEW coming \in SUBSET Packets, Fits(coming, {}, c, s),
           NEW t, t = [s EXCEPT !.half = [e \in Ends |-> OlderHalf(@[e])]]
    PROVE  Fits(coming, {}, c, t) /\ Alike(s, t)
<1> DEFINE g == [e \in Ends |-> OlderHalf(s.half[e])]
<1>1. s.half \in [Ends -> Halves]
  BY DEF Streams
<1>2. t = [s EXCEPT !.half = g]
  BY DEF Streams
<1>3. t.half = g /\ t.src = s.src /\ t.messages = s.messages
  BY <1>2 DEF Streams
<1>4. ASSUME NEW e \in Ends
      PROVE  /\ t.half[e].nextSeq = s.half[e].nextSeq /\ t.half[e].closed = s.half[e].closed
             /\ t.half[e].idle = Older(s.half[e].idle) /\ s.half[e].idle \in Nat
             /\ t.half[e].buffered = {OlderItem(i) : i \in s.half[e].buffered}
             /\ \A i \in s.half[e].buffered : /\ i.age \in Nat /\ OlderItem(i).pkt = i.pkt
                                              /\ OlderItem(i).age = Older(i.age)
  <2> DEFINE h == s.half[e]
  <2>1. t.half[e] = OlderHalf(h) /\ h \in Halves
    BY <1>1, <1>3
  <2> HIDE DEF h
  <2>2. /\ OlderHalf(h).nextSeq = h.nextSeq /\ OlderHalf(h).closed = h.closed
        /\ OlderHalf(h).idle = Older(h.idle)
        /\ OlderHalf(h).buffered = {OlderItem(i) : i \in h.buffered}
    BY <2>1 DEF OlderHalf, Halves
  <2>3. h.idle \in Nat /\ h.buffered \subseteq [pkt: Packets, age: 0 .. MaxAge]
    BY <2>1, TimeFacts DEF Halves
  <2>4. \A i \in h.buffered : i.age \in Nat /\ OlderItem(i).age = Older(i.age)
    BY <2>3, TimeFacts DEF OlderItem
  <2>5. \A i \in h.buffered : OlderItem(i).pkt = i.pkt
    BY <2>3, OlderType
  <2> QED
    BY <2>1, <2>2, <2>3, <2>4, <2>5 DEF h
<1>5. ASSUME NEW e \in Ends, NEW i \in t.half[e].buffered
      PROVE  \E j \in s.half[e].buffered : i = OlderItem(j)
  <2>1. t.half[e].buffered = {OlderItem(j) : j \in s.half[e].buffered}
    BY <1>4
  <2> QED
    BY <2>1
<1>6. Ordered(coming, c, t)
  <2> SUFFICES ASSUME NEW x \in coming, Traffic[x].conn = c
               PROVE  /\ t.half[Traffic[x].from].nextSeq <= Traffic[x].seq
                      /\ \A i \in t.half[Traffic[x].from].buffered : i.pkt < x
    BY DEF Ordered
  <2>1. Traffic[x].from \in Ends
    BY PacketFacts
  <2>2. /\ s.half[Traffic[x].from].nextSeq <= Traffic[x].seq
        /\ \A i \in s.half[Traffic[x].from].buffered : i.pkt < x
    BY DEF Fits, Ordered
  <2>3. \A i \in t.half[Traffic[x].from].buffered :
            \E j \in s.half[Traffic[x].from].buffered : i.pkt = j.pkt
    <3> SUFFICES ASSUME NEW e \in Ends, NEW i \in t.half[e].buffered
                 PROVE  \E j \in s.half[e].buffered : i.pkt = j.pkt
      BY <2>1
    <3>1. PICK j \in s.half[e].buffered : i = OlderItem(j)
      BY <1>5
    <3>2. OlderItem(j).pkt = j.pkt
      BY <1>4
    <3> QED
      BY <3>1, <3>2
  <2> QED
    BY <1>4, <2>1, <2>2, <2>3
<1>7. Aged(t)
  <2> SUFFICES ASSUME NEW e \in Ends, NEW i \in t.half[e].buffered PROVE i.age >= t.half[e].idle
    BY DEF Aged
  <2>1. PICK j \in s.half[e].buffered : i = OlderItem(j)
    BY <1>5
  <2>2. j.age >= s.half[e].idle
    BY DEF Fits, Aged
  <2>3. j.age \in Nat /\ s.half[e].idle \in Nat /\ i.age = Older(j.age)
    BY <1>4, <2>1
  <2>4. Older(j.age) >= Older(s.half[e].idle)
    BY <2>2, <2>3, TimeFacts DEF Older
  <2> QED
    BY <1>4, <2>3, <2>4
<1>8. Shut(coming, {}, c, t) /\ Visited({}, c, t)
  BY <1>4 DEF Fits, Shut, Visited
<1>9. Alike(s, t)
  BY <1>3, <1>4 DEF Alike
<1> QED
  BY <1>6, <1>7, <1>8, <1>9 DEF Fits

LEMMA TickKept == ASSUME FInv, Tick PROVE WhereInv'
<1>1. MInv /\ IInv /\ WhereInv /\ InLine
  BY DEF FInv, MInv, WhereInv
<1>2. /\ todo = {} /\ phase = "running" /\ todo' = todo /\ UNCHANGED <<events, swallowed, stats>>
      /\ pool' = [c \in Conns |-> IF Live(c)
                                  THEN [pool[c] EXCEPT !.half = [e \in Ends |-> OlderHalf(@[e])]]
                                  ELSE NoStream]
  BY DEF Tick
<1>3. InLine' /\ Coming' = Coming /\ Coming \in SUBSET Packets
  BY <1>1, LineTick DEF Coming
<1>4. ASSUME NEW d \in Conns, Live(d)
      PROVE  Live(d)' /\ Alike(pool[d], pool'[d]) /\ Fits(Coming, {}, d, pool'[d])
  <2>1. PICK s : s = pool[d]
    OBVIOUS
  <2>2. PICK t : t = [s EXCEPT !.half = [e \in Ends |-> OlderHalf(@[e])]]
    OBVIOUS
  <2>3. s \in Streams /\ StreamOK(d, s) /\ s.id # 0 /\ Fits(Coming, {}, d, s)
    BY <1>2, <1>4, <2>1, LiveStream
  <2>4. Fits(Coming, {}, d, t) /\ Alike(s, t)
    BY <1>3, <2>2, <2>3, OlderFits
  <2>5. pool'[d] = t
    BY <1>2, <1>4, <2>1, <2>2
  <2>6. t.id = s.id
    BY <2>2, <2>3, OlderStream
  <2> QED
    BY <2>1, <2>3, <2>4, <2>5, <2>6 DEF Live
<1>5. ASSUME NEW d \in Conns, ~Live(d) PROVE ~Live(d)'
  <2>1. pool'[d] = NoStream
    BY <1>2, <1>5
  <2> QED
    BY <2>1, NoStreamType DEF Live
<1> QED
  BY <1>1, <1>2, <1>3, <1>4, <1>5, QuietKept

LEMMA CaptureKept == ASSUME OrderlyWire, FInv, NEW p \in Packets, Capture(p) PROVE WhereInv'
<1>1. MInv /\ IInv /\ WhereInv /\ InLine
  BY DEF FInv, MInv, WhereInv
<1>2. UNCHANGED <<pool, todo, phase, stats, events, swallowed>>
  BY DEF Capture
<1>3. InLine' /\ Coming' = Coming
  BY <1>1, LineCapture
<1>4. \A d \in Conns : (Live(d)' <=> Live(d)) /\ Alike(pool[d], pool'[d])
  BY <1>2 DEF Live, Alike
<1>5. phase' = "running" => \A d \in Conns : Live(d) => Fits(Coming, todo', d, pool'[d])
  BY <1>1, <1>2 DEF WhereInv
<1> QED
  BY <1>1, <1>2, <1>3, <1>4, <1>5, QuietKept

\* The pool is as it was, and what fits the old round of visits fits the new one.
LEMMA RoundKept ==
    ASSUME FInv, UNCHANGED <<passed, lost, source, pool, stats, events, swallowed>>,
           phase' = "running" => \A d \in Conns : Live(d) => Fits(Coming, todo', d, pool[d])
    PROVE  WhereInv'
<1>1. WhereInv /\ InLine
  BY DEF FInv, WhereInv
<1>2. InLine' /\ Coming' = Coming
  BY <1>1, LineSame
<1>3. \A d \in Conns : (Live(d)' <=> Live(d)) /\ Alike(pool[d], pool'[d])
  BY DEF Live, Alike
<1> QED
  BY <1>1, <1>2, <1>3, QuietKept

LEMMA BeginFlushKept == ASSUME FInv, BeginFlush PROVE WhereInv'
<1>1. /\ todo = {} /\ phase = "running" /\ todo' = Directions
      /\ UNCHANGED <<passed, lost, source, pool, phase, stats, events, swallowed>>
  BY DEF BeginFlush
<1>2. ASSUME NEW d \in Conns, Live(d) PROVE Fits(Coming, todo', d, pool[d])
  <2>1. Fits(Coming, {}, d, pool[d])
    BY <1>1, <1>2 DEF FInv, WhereInv
  <2>2. \A e \in Ends : <<d, e>> \in todo'
    BY <1>1, <1>2 DEF Directions
  <2> QED
    BY <2>1, <2>2 DEF Fits, Shut, Visited
<1> QED
  BY <1>1, <1>2, RoundKept

LEMMA NextHalfKept ==
    ASSUME FInv, NEW c \in Conns, NEW e \in Ends, NextHalf(c, e) PROVE WhereInv'
<1>1. /\ <<c, e>> \in todo /\ todo' = todo \ {<<c, e>>}
      /\ \/ ~Live(c) \/ pool[c].half[e].closed
         \/ ~DueForFlush(pool[c].half[e]) /\ ~DueForClose(pool[c], pool[c].half[e])
      /\ UNCHANGED <<passed, lost, source, pool, phase, stats, events, swallowed>>
  BY DEF NextHalf, Turn
<1>2. ASSUME phase = "running", NEW d \in Conns, Live(d) PROVE Fits(Coming, todo', d, pool[d])
  <2>1. PICK s : s = pool[d]
    OBVIOUS
  <2>2. s \in Streams /\ ~Complete(s) /\ Fits(Coming, todo, d, s)
    BY <1>2, <2>1, LiveStream
  <2>3. CASE d = c
    <3>1. s.half[e].closed \/ IdleFor(s) <= CloseTimeout
      <4>1. Aged(s)
        BY <2>2 DEF Fits
      <4> QED
        BY <1>1, <1>2, <2>1, <2>2, <2>3, <4>1, NotDue
    <3> QED
      BY <1>1, <2>1, <2>2, <2>3, <3>1, NextFits
  <2>4. CASE d # c
    <3>1. \A f \in Ends : <<d, f>> \in todo' <=> <<d, f>> \in todo
      BY <1>1, <2>4
    <3>2. Coming \in SUBSET Coming
      OBVIOUS
    <3> QED
      BY <2>1, <2>2, <3>1, <3>2, FitsLess
  <2> QED
    BY <2>3, <2>4
<1> QED
  BY <1>1, <1>2, RoundKept

-----------------------------------------------------------------------------
(* The invariant.                                                          *)

LEMMA FInvInit == Init => FInv
<1> SUFFICES ASSUME Init PROVE FInv
  OBVIOUS
<1>1. MInv
  BY MInvInit
<1>2. /\ passed = {} /\ lost = {} /\ source = << >> /\ pool = [c \in Conns |-> NoStream]
      /\ stats.total_streams = 0 /\ DOMAIN source = {}
  BY DEF Init
<1>3. InLine
  BY <1>2 DEF InLine
<1>4. Coming = Packets
  BY <1>2 DEF Coming, Taken
<1>5. \A c \in Conns : ~Live(c)
  BY <1>2, NoStreamType DEF Live
<1> QED
  BY <1>1, <1>2, <1>3, <1>4, <1>5 DEF FInv, WhereInv, Whereabouts

LEMMA FInvNext == ASSUME HttpOverTcp, OrderlyWire, Room, FInv, [Next]_vars PROVE FInv'
<1>1. MInv'
  BY MInvNext DEF FInv
<1>2. WhereInv'
  <2>1. CASE \E p \in Packets : Capture(p) \/ Lose(p)
    BY <2>1, CaptureKept, Wire DEF Lose
  <2>2. CASE Tick
    BY <2>2, TickKept
  <2>3. CASE Packet
    BY <2>3, PacketKept
  <2>4. CASE BeginFlush
    BY <2>4, BeginFlushKept
  <2>5. CASE FlushStep
    <3>1. PICK c \in Conns, e \in Ends : FlushRun(c, e) \/ CloseHalf(c, e) \/ NextHalf(c, e)
      BY <2>5 DEF FlushStep
    <3> QED
      BY <3>1, FlushRunKept, CloseHalfKept, NextHalfKept
  <2>6. CASE BeginStop \/ Stopped
    <3>1. /\ phase' # "running"
          /\ UNCHANGED <<passed, lost, source, pool, stats, events, swallowed>>
      BY <2>6 DEF BeginStop, Stopped
    <3> QED
      BY <3>1, RoundKept
  <2>7. CASE UNCHANGED vars
    <3>1. UNCHANGED <<passed, lost, source, pool, todo, phase, stats, events, swallowed>>
      BY <2>7 DEF vars
    <3>2. phase' = "running" => \A d \in Conns : Live(d) => Fits(Coming, todo', d, pool[d])
      BY <3>1 DEF FInv, WhereInv
    <3> QED
      BY <3>1, <3>2, RoundKept
  <2> QED
    BY <2>1, <2>2, <2>3, <2>4, <2>5, <2>6, <2>7 DEF Next
<1> QED
  BY <1>1, <1>2 DEF FInv

(* Where every message of an orderly wire is, at every moment: still to    *)
(* come, in its direction's buffer, with the matcher, in an event or       *)
(* swallowed in a batch; and no direction is closed before its last packet *)
(* but by a flush that closes the other one too.                           *)
THEOREM MessagesAccountedFor == ASSUME HttpOverTcp, OrderlyWire PROVE Spec /\ []Room => []FInv
<1>1. FInv /\ Room /\ [Next]_vars => FInv'
  BY FInvNext
<1> QED
  BY FInvInit, <1>1, PTL DEF Spec

-----------------------------------------------------------------------------
(* The exit.                                                               *)

LEMMA EndedNext ==
    ASSUME AInv, Ended, [AgentNext]_agentVars PROVE Ended'
<1>1. phase = "stopped" => phase' = "stopped"
  <2>1. [Next]_vars
    BY AgentStep
  <2> QED
    BY <2>1 DEF Next, vars, Capture, Lose, Tick, Packet, BeginFlush, FlushStep, FlushRun, CloseHalf,
                NextHalf, BeginStop, Stopped
<1>2. assembler' = "ended" => assembler = "ended" \/ phase' = "stopped"
  <2>1. CASE TakePacket \/ TakeTick \/ TakeDone
    BY <2>1 DEF TakePacket, TakeTick, TakeDone, P!BeginWork, P!AssemblerSeesDone
  <2>2. CASE Flush \/ Outside
    BY <2>2 DEF Flush, Outside, pipelineVars
  <2>3. CASE TakeStats \/ Send \/ Finished
    BY <2>3 DEF TakeStats, Send, Finished, P!LogStats, P!MakeEvent, P!EndWork
  <2>4. CASE Return
    BY <2>4 DEF Return, Stopped
  <2>5. CASE Others
    BY <2>5 DEF Others, P!Main, P!StartHandler, P!StartAssembler, P!StartupFails, P!Signal,
                P!WaitReturns, P!Close, P!Exit, P!Handler, P!Receive, P!HandleEvent,
                P!HandlerSeesDone, P!ExporterSends, P!SendEvent, P!assemblerVars
  <2>6. CASE UNCHANGED agentVars
    BY <2>6 DEF agentVars, pipelineVars
  <2> QED
    BY <2>1, <2>2, <2>3, <2>4, <2>5, <2>6 DEF AgentNext
<1> QED
  BY <1>1, <1>2 DEF Ended

\* What was seen of a cycle before the exit, and where it is after it.
LEMMA NothingForgotten ==
    ASSUME FInv, AInv, Ended, PP!LossAtExitBounded PROVE ForgottenAtExit
<1> SUFFICES ASSUME main = "exited", ctxDone, stats.total_streams <= 1,
                    NEW q \in Packets, NEW r \in Packets, Pair(q, r), Taken(q), Taken(r),
                    {q, r} \cap swallowed = {}
             PROVE  \E i \in DOMAIN log :
                        /\ CycleAt(i) = Traffic[q].cycle
                        /\ \/ i \in accepted \cup refused
                           \/ \E k \in DOMAIN eventsChan : eventsChan[k] = i
  BY DEF ForgottenAtExit
<1>1. assembler = "ended"
  BY DEF AInv, PP!IInv, PP!Phases
<1>2. found = NoEvent /\ phase = "stopped"
  BY <1>1 DEF AInv, Attended, Ended
<1>3. ~Live(Traffic[q].conn)
  <2>1. LiveConns = {}
    BY <1>2 DEF FInv, MInv, IInv, Stopping
  <2> QED
    BY <2>1, PacketFacts DEF LiveConns
<1>4. Out(q) \/ Out(r)
  <2>1. q \in Packets \ Coming /\ r \in Packets \ Coming
    BY DEF Coming
  <2> QED
    BY <1>3, <2>1 DEF FInv, WhereInv, Whereabouts, Parted
<1>5. PICK ev \in events : q \in {ev.entry.request, ev.entry.response}
                           \/ r \in {ev.entry.request, ev.entry.response}
  BY <1>4 DEF Out
<1>6. Traffic[ev.entry.request].cycle = Traffic[q].cycle
  <2>1. Traffic[ev.entry.request].cycle = Traffic[ev.entry.response].cycle
    BY DEF FInv, MInv, OneCycle
  <2> QED
    BY <1>5, <2>1 DEF Pair
<1>7. PICK i \in DOMAIN log : log[i] = ev
  BY <1>2 DEF AInv, EveryMatchSentOnce
<1>8. i \in 1 .. made
  <2>1. log \in Seq(events) /\ Len(log) = made
    BY DEF AInv, EveryMatchSentOnce
  <2> QED
    BY <1>7, <2>1
<1>9. i \in accepted \cup refused \/ \E k \in 1 .. Len(eventsChan) : eventsChan[k] = i
  BY <1>8 DEF PP!LossAtExitBounded
<1>10. DOMAIN eventsChan = 1 .. Len(eventsChan)
  BY DEF AInv, PP!IInv, PP!TypeOK
<1> QED
  BY <1>6, <1>7, <1>9, <1>10 DEF CycleAt

(* A shutdown forgets what is left in the channel and nothing else: where  *)
(* packets came once, in order and accepted, every cycle of which the      *)
(* assembler took both messages from the source, and did not swallow one,  *)
(* has been handled or is one of the events left in the channel, whatever  *)
(* the sizes of the traffic and of the channel - whether the signal found  *)
(* it in a buffer, in the matcher, in parse's send or with the handler.    *)
THEOREM ShutdownForgetsNothingElse ==
    ASSUME HttpOverTcp, OrderlyWire PROVE AgentSpec /\ []Room => []ForgottenAtExit
<1>1. AgentSpec /\ []Room => []FInv
  BY AgentAssembles, MessagesAccountedFor, PTL
<1>2. AgentSpec => []Ended
  <2>1. AgentInit => Ended
    BY DEF AgentInit, P!Init, Ended
  <2>2. AInv /\ Ended /\ [AgentNext]_agentVars => Ended'
    BY EndedNext
  <2> QED
    BY AgentInvariance, <2>1, <2>2, PTL DEF AgentSpec
<1>3. AgentSpec => []PP!LossAtExitBounded
  <2>1. PP!Spec => []PP!LossAtExitBounded
    BY Constants, PP!BoundedLoss
  <2> QED
    BY AgentPipes, <2>1, PTL
<1>4. FInv /\ AInv /\ Ended /\ PP!LossAtExitBounded => ForgottenAtExit
  BY NothingForgotten
<1> QED
  BY AgentInvariance, <1>1, <1>2, <1>3, <1>4, PTL
=============================================================================
