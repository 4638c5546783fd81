--------------------------- MODULE MatchingProofs ---------------------------
(***************************************************************************)
(* The pairing of requests with responses, for every orderly traffic       *)
(* (HttpOverTcp) of any number of connections, whatever of it is lost,     *)
(* captured twice, overtaken, buffered or flushed, as long as the buffers  *)
(* have room for a page more (Room; at the limit ReassembledSG takes the   *)
(* id from the context of the packet that came too much).                  *)
(*                                                                         *)
(* The argument: a direction hands over every byte once and in order       *)
(* (SeqOK), so a message that comes to the matcher lies behind all that    *)
(* came before it.  Hence it finds under its id nothing or the other half  *)
(* of its own cycle (MsgOK), and the cycle of a new event is later than    *)
(* the cycles of all the stream's earlier events (EventsSeen).             *)
(***************************************************************************)
EXTENDS AgentProofs

\* Every direction has room for a page more.
Room == \A c \in Conns, e \in Ends : Cardinality(pool[c].half[e].buffered) + 1 < MaxPages

\* Packet p of direction e of the stream has been handed over, or it is too late for it.
Went(c, s, e, p) ==
    Traffic[p].conn = c /\ Traffic[p].from = e /\ EndSeq(p) <= s.half[e].nextSeq

(* A direction continues where a packet ended; what it buffers lies behind *)
(* that.                                                                   *)
SeqOK(c, s) ==
    \A e \in Ends :
        LET h == s.half[e]
        IN  /\ h.nextSeq # Unstarted =>
                  /\ \E l \in Packets : /\ Traffic[l].conn = c /\ Traffic[l].from = e
                                        /\ h.nextSeq = EndSeq(l)
                  /\ \A i \in h.buffered : h.nextSeq < Traffic[i.pkt].seq
            /\ h.nextSeq = Unstarted /\ StartAnywhere => h.buffered = {}

\* The request of an entry, under id k, came from the stream's client.
Asked(c, s, k, m) ==
    /\ m.request \in Packets /\ m.requestTimestamp = m.request
    /\ Traffic[m.request].kind = "request" /\ Traffic[m.request].ack = k
    /\ Went(c, s, s.src, m.request)

\* The response of an entry came from the other end.
Answered(c, s, k, m) ==
    /\ m.response \in Packets /\ m.responseTimestamp = m.response
    /\ Traffic[m.response].kind = "response" /\ Traffic[m.response].seq = k
    /\ \E e \in Ends \ {s.src} : Went(c, s, e, m.response)

\* A stored entry is one half of a cycle.
MsgOK(c, s) ==
    \A k \in Keys :
        \/ s.messages[k] = NoEntry
        \/ Asked(c, s, k, s.messages[k]) /\ s.messages[k].response = Nil
        \/ Answered(c, s, k, s.messages[k]) /\ s.messages[k].request = Nil

\* What the stream's events carry has been handed over.
EventsSeen(evs, c, s) ==
    \A ev \in evs : ev.stream = s.id =>
        /\ ev.conn = c /\ ev.src = s.src
        /\ Asked(c, s, ev.requestId, ev.entry) /\ Answered(c, s, ev.requestId, ev.entry)

Good(evs, c, s) == SeqOK(c, s) /\ MsgOK(c, s) /\ EventsSeen(evs, c, s)

\* What EventIsOneCycle says of one event, and that its messages are packets.
OneCycle(ev) ==
    LET q == ev.entry.request
        r == ev.entry.response
    IN  /\ q # Nil /\ r # Nil /\ q \in Packets /\ r \in Packets
        /\ Traffic[q].conn = ev.conn /\ Traffic[r].conn = ev.conn
        /\ Traffic[q].cycle = Traffic[r].cycle
        /\ ev.requestId = Traffic[q].ack /\ ev.requestId = Traffic[r].seq
        /\ ev.entry.requestTimestamp = q /\ ev.entry.responseTimestamp = r
        /\ ev.src = Traffic[q].from

MInv ==
    /\ IInv /\ CycleReportedOnce /\ \A ev \in events : OneCycle(ev)
    /\ \A c \in Conns : Live(c) => Good(events, c, pool[c])

-----------------------------------------------------------------------------
(* The traffic.                                                            *)

\* Of two packets of a direction one ends before the other begins, or they are one.
LEMMA Segments ==
    ASSUME HttpOverTcp, NEW p \in Packets, NEW q \in Packets, SameWay(p, q)
    PROVE  /\ Traffic[p].seq = Traffic[q].seq => EndSeq(p) = EndSeq(q)
           /\ Traffic[p].seq < Traffic[q].seq => EndSeq(p) <= Traffic[q].seq
<1>1. /\ Traffic[p].seq = Traffic[q].seq => Traffic[p].len = Traffic[q].len
      /\ Traffic[p].seq < Traffic[q].seq => EndSeq(p) <= Traffic[q].seq
  BY Zenon DEF HttpOverTcp
<1> QED
  BY <1>1 DEF EndSeq

LEMMA OneRequestAnId ==
    ASSUME HttpOverTcp, NEW p \in Packets, NEW q \in Packets, SameWay(p, q),
           Traffic[p].kind = "request", Traffic[q].kind = "request", Traffic[p].ack = Traffic[q].ack
    PROVE  Traffic[p].seq = Traffic[q].seq
BY Zenon DEF HttpOverTcp

LEMMA OneCycleAnId ==
    ASSUME HttpOverTcp, NEW p \in Packets, NEW q \in Packets,
           Traffic[p].conn = Traffic[q].conn, Traffic[p].from # Traffic[q].from,
           Traffic[p].kind = "request", Traffic[q].kind = "response", Traffic[p].ack = Traffic[q].seq
    PROVE  Traffic[p].cycle = Traffic[q].cycle
BY Zenon DEF HttpOverTcp

LEMMA CyclesInOrder ==
    ASSUME HttpOverTcp, NEW p \in Packets, NEW q \in Packets, SameWay(p, q),
           Traffic[p].kind = Traffic[q].kind, Traffic[p].seq < Traffic[q].seq
    PROVE  Traffic[p].cycle < Traffic[q].cycle
BY Zenon DEF HttpOverTcp

LEMMA CycleType == ASSUME HttpOverTcp, NEW p \in Packets PROVE Traffic[p].cycle \in Nat
BY Zenon DEF HttpOverTcp

-----------------------------------------------------------------------------
(* What is left of a buffer lies behind the run that was taken from it.    *)
LEMMA RunRest ==
    ASSUME NEW ps \in SUBSET Packets, NEW start \in Nat, NEW l \in Packets,
           l \in Run(ps, start) \/ EndSeq(l) = start,
           NEW i \in ps, i \notin Run(ps, start)
    PROVE  EndSeq(l) < Traffic[i].seq
<1>1. PICK x \in start .. Traffic[i].seq : ~Covers(ps, x)
  BY DEF Run
<1>2. /\ Traffic[i].seq \in Nat /\ EndSeq(i) \in Nat /\ EndSeq(i) > Traffic[i].seq
      /\ Traffic[l].seq \in Nat /\ EndSeq(l) \in Nat
  BY PacketFacts
<1>3. x \in Nat /\ start <= x /\ x < Traffic[i].seq
  BY <1>1, <1>2 DEF Covers
<1>4. EndSeq(l) <= x
  <2>1. CASE EndSeq(l) = start
    BY <1>3, <2>1
  <2>2. CASE l \in Run(ps, start)
    <3>1. l \in ps /\ \A y \in start .. Traffic[l].seq : Covers(ps, y)
      BY <2>2 DEF Run
    <3>2. ~(x \in start .. Traffic[l].seq)
      BY <1>1, <3>1
    <3>3. ~(Traffic[l].seq <= x /\ x < EndSeq(l))
      BY <1>1, <3>1 DEF Covers
    <3> QED
      BY <1>2, <1>3, <3>2, <3>3
  <2> QED
    BY <2>1, <2>2
<1> QED
  BY <1>2, <1>3, <1>4

(* The packet that a direction with its place known takes as the next one  *)
(* begins right there.                                                     *)
LEMMA NextBegins ==
    ASSUME HttpOverTcp, NEW p \in Packets, NEW l \in Packets, SameWay(l, p),
           NEW n, n = EndSeq(l), Traffic[p].seq <= n, ~(EndSeq(p) <= n)
    PROVE  n = Traffic[p].seq
<1>1. /\ Traffic[p].seq \in Nat /\ EndSeq(p) \in Nat /\ EndSeq(p) > Traffic[p].seq
      /\ Traffic[l].seq \in Nat /\ EndSeq(l) \in Nat /\ EndSeq(l) > Traffic[l].seq
  BY PacketFacts
<1>2. SameWay(p, l)
  BY DEF SameWay
<1>3. /\ Traffic[p].seq = Traffic[l].seq => EndSeq(p) = EndSeq(l)
      /\ Traffic[p].seq < Traffic[l].seq => EndSeq(p) <= Traffic[l].seq
  BY <1>2, Segments
<1>4. Traffic[l].seq < Traffic[p].seq => EndSeq(l) <= Traffic[p].seq
  BY Segments
<1> QED
  BY <1>1, <1>3, <1>4

-----------------------------------------------------------------------------
(* A stream whose directions have gone on knows at least what it knew.     *)

GoesOn(s, t) ==
    /\ t.src = s.src /\ t.id = s.id
    /\ \A e \in Ends : s.half[e].nextSeq <= t.half[e].nextSeq

LEMMA StillKnown ==
    ASSUME NEW c, NEW s \in Streams, NEW t \in Streams, GoesOn(s, t), NEW k, NEW m
    PROVE  /\ Asked(c, s, k, m) => Asked(c, t, k, m)
           /\ Answered(c, s, k, m) => Answered(c, t, k, m)
<1>1. ASSUME NEW e \in Ends, NEW p \in Packets, Went(c, s, e, p) PROVE Went(c, t, e, p)
  <2>1. s.half[e].nextSeq \in Nat /\ t.half[e].nextSeq \in Nat /\ EndSeq(p) \in Nat
    BY PacketFacts DEF Streams, Halves
  <2> QED
    BY <1>1, <2>1 DEF Went, GoesOn
<1>2. t.src = s.src /\ s.src \in Ends
  BY DEF GoesOn, Streams
<1> QED
  BY <1>1, <1>2 DEF Asked, Answered

LEMMA StillSeen ==
    ASSUME NEW c, NEW s \in Streams, NEW t \in Streams, GoesOn(s, t), EventsSeen(events, c, s)
    PROVE  EventsSeen(events, c, t)
BY StillKnown DEF EventsSeen, GoesOn

\* Neither Accept, nor the clock, nor a closing disturbs what a stream knows.
LEMMA SameIsGood ==
    ASSUME NEW c, NEW s \in Streams, NEW t \in Streams, GoesOn(s, t), Good(events, c, s),
           t.messages = s.messages,
           \A e \in Ends : t.half[e].nextSeq = s.half[e].nextSeq,
           \A e \in Ends : \A i \in t.half[e].buffered :
               \E j \in s.half[e].buffered : i.pkt = j.pkt
    PROVE  Good(events, c, t)
<1>1. EventsSeen(events, c, t)
  BY StillSeen DEF Good
<1>2. MsgOK(c, t)
  BY StillKnown DEF Good, MsgOK
<1>3. SeqOK(c, t)
  <2> SUFFICES ASSUME NEW e \in Ends
               PROVE  /\ t.half[e].nextSeq # Unstarted =>
                            /\ \E l \in Packets : /\ Traffic[l].conn = c /\ Traffic[l].from = e
                                                  /\ t.half[e].nextSeq = EndSeq(l)
                            /\ \A i \in t.half[e].buffered : t.half[e].nextSeq < Traffic[i.pkt].seq
                      /\ t.half[e].nextSeq = Unstarted /\ StartAnywhere => t.half[e].buffered = {}
    BY DEF SeqOK
  <2>1. /\ s.half[e].nextSeq # Unstarted =>
                            /\ \E l \in Packets : /\ Traffic[l].conn = c /\ Traffic[l].from = e
                                                  /\ s.half[e].nextSeq = EndSeq(l)
                            /\ \A i \in s.half[e].buffered : s.half[e].nextSeq < Traffic[i.pkt].seq
        /\ s.half[e].nextSeq = Unstarted /\ StartAnywhere => s.half[e].buffered = {}
    BY DEF Good, SeqOK
  <2> QED
    BY <2>1
<1> QED
  BY <1>1, <1>2, <1>3 DEF Good

LEMMA NewIsGood ==
    ASSUME NEW c, NEW id \in Nat, NEW src \in Ends, \A ev \in events : ev.stream # id
    PROVE  Good(events, c, NewStream(id, src))
<1> DEFINE s == NewStream(id, src)
<1>1. /\ s.id = id /\ \A e \in Ends : s.half[e] = NewHalf
      /\ \A k \in Keys : s.messages[k] = NoEntry
  BY DEF NewStream, NewMatcher
<1>2. NewHalf.nextSeq = Unstarted /\ NewHalf.buffered = {}
  BY DEF NewHalf
<1> HIDE DEF s
<1>3. SeqOK(c, s)
  BY <1>1, <1>2 DEF SeqOK
<1>4. MsgOK(c, s) /\ EventsSeen(events, c, s)
  BY <1>1 DEF MsgOK, EventsSeen
<1> QED
  BY <1>3, <1>4 DEF Good, s

-----------------------------------------------------------------------------
(* A message comes to the matcher.                                         *)

\* A packet that has been handed over ended before the bytes still to come.
LEMMA WentBefore ==
    ASSUME NEW c, NEW s \in Streams, NEW e \in Ends, NEW p \in Packets, Went(c, s, e, p),
           NEW m \in Packets, Traffic[m].conn = c, Traffic[m].from = e,
           s.half[e].nextSeq <= Traffic[m].seq
    PROVE  SameWay(p, m) /\ Traffic[p].seq < Traffic[m].seq
<1>1. /\ Traffic[p].seq \in Nat /\ EndSeq(p) \in Nat /\ EndSeq(p) > Traffic[p].seq
      /\ Traffic[m].seq \in Nat /\ s.half[e].nextSeq \in Nat
  BY PacketFacts DEF Streams, Halves
<1>2. EndSeq(p) <= s.half[e].nextSeq /\ Traffic[p].conn = c /\ Traffic[p].from = e
  BY DEF Went
<1> QED
  BY <1>1, <1>2 DEF SameWay

\* Of a packet's message, as the matcher is given it, both halves are in the entry's fields.
LEMMA FilledFields ==
    ASSUME NEW x, NEW m, NEW n
    PROVE  /\ WithRequest(x, m, m, n).request = m /\ WithRequest(x, m, m, n).requestTimestamp = m
           /\ WithRequest(x, m, m, n).response = x.response
           /\ WithRequest(x, m, m, n).responseTimestamp = x.responseTimestamp
           /\ WithResponse(x, m, m, n).response = m /\ WithResponse(x, m, m, n).responseTimestamp = m
           /\ WithResponse(x, m, m, n).request = x.request
           /\ WithResponse(x, m, m, n).requestTimestamp = x.requestTimestamp
BY DEF WithRequest, WithResponse

(* A new request meets nothing or a response: an earlier request of that   *)
(* id would have the same number.                                          *)
LEMMA RequestFinds ==
    ASSUME HttpOverTcp, NEW c, NEW s \in Streams, MsgOK(c, s),
           NEW m \in Packets, Traffic[m].conn = c, Traffic[m].from = s.src,
           Traffic[m].kind = "request", s.half[s.src].nextSeq <= Traffic[m].seq,
           NEW k, k = Traffic[m].ack, NEW x, x = s.messages[k]
    PROVE  x = NoEntry \/ (Answered(c, s, k, x) /\ x.request = Nil)
<1>1. k \in Keys /\ s.src \in Ends
  BY PacketFacts DEF Streams
<1>2. ~Asked(c, s, k, x)
  <2> SUFFICES ASSUME Asked(c, s, k, x) PROVE FALSE
    OBVIOUS
  <2>1. /\ x.request \in Packets /\ Traffic[x.request].kind = "request"
        /\ Traffic[x.request].ack = k /\ Went(c, s, s.src, x.request)
    BY DEF Asked
  <2>2. SameWay(x.request, m) /\ Traffic[x.request].seq < Traffic[m].seq
    BY <1>1, <2>1, WentBefore
  <2>3. Traffic[x.request].seq = Traffic[m].seq
    BY <2>1, <2>2, OneRequestAnId
  <2> QED
    BY <2>1, <2>2, <2>3, PacketFacts
<1> QED
  BY <1>1, <1>2 DEF MsgOK

LEMMA RequestMatches ==
    ASSUME HttpOverTcp, NEW c, NEW s \in Streams, MsgOK(c, s), NEW t \in Streams, GoesOn(s, t),
           NEW m \in Packets, Traffic[m].conn = c, Traffic[m].from = s.src,
           Traffic[m].kind = "request",
           s.half[s.src].nextSeq <= Traffic[m].seq, EndSeq(m) <= t.half[s.src].nextSeq,
           NEW n \in Nat, NEW r, r = GetOrStoreRequest(s.messages, Traffic[m].ack, m, m, n),
           t.messages = r.messages
    PROVE  /\ MsgOK(c, t)
           /\ r.match # NoEntry =>
                 /\ Asked(c, t, Traffic[m].ack, r.match) /\ Answered(c, t, Traffic[m].ack, r.match)
                 /\ r.match.request = m
<1> DEFINE k == Traffic[m].ack
           x == s.messages[k]
           f == WithRequest(x, m, m, n)
<1>1. k \in Keys /\ m # 0 /\ s.src \in Ends /\ t.src = s.src /\ s.messages \in [Keys -> Entry]
  BY PacketFacts DEF Streams, GoesOn
<1>3. x = NoEntry \/ (Answered(c, s, k, x) /\ x.request = Nil)
  BY RequestFinds
<1>4. /\ f.request = m /\ f.requestTimestamp = m
      /\ f.response = x.response /\ f.responseTimestamp = x.responseTimestamp
  BY FilledFields
<1>5. r = GetOrStore(s.messages, k, f)
  BY DEF GetOrStoreRequest
<1> HIDE DEF f
<1>6. Asked(c, t, k, f)
  BY <1>1, <1>4 DEF Asked, Went
<1>7. CASE x = NoEntry
  <2>1. r.match = NoEntry /\ t.messages = [s.messages EXCEPT ![k] = f]
    BY <1>5, <1>7 DEF GetOrStore, Found
  <2>2. f.response = Nil
    BY <1>4, <1>7 DEF NoEntry
  <2>3. t.messages[k] = f /\ \A j \in Keys \ {k} : t.messages[j] = s.messages[j]
    BY <1>1, <2>1
  <2>4. ASSUME NEW j \in Keys
        PROVE  \/ t.messages[j] = NoEntry
               \/ Asked(c, t, j, t.messages[j]) /\ t.messages[j].response = Nil
               \/ Answered(c, t, j, t.messages[j]) /\ t.messages[j].request = Nil
    <3>1. CASE j = k
      BY <1>6, <2>2, <2>3, <3>1
    <3>2. CASE j # k
      BY <2>3, <3>2, StillKnown DEF MsgOK
    <3> QED
      BY <3>1, <3>2
  <2> QED
    BY <2>1, <2>4 DEF MsgOK
<1>8. CASE x # NoEntry
  <2>1. r.match = f /\ t.messages = [s.messages EXCEPT ![k] = NoEntry]
    BY <1>5, <1>8 DEF GetOrStore, Found
  <2>2. Answered(c, t, k, x)
    BY <1>3, <1>8, StillKnown
  <2>3. Answered(c, t, k, f)
    BY <1>4, <2>2 DEF Answered
  <2>4. \A j \in Keys : t.messages[j] = NoEntry \/ t.messages[j] = s.messages[j]
    BY <1>1, <2>1
  <2>5. MsgOK(c, t)
    BY <2>4, StillKnown DEF MsgOK
  <2> QED
    BY <1>4, <1>6, <2>1, <2>3, <2>5
<1> QED
  BY <1>7, <1>8

(* A new response meets nothing or a request.                              *)
LEMMA ResponseFinds ==
    ASSUME HttpOverTcp, NEW c, NEW s \in Streams, MsgOK(c, s), NEW e \in Ends, e # s.src,
           NEW m \in Packets, Traffic[m].conn = c, Traffic[m].from = e,
           Traffic[m].kind = "response", s.half[e].nextSeq <= Traffic[m].seq,
           NEW k, k = Traffic[m].seq, NEW x, x = s.messages[k]
    PROVE  x = NoEntry \/ (Asked(c, s, k, x) /\ x.response = Nil)
<1>1. k \in Keys /\ s.src \in Ends
  BY PacketFacts DEF Streams
<1>2. ~Answered(c, s, k, x)
  <2> SUFFICES ASSUME Answered(c, s, k, x) PROVE FALSE
    OBVIOUS
  <2>1. PICK d \in Ends \ {s.src} : Went(c, s, d, x.response)
    BY DEF Answered
  <2>2. x.response \in Packets /\ Traffic[x.response].seq = k
    BY DEF Answered
  <2>3. d = e
    BY <1>1 DEF Ends
  <2>4. Traffic[x.response].seq < Traffic[m].seq
    BY <2>1, <2>2, <2>3, WentBefore
  <2> QED
    BY <2>2, <2>4, PacketFacts
<1> QED
  BY <1>1, <1>2 DEF MsgOK

LEMMA ResponseMatches ==
    ASSUME HttpOverTcp, NEW c, NEW s \in Streams, MsgOK(c, s), NEW t \in Streams, GoesOn(s, t),
           NEW e \in Ends, e # s.src,
           NEW m \in Packets, Traffic[m].conn = c, Traffic[m].from = e,
           Traffic[m].kind = "response",
           s.half[e].nextSeq <= Traffic[m].seq, EndSeq(m) <= t.half[e].nextSeq,
           NEW n \in Nat, NEW r, r = GetOrStoreResponse(s.messages, Traffic[m].seq, m, m, n),
           t.messages = r.messages
    PROVE  /\ MsgOK(c, t)
           /\ r.match # NoEntry =>
                 /\ Asked(c, t, Traffic[m].seq, r.match) /\ Answered(c, t, Traffic[m].seq, r.match)
                 /\ r.match.response = m
<1> DEFINE k == Traffic[m].seq
           x == s.messages[k]
           f == WithResponse(x, m, m, n)
<1>1. k \in Keys /\ m # 0 /\ s.src \in Ends /\ t.src = s.src /\ s.messages \in [Keys -> Entry]
  BY PacketFacts DEF Streams, GoesOn
<1>3. x = NoEntry \/ (Asked(c, s, k, x) /\ x.response = Nil)
  BY ResponseFinds
<1>4. /\ f.response = m /\ f.responseTimestamp = m
      /\ f.request = x.request /\ f.requestTimestamp = x.requestTimestamp
  BY FilledFields
<1>5. r = GetOrStore(s.messages, k, f)
  BY DEF GetOrStoreResponse
<1> HIDE DEF f
<1>6. Answered(c, t, k, f)
  BY <1>1, <1>4 DEF Answered, Went
<1>7. CASE x = NoEntry
  <2>1. r.match = NoEntry /\ t.messages = [s.messages EXCEPT ![k] = f]
    BY <1>5, <1>7 DEF GetOrStore, Found
  <2>2. f.request = Nil
    BY <1>4, <1>7 DEF NoEntry
  <2>3. t.messages[k] = f /\ \A j \in Keys \ {k} : t.messages[j] = s.messages[j]
    BY <1>1, <2>1
  <2>4. ASSUME NEW j \in Keys
        PROVE  \/ t.messages[j] = NoEntry
               \/ Asked(c, t, j, t.messages[j]) /\ t.messages[j].response = Nil
               \/ Answered(c, t, j, t.messages[j]) /\ t.messages[j].request = Nil
    <3>1. CASE j = k
      BY <1>6, <2>2, <2>3, <3>1
    <3>2. CASE j # k
      BY <2>3, <3>2, StillKnown DEF MsgOK
    <3> QED
      BY <3>1, <3>2
  <2> QED
    BY <2>1, <2>4 DEF MsgOK
<1>8. CASE x # NoEntry
  <2>1. r.match = f /\ t.messages = [s.messages EXCEPT ![k] = NoEntry]
    BY <1>5, <1>8 DEF GetOrStore, Found
  <2>2. Asked(c, t, k, x)
    BY <1>3, <1>8, StillKnown
  <2>3. Asked(c, t, k, f)
    BY <1>4, <2>2 DEF Asked
  <2>4. \A j \in Keys : t.messages[j] = NoEntry \/ t.messages[j] = s.messages[j]
    BY <1>1, <2>1
  <2>5. MsgOK(c, t)
    BY <2>4, StillKnown DEF MsgOK
  <2> QED
    BY <1>4, <1>6, <2>1, <2>3, <2>5
<1> QED
  BY <1>7, <1>8

-----------------------------------------------------------------------------
(* Events.                                                                 *)

\* The event's cycle comes after those of the stream's events so far.
Latest(ev) ==
    \A x \in events : x.stream = ev.stream =>
        Traffic[x.entry.request].cycle < Traffic[ev.entry.request].cycle

LEMMA PairIsCycle ==
    ASSUME HttpOverTcp, NEW c, NEW s \in Streams, NEW k, NEW m,
           Asked(c, s, k, m), Answered(c, s, k, m)
    PROVE  /\ m.request \in Packets /\ m.response \in Packets
           /\ Traffic[m.request].cycle = Traffic[m.response].cycle
           /\ \A ev : ev.conn = c /\ ev.src = s.src /\ ev.requestId = k /\ ev.entry = m => OneCycle(ev)
<1>1. /\ m.request \in Packets /\ m.requestTimestamp = m.request
      /\ Traffic[m.request].kind = "request" /\ Traffic[m.request].ack = k
      /\ Traffic[m.request].conn = c /\ Traffic[m.request].from = s.src
  BY DEF Asked, Went
<1>2. /\ m.response \in Packets /\ m.responseTimestamp = m.response
      /\ Traffic[m.response].kind = "response" /\ Traffic[m.response].seq = k
      /\ Traffic[m.response].conn = c /\ Traffic[m.response].from # s.src
  BY DEF Answered, Went
<1>3. Traffic[m.request].cycle = Traffic[m.response].cycle
  BY <1>1, <1>2, OneCycleAnId
<1>4. m.request # Nil /\ m.response # Nil
  BY <1>1, <1>2, PacketFacts DEF Nil
<1> QED
  BY <1>1, <1>2, <1>3, <1>4 DEF OneCycle

(* The event of a message that lies behind all that came before is later   *)
(* than the stream's events.                                               *)
LEMMA NewIsLatest ==
    ASSUME HttpOverTcp, NEW c, NEW s \in Streams, EventsSeen(events, c, s),
           NEW t \in Streams, GoesOn(s, t), NEW e \in Ends,
           NEW m \in Packets, Traffic[m].conn = c, Traffic[m].from = e,
           s.half[e].nextSeq <= Traffic[m].seq,
           NEW k, NEW x, Asked(c, t, k, x), Answered(c, t, k, x),
           \/ e = s.src /\ x.request = m
           \/ e # s.src /\ x.response = m,
           NEW ev, ev.stream = s.id, ev.entry = x
    PROVE  Latest(ev)
<1> SUFFICES ASSUME NEW y \in events, y.stream = s.id
             PROVE  Traffic[y.entry.request].cycle < Traffic[x.request].cycle
  BY DEF Latest
<1>1. Asked(c, s, y.requestId, y.entry) /\ Answered(c, s, y.requestId, y.entry)
  BY DEF EventsSeen
<1>2. /\ y.entry.request \in Packets /\ y.entry.response \in Packets
      /\ Traffic[y.entry.request].cycle = Traffic[y.entry.response].cycle
  <2> DEFINE z == y.entry
             j == y.requestId
  <2>1. Asked(c, s, j, z) /\ Answered(c, s, j, z)
    BY <1>1
  <2> HIDE DEF z, j
  <2>2. z.request \in Packets /\ z.response \in Packets
        /\ Traffic[z.request].cycle = Traffic[z.response].cycle
    BY <2>1, PairIsCycle
  <2> QED
    BY <2>2 DEF z
<1>3. /\ x.request \in Packets /\ x.response \in Packets
      /\ Traffic[x.request].cycle = Traffic[x.response].cycle
  BY PairIsCycle
<1>4. CASE e = s.src /\ x.request = m
  <2>1. Went(c, s, e, y.entry.request) /\ Traffic[y.entry.request].kind = "request"
    BY <1>1, <1>4 DEF Asked
  <2>2. Traffic[m].kind = "request"
    BY <1>4 DEF Asked
  <2>3. SameWay(y.entry.request, m) /\ Traffic[y.entry.request].seq < Traffic[m].seq
    BY <1>2, <2>1, WentBefore
  <2> QED
    BY <1>2, <1>4, <2>1, <2>2, <2>3, CyclesInOrder
<1>5. CASE e # s.src /\ x.response = m
  <2>1. PICK d \in Ends \ {s.src} : Went(c, s, d, y.entry.response)
    BY <1>1 DEF Answered
  <2>2. d = e /\ Traffic[y.entry.response].kind = "response"
    BY <1>1, <1>5 DEF Answered, Ends, Streams
  <2>3. Traffic[m].kind = "response"
    BY <1>5 DEF Answered
  <2>4. SameWay(y.entry.response, m) /\ Traffic[y.entry.response].seq < Traffic[m].seq
    BY <1>2, <2>1, <2>2, WentBefore
  <2>5. Traffic[y.entry.response].cycle < Traffic[m].cycle
    BY <1>2, <2>2, <2>3, <2>4, CyclesInOrder
  <2> QED
    BY <1>2, <1>3, <1>5, <2>5
<1> QED
  BY <1>4, <1>5

-----------------------------------------------------------------------------
(* A batch is handed over.                                                 *)

\* What a callback makes of the events: at most one more, whole and later than its stream's.
Extended(t) ==
    \/ events' = events
    \/ \E ev : /\ events' = events \cup {ev} /\ ev.stream = t.id
               /\ OneCycle(ev) /\ Latest(ev)

Paired(c, t, k) == t \in Streams /\ Keep(c, t, k) /\ Good(events', c, t) /\ Extended(t)

(* A message lies behind all its direction has seen, and a batch begins    *)
(* with it.                                                                *)
LEMMA MessageMatches ==
    ASSUME HttpOverTcp, NEW c, NEW e \in Ends, NEW s \in Streams, Good(events, c, s),
           NEW t \in Streams, GoesOn(s, t), NEW batch \in SUBSET Packets,
           NEW m \in Packets, m = First(batch),
           Traffic[m].conn = c, Traffic[m].from = e,
           s.half[e].nextSeq <= Traffic[m].seq, EndSeq(m) <= t.half[e].nextSeq,
           NEW r, r = ReassembledSG(s, e, batch, m), t.messages = r.messages,
           NEW id, id = RequestId(m, e = s.src)
    PROVE  /\ MsgOK(c, t)
           /\ r.match # NoEntry =>
                /\ Asked(c, t, id, r.match) /\ Answered(c, t, id, r.match)
                /\ \/ e = s.src /\ r.match.request = m
                   \/ e # s.src /\ r.match.response = m
<1>1. MsgOK(c, s)
  BY DEF Good
<1>2. Cardinality(batch) \in Nat
  BY FiniteTraffic, FS_Subset, FS_CardinalityType
<1>3. CASE ~Parses(m, e = s.src)
  <2>1. r.match = NoEntry /\ t.messages = s.messages
    BY <1>3 DEF ReassembledSG
  <2> QED
    BY <1>1, <2>1, StillKnown DEF MsgOK
<1>4. CASE Parses(m, e = s.src) /\ e = s.src
  <2>1. /\ r = GetOrStoreRequest(s.messages, Traffic[m].ack, m, m, Cardinality(batch))
        /\ Traffic[m].kind = "request" /\ id = Traffic[m].ack
    BY <1>4 DEF ReassembledSG, RequestId, Parses
  <2>2. /\ MsgOK(c, t)
        /\ r.match # NoEntry =>
                 /\ Asked(c, t, Traffic[m].ack, r.match) /\ Answered(c, t, Traffic[m].ack, r.match)
                 /\ r.match.request = m
    BY <1>1, <1>2, <1>4, <2>1, RequestMatches
  <2> QED
    BY <1>4, <2>1, <2>2
<1>5. CASE Parses(m, e = s.src) /\ e # s.src
  <2>1. /\ r = GetOrStoreResponse(s.messages, Traffic[m].seq, m, m, Cardinality(batch))
        /\ Traffic[m].kind = "response" /\ id = Traffic[m].seq
    BY <1>5 DEF ReassembledSG, RequestId, Parses
  <2>2. /\ MsgOK(c, t)
        /\ r.match # NoEntry =>
                 /\ Asked(c, t, Traffic[m].seq, r.match) /\ Answered(c, t, Traffic[m].seq, r.match)
                 /\ r.match.response = m
    BY <1>1, <1>2, <1>5, <2>1, ResponseMatches
  <2> QED
    BY <1>5, <2>1, <2>2
<1> QED
  BY <1>3, <1>4, <1>5

(* A batch of direction e that begins with message m: m is the next of its *)
(* direction, the rest of the batch was waiting, and what goes on waiting  *)
(* lies behind it.                                                         *)
BatchOK(c, s, e, batch, m) ==
    /\ batch \in SUBSET Packets /\ m \in batch /\ m = First(batch)
    /\ batch \subseteq Buffered(s.half[e]) \cup {m}
    /\ \A p \in batch : Traffic[p].conn = c /\ Traffic[p].from = e
    /\ s.half[e].nextSeq <= Traffic[m].seq
    /\ \A i \in s.half[e].buffered :
           i.pkt \notin batch => EndSeq(Last(batch)) < Traffic[i.pkt].seq

\* The stream after it.
Handed(s, e, batch, m) ==
    [s EXCEPT !.messages = ReassembledSG(s, e, batch, m).messages,
              !.half = [s.half EXCEPT ![e] = After(s.half[e], batch)]]

LEMMA DeliverMatches ==
    ASSUME HttpOverTcp, NEW c, NEW e \in Ends, NEW s \in Streams, Good(events, c, s), NEW k,
           NEW batch \in SUBSET Packets, NEW m \in batch, m = First(batch),
           \A p \in batch : Traffic[p].conn = c /\ Traffic[p].from = e,
           s.half[e].nextSeq <= Traffic[m].seq,
           \A i \in s.half[e].buffered :
               i.pkt \notin batch => EndSeq(Last(batch)) < Traffic[i.pkt].seq,
           Deliver(c, s, e, batch, m, k)
    PROVE  Paired(c, Handed(s, e, batch, m), k) /\ Handed(s, e, batch, m).id = s.id
<1> DEFINE result == ReassembledSG(s, e, batch, m)
           h == s.half[e]
           l == Last(batch)
           g == After(h, batch)
           t == [s EXCEPT !.messages = result.messages, !.half = [s.half EXCEPT ![e] = g]]
           id == RequestId(m, e = s.src)
           new == [stream |-> s.id, conn |-> c, src |-> s.src, requestId |-> id,
                   entry |-> result.match]
<1>1. result.messages \in [Keys -> Entry] /\ m \in Packets
  BY BatchType
<1>2. h \in Halves /\ s.half \in [Ends -> Halves]
  BY DEF Streams
<1>3. l \in batch /\ Traffic[m].seq <= Traffic[l].seq
  BY LastIn
<1>4. /\ g \in Halves
      /\ g.buffered \subseteq {i \in h.buffered : i.pkt \notin batch}
      /\ g.nextSeq = EndSeq(l)
  <2> HIDE DEF h
  <2> QED
    BY <1>2, AfterHalf
<1>5. Keep(c, [s EXCEPT !.messages = result.messages, !.half[e] = After(@, batch)], k)
  BY DEF Deliver
<1>6. [s EXCEPT !.messages = result.messages, !.half[e] = After(@, batch)] = t
  BY <1>2 DEF Streams
<1>7. events' = IF result.match = NoEntry THEN events ELSE events \cup {new}
  BY DEF Deliver
<1>8. /\ new.stream = s.id /\ new.conn = c /\ new.src = s.src /\ new.requestId = id
      /\ new.entry = result.match
  OBVIOUS
<1>9. result = ReassembledSG(s, e, batch, m) /\ id = RequestId(m, e = s.src)
  OBVIOUS
<1> HIDE DEF result, g, h, l, new, id
<1>10. /\ t \in Streams /\ t.id = s.id /\ t.src = s.src /\ t.messages = result.messages
       /\ t.half = [s.half EXCEPT ![e] = g]
  BY <1>1, <1>2, <1>4 DEF Streams
<1>11. Keep(c, t, k)
  BY <1>5, <1>6
<1> HIDE DEF t
<1>12. t.half[e] = g /\ \A f \in Ends \ {e} : t.half[f] = s.half[f]
  BY <1>2, <1>4, <1>10
<1>13. /\ Traffic[m].seq \in Nat /\ EndSeq(m) \in Nat /\ EndSeq(m) > Traffic[m].seq
       /\ Traffic[l].seq \in Nat /\ EndSeq(l) \in Nat /\ EndSeq(l) > Traffic[l].seq
       /\ h.nextSeq \in Nat
  BY <1>1, <1>2, <1>3, PacketFacts DEF Halves
<1>14. EndSeq(m) <= EndSeq(l)
  <2>1. SameWay(m, l)
    BY <1>3 DEF SameWay
  <2>2. /\ Traffic[m].seq = Traffic[l].seq => EndSeq(m) = EndSeq(l)
        /\ Traffic[m].seq < Traffic[l].seq => EndSeq(m) <= Traffic[l].seq
    BY <1>1, <1>3, <2>1, Segments
  <2> QED
    BY <1>3, <1>13, <2>2
<1>15. h.nextSeq <= Traffic[m].seq
  BY DEF h
<1>16. GoesOn(s, t)
  <2>1. ASSUME NEW f \in Ends PROVE s.half[f].nextSeq <= t.half[f].nextSeq
    <3>1. CASE f = e
      BY <1>4, <1>12, <1>13, <1>14, <1>15, <3>1 DEF h
    <3>2. CASE f # e
      BY <1>2, <1>12, <3>2 DEF Halves
    <3> QED
      BY <3>1, <3>2
  <2> QED
    BY <1>10, <2>1 DEF GoesOn
<1>17. s.half[e].nextSeq <= Traffic[m].seq /\ EndSeq(m) <= t.half[e].nextSeq
  BY <1>4, <1>12, <1>14
<1>18. /\ MsgOK(c, t)
       /\ result.match # NoEntry =>
                /\ Asked(c, t, id, result.match) /\ Answered(c, t, id, result.match)
                /\ \/ e = s.src /\ result.match.request = m
                   \/ e # s.src /\ result.match.response = m
  <2>1. Traffic[m].conn = c /\ Traffic[m].from = e /\ t.messages = result.messages /\ t \in Streams
    BY <1>10
  <2> QED
    BY <1>1, <1>9, <1>16, <1>17, <2>1, MessageMatches
<1>19. EventsSeen(events, c, s) /\ SeqOK(c, s)
  BY DEF Good
<1>20. EventsSeen(events, c, t)
  BY <1>10, <1>16, <1>19, StillSeen
<1>21. SeqOK(c, t)
  <2> SUFFICES ASSUME NEW f \in Ends
               PROVE  /\ t.half[f].nextSeq # Unstarted =>
                            /\ \E q \in Packets : /\ Traffic[q].conn = c /\ Traffic[q].from = f
                                                  /\ t.half[f].nextSeq = EndSeq(q)
                            /\ \A i \in t.half[f].buffered : t.half[f].nextSeq < Traffic[i.pkt].seq
                      /\ t.half[f].nextSeq = Unstarted /\ StartAnywhere => t.half[f].buffered = {}
    BY DEF SeqOK
  <2>1. CASE f = e
    <3>1. g.nextSeq # Unstarted
      BY <1>4, <1>13 DEF Unstarted
    <3>2. Traffic[l].conn = c /\ Traffic[l].from = e /\ l \in Packets
      BY <1>3
    <3>3. \A i \in g.buffered : g.nextSeq < Traffic[i.pkt].seq
      BY <1>4 DEF h, l
    <3> QED
      BY <1>4, <1>12, <2>1, <3>1, <3>2, <3>3
  <2>2. CASE f # e
    BY <1>12, <1>19, <2>2 DEF SeqOK
  <2> QED
    BY <2>1, <2>2
<1>22. ASSUME result.match = NoEntry PROVE Paired(c, t, k)
  <2>1. events' = events
    BY <1>7, <1>22
  <2> QED
    BY <1>10, <1>11, <1>18, <1>20, <1>21, <2>1 DEF Paired, Good, Extended
<1>23. ASSUME result.match # NoEntry PROVE Paired(c, t, k)
  <2>1. events' = events \cup {new}
    BY <1>7, <1>23
  <2>2. /\ Asked(c, t, id, result.match) /\ Answered(c, t, id, result.match)
        /\ \/ e = s.src /\ result.match.request = m
           \/ e # s.src /\ result.match.response = m
    BY <1>18, <1>23
  <2>3. OneCycle(new)
    BY <1>8, <1>10, <2>2, PairIsCycle
  <2>4. Latest(new)
    BY <1>1, <1>8, <1>10, <1>16, <1>19, <2>2, NewIsLatest
  <2>5. EventsSeen(events', c, t)
    BY <1>8, <1>10, <1>20, <2>1, <2>2 DEF EventsSeen
  <2> QED
    BY <1>8, <1>10, <1>11, <1>18, <1>21, <2>1, <2>3, <2>4, <2>5 DEF Paired, Good, Extended
<1>24. t = Handed(s, e, batch, m)
  BY DEF t, g, h, result, Handed
<1> QED
  BY <1>10, <1>22, <1>23, <1>24

-----------------------------------------------------------------------------
(* What becomes of a packet and of a flush.                                *)

LEMMA ForwardBatch ==
    ASSUME HttpOverTcp, IInv, NEW item, NEW accept, item.pkt \in passed,
           KeepPre(Traffic[item.pkt].conn, accept.stream, accept.counters),
           Good(events, Traffic[item.pkt].conn, accept.stream), Forward(item, accept)
    PROVE  LET p == item.pkt
               c == Traffic[p].conn
               e == Traffic[p].from
           IN  \E batch : /\ BatchOK(c, accept.stream, e, batch, p)
                          /\ Deliver(c, accept.stream, e, batch, p, accept.counters)
<1> DEFINE p == item.pkt
           c == Traffic[p].conn
           e == Traffic[p].from
           s == accept.stream
           k == accept.counters
           half == s.half[e]
           ps == Buffered(half)
           batch == {p} \cup Run(ps, EndSeq(p))
<1>1. p \in Packets /\ c \in Conns /\ e \in Ends
  BY PacketFacts DEF IInv, TypeOK
<1>2. Deliver(c, s, e, batch, p, k) /\ InOrder(half, p)
  BY DEF Forward
<1>3. KeepPre(c, s, k) /\ Good(events, c, s)
  OBVIOUS
<1>4. Traffic[p].conn = c /\ Traffic[p].from = e
  OBVIOUS
<1> HIDE DEF c, e, s, k, p
<1>5. /\ s \in Streams /\ half \in Halves
      /\ \A q \in ps : Arrived(c, e, q)
      /\ ps \subseteq Packets
  BY <1>1, <1>3, HalfMet
<1>6. \A i \in half.buffered : i.pkt \in ps
  BY DEF Buffered
<1>7. /\ half.nextSeq # Unstarted =>
            /\ \E l \in Packets : /\ Traffic[l].conn = c /\ Traffic[l].from = e
                                  /\ half.nextSeq = EndSeq(l)
            /\ \A i \in half.buffered : half.nextSeq < Traffic[i.pkt].seq
      /\ half.nextSeq = Unstarted /\ StartAnywhere => half.buffered = {}
  BY <1>1, <1>3 DEF Good, SeqOK
<1>8. /\ half.nextSeq # Unstarted => /\ ~(EndSeq(p) <= half.nextSeq)
                                     /\ Traffic[p].seq <= half.nextSeq
      /\ half.nextSeq = Unstarted => StartAnywhere
  BY <1>2 DEF InOrder, Stale
<1>9. half.nextSeq \in Nat /\ Traffic[p].seq \in Nat /\ EndSeq(p) \in Nat
  BY <1>1, <1>5, PacketFacts DEF Halves
<1> HIDE DEF half
<1>10. half.nextSeq <= Traffic[p].seq /\ \A q \in ps : Traffic[p].seq < Traffic[q].seq
  <2>1. CASE half.nextSeq = Unstarted
    <3>1. ps = {}
      BY <1>7, <1>8, <2>1 DEF Buffered
    <3> QED
      BY <1>9, <2>1, <3>1 DEF Unstarted
  <2>2. CASE half.nextSeq # Unstarted
    <3>1. PICK l \in Packets : /\ Traffic[l].conn = c /\ Traffic[l].from = e
                               /\ half.nextSeq = EndSeq(l)
      BY <1>7, <2>2
    <3>2. SameWay(l, p)
      BY <1>4, <3>1 DEF SameWay
    <3>3. half.nextSeq = Traffic[p].seq
      BY <1>1, <1>8, <2>2, <3>1, <3>2, NextBegins
    <3>4. \A q \in ps : half.nextSeq < Traffic[q].seq
      BY <1>7, <2>2 DEF Buffered
    <3> QED
      BY <1>9, <3>3, <3>4
  <2> QED
    BY <2>1, <2>2
<1>11. batch \in SUBSET Packets /\ p \in batch /\ batch \subseteq ps \cup {p}
  BY <1>1, <1>5, RunIn
<1>12. \A q \in batch : Traffic[q].conn = c /\ Traffic[q].from = e
  BY <1>4, <1>5, <1>11 DEF Arrived
<1>13. p = First(batch)
  <2> HIDE DEF batch
  <2>1. First(batch) \in batch /\ Traffic[First(batch)].seq <= Traffic[p].seq
    BY <1>11, FirstIn
  <2> DEFINE f == First(batch)
  <2> HIDE DEF f
  <2>2. f \in batch /\ Traffic[f].seq <= Traffic[p].seq /\ f \in Packets
    BY <1>11, <2>1 DEF f
  <2>3. Traffic[f].seq \in Nat
    BY <2>2, PacketFacts
  <2>4. f \notin ps
    BY <1>9, <1>10, <2>2, <2>3
  <2> QED
    BY <1>11, <2>2, <2>4 DEF f
<1>14. ASSUME NEW i \in half.buffered, i.pkt \notin batch
       PROVE  EndSeq(Last(batch)) < Traffic[i.pkt].seq
  <2> DEFINE l == Last(batch)
  <2>1. l \in batch
    BY <1>11, LastIn
  <2>2. l \in Packets /\ (l \in Run(ps, EndSeq(p)) \/ EndSeq(l) = EndSeq(p))
    BY <1>11, <2>1
  <2>3. i.pkt \in ps /\ i.pkt \notin Run(ps, EndSeq(p))
    BY <1>6, <1>14
  <2> HIDE DEF l, batch, ps
  <2> QED
    BY <1>5, <1>9, <2>2, <2>3, RunRest DEF l
<1> HIDE DEF batch, ps
<1>15. s.half[e].nextSeq <= Traffic[p].seq
  BY <1>10 DEF half
<1>16. \A i \in s.half[e].buffered :
               i.pkt \notin batch => EndSeq(Last(batch)) < Traffic[i.pkt].seq
  BY <1>14 DEF half
<1>17. BatchOK(c, s, e, batch, p)
  BY <1>11, <1>12, <1>13, <1>15, <1>16 DEF BatchOK, ps, half
<1> QED
  BY <1>2, <1>17 DEF c, e, k, s, p

LEMMA ForwardMatches ==
    ASSUME HttpOverTcp, IInv, NEW item, NEW accept, item.pkt \in passed,
           KeepPre(Traffic[item.pkt].conn, accept.stream, accept.counters),
           Good(events, Traffic[item.pkt].conn, accept.stream), Forward(item, accept)
    PROVE  \E t : Paired(Traffic[item.pkt].conn, t, accept.counters) /\ t.id = accept.stream.id
<1> DEFINE c == Traffic[item.pkt].conn
           e == Traffic[item.pkt].from
           s == accept.stream
<1>1. e \in Ends /\ s \in Streams
  BY PacketFacts DEF IInv, TypeOK, KeepPre
<1>2. PICK batch : /\ BatchOK(c, s, e, batch, item.pkt)
                   /\ Deliver(c, s, e, batch, item.pkt, accept.counters)
  BY ForwardBatch
<1> QED
  BY <1>1, <1>2, DeliverMatches DEF BatchOK

LEMMA FlushBatch ==
    ASSUME HttpOverTcp, IInv, NEW c \in Conns, NEW e \in Ends, Good(events, c, pool[c]),
           FlushRun(c, e)
    PROVE  \E batch, m : /\ BatchOK(c, pool[c], e, batch, m)
                         /\ Deliver(c, pool[c], e, batch, m, stats)
                         /\ m \in Buffered(pool[c].half[e])
<1> DEFINE s == pool[c]
           half == s.half[e]
           ps == Buffered(half)
           first == First(ps)
           batch == Run(ps, Traffic[first].seq)
<1>1. Live(c) /\ half.buffered # {} /\ Deliver(c, s, e, batch, first, stats)
  BY DEF FlushRun, DueForFlush
<1>2. KeepPre(c, s, stats) /\ Good(events, c, s)
  BY <1>1, OldStream
<1> HIDE DEF s
<1>3. /\ s \in Streams /\ half \in Halves /\ HalfOK(c, e, half)
      /\ \A q \in ps : Arrived(c, e, q)
      /\ ps \subseteq Packets
  BY <1>2, HalfMet
<1>4. \A i \in half.buffered : i.pkt \in ps
  BY DEF Buffered
<1>5. ps # {}
  BY <1>1 DEF Buffered
<1>6. half.nextSeq # Unstarted => \A i \in half.buffered : half.nextSeq < Traffic[i.pkt].seq
  BY <1>2 DEF Good, SeqOK
<1> HIDE DEF half
<1>7. \A q \in ps : half.nextSeq <= Traffic[q].seq
  <2> SUFFICES ASSUME NEW q \in ps PROVE half.nextSeq <= Traffic[q].seq
    OBVIOUS
  <2>1. half.nextSeq \in Nat /\ Traffic[q].seq \in Nat
    BY <1>3, PacketFacts DEF Halves
  <2>2. PICK i \in half.buffered : q = i.pkt
    BY DEF Buffered
  <2> QED
    BY <1>6, <2>1, <2>2 DEF Unstarted
<1>8. \A q, r \in ps : Traffic[q].seq = Traffic[r].seq => q = r
  BY <1>3 DEF HalfOK, Buffered
<1> HIDE DEF ps
<1>9. /\ first \in batch /\ first \in ps /\ \A q \in ps : Traffic[first].seq <= Traffic[q].seq
  BY <1>3, <1>5, FirstRun, FirstIn
<1>10. batch \in SUBSET ps
  BY RunIn
<1>11. batch \in SUBSET Packets /\ \A q \in batch : Traffic[q].conn = c /\ Traffic[q].from = e
  BY <1>3, <1>10 DEF Arrived
<1>12. ASSUME NEW i \in half.buffered, i.pkt \notin batch
       PROVE  EndSeq(Last(batch)) < Traffic[i.pkt].seq
  <2> DEFINE l == Last(batch)
             n == Traffic[first].seq
  <2>1. l \in batch
    BY <1>9, <1>11, LastIn
  <2>2. l \in Packets /\ l \in Run(ps, n)
    BY <1>11, <2>1
  <2>3. i.pkt \in ps /\ i.pkt \notin Run(ps, n) /\ n \in Nat
    BY <1>3, <1>4, <1>9, <1>12, PacketFacts
  <2> HIDE DEF l, batch, n
  <2> QED
    BY <1>3, <2>2, <2>3, RunRest DEF l
<1> HIDE DEF batch, first
<1>13. first = First(batch)
  <2> DEFINE f == First(batch)
  <2>1. f \in batch /\ Traffic[f].seq <= Traffic[first].seq
    BY <1>9, <1>11, FirstIn
  <2> HIDE DEF f
  <2>2. f \in ps /\ f \in Packets /\ first \in Packets
    BY <1>3, <1>9, <1>10, <2>1
  <2>3. Traffic[f].seq \in Nat /\ Traffic[first].seq \in Nat
    BY <2>2, PacketFacts
  <2>4. Traffic[f].seq = Traffic[first].seq
    BY <1>9, <2>1, <2>2, <2>3
  <2> QED
    BY <1>8, <1>9, <2>2, <2>4 DEF f
<1>14. s.half[e].nextSeq <= Traffic[first].seq
  BY <1>7, <1>9 DEF half
<1>15. \A i \in s.half[e].buffered :
               i.pkt \notin batch => EndSeq(Last(batch)) < Traffic[i.pkt].seq
  BY <1>12 DEF half
<1>16. BatchOK(c, s, e, batch, first)
  BY <1>9, <1>10, <1>11, <1>13, <1>14, <1>15 DEF BatchOK, ps, half
<1> QED
  BY <1>1, <1>9, <1>16 DEF s, ps, half

LEMMA FlushMatches ==
    ASSUME HttpOverTcp, IInv, NEW c \in Conns, NEW e \in Ends, Good(events, c, pool[c]),
           FlushRun(c, e)
    PROVE  \E t : Paired(c, t, stats) /\ t.id = pool[c].id
<1>1. pool[c] \in Streams
  BY DEF IInv, TypeOK
<1>2. PICK batch, m : /\ BatchOK(c, pool[c], e, batch, m)
                      /\ Deliver(c, pool[c], e, batch, m, stats)
  BY FlushBatch
<1> QED
  BY <1>1, <1>2, DeliverMatches DEF BatchOK

\* A page more is within the limit.
LEMMA NeverOver ==
    ASSUME NEW S, IsFiniteSet(S), Cardinality(S) + 1 < MaxPages,
           NEW item, NEW h, h.buffered \subseteq S \cup {item}
    PROVE  ~OverLimit(Buffered(h))
<1> DEFINE U == S \cup {item}
           T == h.buffered
           f == [i \in T |-> i.pkt]
<1>1. Cardinality(S) \in Nat
  BY FS_CardinalityType
<1>2. IsFiniteSet(U) /\ Cardinality(U) <= Cardinality(S) + 1
  <2> HIDE DEF T, f
  <2>1. /\ IsFiniteSet(U)
        /\ Cardinality(U) = IF item \in S THEN Cardinality(S) ELSE Cardinality(S) + 1
    BY FS_AddElement
  <2> HIDE DEF U
  <2>2. CASE item \in S
    BY <1>1, <2>1, <2>2
  <2>3. CASE item \notin S
    BY <1>1, <2>1, <2>3
  <2> QED
    BY <2>2, <2>3
<1>3. f \in Surjection(T, Buffered(h))
  BY DEF Surjection, Buffered
<1> HIDE DEF f
<1>4. IsFiniteSet(T) /\ Cardinality(T) <= Cardinality(U)
  <2> HIDE DEF T, U
  <2>1. T \subseteq U
    BY DEF T, U
  <2> QED
    BY <1>2, <2>1, FS_Subset
<1>5. IsFiniteSet(Buffered(h)) /\ Cardinality(Buffered(h)) <= Cardinality(T)
  BY <1>3, <1>4, FS_Surjection
<1> HIDE DEF U, T
<1>6. Cardinality(U) \in Nat /\ Cardinality(T) \in Nat /\ Cardinality(Buffered(h)) \in Nat
  BY <1>2, <1>4, <1>5, FS_CardinalityType
<1> QED
  BY <1>1, <1>2, <1>4, <1>5, <1>6, TimeFacts DEF OverLimit

\* Nothing but the buffer of one direction is different.
LEMMA QueuedIsGood ==
    ASSUME NEW c, NEW e \in Ends, NEW s \in Streams, Good(events, c, s),
           NEW g \in Halves, NEW t \in Streams,
           t = [s EXCEPT !.half = [s.half EXCEPT ![e] = g]],
           g.nextSeq = s.half[e].nextSeq,
           g.nextSeq # Unstarted => \A i \in g.buffered : g.nextSeq < Traffic[i.pkt].seq,
           g.nextSeq = Unstarted /\ StartAnywhere => g.buffered = {}
    PROVE  Good(events, c, t)
<1>1. s.half \in [Ends -> Halves]
  BY DEF Streams
<1>2. /\ t.src = s.src /\ t.id = s.id /\ t.messages = s.messages
      /\ t.half = [s.half EXCEPT ![e] = g]
  BY DEF Streams
<1>3. t.half[e] = g /\ \A f \in Ends \ {e} : t.half[f] = s.half[f]
  BY <1>1, <1>2
<1>4. \A f \in Ends : t.half[f].nextSeq = s.half[f].nextSeq /\ s.half[f].nextSeq \in Nat
  BY <1>1, <1>3 DEF Halves
<1>5. GoesOn(s, t)
  BY <1>2, <1>4 DEF GoesOn
<1>6. EventsSeen(events, c, t)
  BY <1>5, StillSeen DEF Good
<1>7. MsgOK(c, t)
  BY <1>2, <1>5, StillKnown DEF Good, MsgOK
<1>8. SeqOK(c, t)
  <2> SUFFICES ASSUME NEW f \in Ends
               PROVE  /\ t.half[f].nextSeq # Unstarted =>
                            /\ \E q \in Packets : /\ Traffic[q].conn = c /\ Traffic[q].from = f
                                                  /\ t.half[f].nextSeq = EndSeq(q)
                            /\ \A i \in t.half[f].buffered : t.half[f].nextSeq < Traffic[i.pkt].seq
                      /\ t.half[f].nextSeq = Unstarted /\ StartAnywhere => t.half[f].buffered = {}
    BY DEF SeqOK
  <2>1. /\ s.half[f].nextSeq # Unstarted =>
              /\ \E q \in Packets : /\ Traffic[q].conn = c /\ Traffic[q].from = f
                                    /\ s.half[f].nextSeq = EndSeq(q)
              /\ \A i \in s.half[f].buffered : s.half[f].nextSeq < Traffic[i.pkt].seq
        /\ s.half[f].nextSeq = Unstarted /\ StartAnywhere => s.half[f].buffered = {}
    BY DEF Good, SeqOK
  <2>2. CASE f = e
    BY <1>3, <2>1, <2>2
  <2>3. CASE f # e
    BY <1>3, <2>1, <2>3
  <2> QED
    BY <2>2, <2>3
<1> QED
  BY <1>6, <1>7, <1>8 DEF Good

\* The stream after a packet has been put with those that wait.
Queued(s, item) ==
    LET e == Traffic[item.pkt].from
        fresh == \A q \in Buffered(s.half[e]) : Traffic[q].seq # Traffic[item.pkt].seq
    IN  [s EXCEPT !.half[e].buffered = IF fresh THEN @ \cup {item} ELSE @]

LEMMA QueueMatches ==
    ASSUME IInv, NEW item \in [pkt: Packets, age: 0 .. MaxAge], NEW accept, item.pkt \in passed,
           \A e \in Ends : Cardinality(accept.stream.half[e].buffered) + 1 < MaxPages,
           KeepPre(Traffic[item.pkt].conn, accept.stream, accept.counters),
           Good(events, Traffic[item.pkt].conn, accept.stream), Queue(item, accept)
    PROVE  /\ Paired(Traffic[item.pkt].conn, Queued(accept.stream, item), accept.counters)
           /\ Queued(accept.stream, item).id = accept.stream.id
           /\ events' = events /\ swallowed' = swallowed
<1> DEFINE p == item.pkt
           c == Traffic[p].conn
           e == Traffic[p].from
           s == accept.stream
           k == accept.counters
           half == s.half[e]
           fresh == \A q \in Buffered(half) : Traffic[q].seq # Traffic[p].seq
           queued == [s EXCEPT !.half[e].buffered = IF fresh THEN @ \cup {item} ELSE @]
           b == IF fresh THEN half.buffered \cup {item} ELSE half.buffered
           g == [half EXCEPT !.buffered = b]
           pages == Buffered(queued.half[e])
<1>1. p \in Packets /\ c \in Conns /\ e \in Ends /\ Traffic[p].conn = c /\ Traffic[p].from = e
  BY PacketFacts DEF IInv, TypeOK
<1>2. /\ OverLimit(pages) \/ (Keep(c, queued, k) /\ UNCHANGED <<events, swallowed>>)
      /\ ~Stale(half, p) /\ ~InOrder(half, p)
  BY DEF Queue
<1>3. KeepPre(c, s, k) /\ Good(events, c, s) /\ Cardinality(half.buffered) + 1 < MaxPages
  BY <1>1
<1> HIDE DEF c, e, s, k
<1>4. s \in Streams /\ half \in Halves /\ IsFiniteSet(half.buffered)
  BY <1>1, <1>3, HalfMet
<1>5. /\ half.nextSeq # Unstarted => \A i \in half.buffered : half.nextSeq < Traffic[i.pkt].seq
      /\ half.nextSeq = Unstarted /\ StartAnywhere => half.buffered = {}
  BY <1>1, <1>3 DEF Good, SeqOK
<1>6. /\ half.nextSeq # Unstarted => ~(Traffic[p].seq <= half.nextSeq)
      /\ half.nextSeq = Unstarted => ~StartAnywhere
  BY <1>2 DEF InOrder
<1>7. half.nextSeq \in Nat /\ Traffic[p].seq \in Nat
  BY <1>1, <1>4, PacketFacts DEF Halves
<1>8. b \subseteq half.buffered \cup {item}
  OBVIOUS
<1>9. /\ queued = [s EXCEPT !.half = [s.half EXCEPT ![e] = g]]
  BY <1>1, <1>4 DEF Streams, Halves
<1> HIDE DEF b, queued
<1>10. g \in Halves /\ g.nextSeq = half.nextSeq /\ g.buffered = b
  BY <1>4, <1>8 DEF Halves
<1> HIDE DEF g
<1>11. s.half \in [Ends -> Halves]
  BY <1>4 DEF Streams
<1>12. queued \in Streams /\ queued.id = s.id /\ queued.half = [s.half EXCEPT ![e] = g]
  BY <1>1, <1>4, <1>9, <1>10, <1>11 DEF Streams
<1>13. queued.half[e] = g
  BY <1>1, <1>11, <1>12
<1>14. pages = Buffered(g) /\ g.buffered \subseteq half.buffered \cup {item}
  BY <1>8, <1>10, <1>13
<1> HIDE DEF pages, half
<1>15. ~OverLimit(pages)
  BY <1>3, <1>4, <1>14, NeverOver
<1>16. Keep(c, queued, k) /\ events' = events /\ swallowed' = swallowed
  BY <1>2, <1>15
<1>17. g.nextSeq # Unstarted => \A i \in g.buffered : g.nextSeq < Traffic[i.pkt].seq
  BY <1>5, <1>6, <1>7, <1>8, <1>10
<1>18. ~(g.nextSeq = Unstarted /\ StartAnywhere)
  BY <1>6, <1>10
<1>19. Good(events, c, queued)
  <2>1. g.nextSeq = s.half[e].nextSeq
    BY <1>10 DEF half
  <2> QED
    BY <2>1, <1>1, <1>3, <1>4, <1>9, <1>10, <1>12, <1>17, <1>18, QueuedIsGood
<1>20. Paired(c, queued, k)
  BY <1>12, <1>16, <1>19 DEF Paired, Extended
<1>21. queued = Queued(accept.stream, item)
  BY DEF queued, Queued, half, s, e
<1> QED
  BY <1>12, <1>16, <1>20, <1>21 DEF c, k, s

-----------------------------------------------------------------------------
(* The invariant.                                                          *)

\* The stream is the connection's, or the one the factory has just made for it.
Mine(c, t) == t.id = IF Live(c) THEN pool[c].id ELSE stats.total_streams + 1

LEMMA OneCycleOnly ==
    ASSUME NEW ev, OneCycle(ev)
    PROVE  CyclesOf(ev) = {Traffic[ev.entry.request].cycle} /\ ev.entry.request \in Packets
BY DEF OneCycle, CyclesOf

LEMMA PairedReportedOnce ==
    ASSUME HttpOverTcp, MInv, NEW ev, OneCycle(ev), Latest(ev), events' = events \cup {ev}
    PROVE  CycleReportedOnce'
<1>1. ASSUME NEW x \in events, x.stream = ev.stream
      PROVE  CyclesOf(x) \cap CyclesOf(ev) = {} /\ CyclesOf(ev) \cap CyclesOf(x) = {}
  <2>1. OneCycle(x)
    BY DEF MInv
  <2>2. /\ CyclesOf(x) = {Traffic[x.entry.request].cycle} /\ x.entry.request \in Packets
        /\ CyclesOf(ev) = {Traffic[ev.entry.request].cycle} /\ ev.entry.request \in Packets
    BY <2>1, OneCycleOnly
  <2>3. Traffic[x.entry.request].cycle < Traffic[ev.entry.request].cycle
    BY <1>1 DEF Latest
  <2>4. Traffic[x.entry.request].cycle \in Nat /\ Traffic[ev.entry.request].cycle \in Nat
    BY <2>2, CycleType
  <2>5. Traffic[x.entry.request].cycle # Traffic[ev.entry.request].cycle
    BY <2>3, <2>4
  <2> QED
    BY <2>2, <2>5
<1>2. \A x, y \in events : x.stream = y.stream /\ x # y => CyclesOf(x) \cap CyclesOf(y) = {}
  BY DEF MInv, CycleReportedOnce
<1>3. ASSUME NEW x \in events', NEW y \in events', x.stream = y.stream, x # y
      PROVE  CyclesOf(x) \cap CyclesOf(y) = {}
  BY <1>1, <1>2, <1>3
<1> QED
  BY <1>3 DEF CycleReportedOnce, CyclesOf

LEMMA PairedInv ==
    ASSUME HttpOverTcp, MInv, IInv', NEW c \in Conns, NEW t, NEW k, Paired(c, t, k), Mine(c, t)
    PROVE  MInv'
<1>1. /\ pool' = [pool EXCEPT ![c] = IF Complete(t) THEN NoStream ELSE t]
      /\ Good(events', c, t) /\ Extended(t)
  BY DEF Paired, Keep
<1>2. IInv /\ (\A ev \in events : OneCycle(ev)) /\ CycleReportedOnce
  BY DEF MInv
<1>3. pool \in [Conns -> Streams] /\ stats.total_streams \in Nat /\ \A d \in Conns : pool[d].id \in Nat
  BY <1>2, CounterFacts DEF IInv, TypeOK, Streams
<1>4. \A ev \in events' : OneCycle(ev)
  BY <1>1, <1>2 DEF Extended
<1>5. CycleReportedOnce'
  <2>1. CASE events' = events
    BY <1>2, <2>1 DEF CycleReportedOnce, CyclesOf
  <2>2. CASE events' # events
    BY <1>1, <2>2, PairedReportedOnce DEF Extended
  <2> QED
    BY <2>1, <2>2
<1>6. ASSUME NEW d \in Conns, Live(d)' PROVE Good(events', d, pool'[d])
  <2>1. CASE d = c
    <3>1. pool'[d] = IF Complete(t) THEN NoStream ELSE t
      BY <1>1, <1>3, <2>1
    <3>2. pool'[d] # NoStream
      BY <1>6, NoStreamType DEF Live
    <3> QED
      BY <1>1, <2>1, <3>1, <3>2
  <2>2. CASE d # c
    <3>1. pool'[d] = pool[d]
      BY <1>1, <1>3, <2>2
    <3>2. Live(d)
      BY <1>6, <3>1 DEF Live
    <3>3. Good(events, d, pool[d])
      BY <3>2 DEF MInv
    <3>4. pool[d].id # t.id
      <4>1. pool[d].id <= stats.total_streams /\ (Live(c) => pool[d].id # pool[c].id)
        BY <1>2, <2>2, <3>2 DEF IInv, StreamAccounting
      <4> QED
        BY <1>3, <4>1 DEF Mine
    <3>5. \A ev \in events' : ev.stream = pool[d].id => ev \in events
      BY <1>1, <3>4 DEF Extended
    <3> QED
      BY <3>1, <3>3, <3>5 DEF Good, EventsSeen
  <2> QED
    BY <2>1, <2>2
<1>7. \A ev \in events' : OneCycle(ev)'
  BY <1>4 DEF OneCycle
<1>8. ASSUME NEW d \in Conns, Live(d)' PROVE Good(events, d, pool[d])'
  BY <1>6, <1>8 DEF Good, SeqOK, MsgOK, EventsSeen, Asked, Answered, Went
<1> QED
  BY <1>5, <1>7, <1>8 DEF MInv

\* What Accept makes of the stream of a packet that was taken from the source.
LEMMA AcceptedGood ==
    ASSUME MInv, source # << >>, NEW v \in Verdicts
    PROVE  LET item == Head(source)
               c == Traffic[item.pkt].conn
               a == Accepted(item, v)
           IN  /\ KeepPre(c, a.stream, a.counters) /\ ~Complete(a.stream)
               /\ Good(events, c, a.stream) /\ Mine(c, a.stream)
               /\ Stream(item.pkt) \in Streams /\ SameButMarks(Stream(item.pkt), a.stream)
               /\ Room => \A e \in Ends : Cardinality(a.stream.half[e].buffered) + 1 < MaxPages
<1> DEFINE item == Head(source)
           p == item.pkt
           c == Traffic[p].conn
           a == Accepted(item, v)
           s == Stream(p)
<1>2. source # << >> /\ IInv
  BY DEF MInv
<1>3. item \in [pkt: Packets, age: 0 .. MaxAge]
  BY <1>2, TakenFacts
<1>4. p \in Packets /\ c \in Conns /\ Traffic[p].from \in Ends
  BY <1>3, PacketFacts
<1>5. KeepPre(c, a.stream, a.counters) /\ SameButMarks(s, a.stream) /\ ~Complete(a.stream)
  BY <1>2, AcceptPre
<1>7. s \in Streams
  BY <1>2, <1>4, FactoryStream
<1>8. Good(events, c, s)
  <2>1. CASE Live(c)
    <3>1. s = pool[c]
      BY <2>1 DEF Stream
    <3> QED
      BY <1>4, <2>1, <3>1 DEF MInv
  <2>2. CASE ~Live(c)
    <3>1. s = NewStream(stats.total_streams + 1, Traffic[p].from)
      BY <1>2, <2>2, RoomToCount DEF Stream
    <3>2. stats.total_streams \in Nat
      BY <1>2, CounterFacts DEF IInv, TypeOK
    <3>3. \A ev \in events : ev.stream # stats.total_streams + 1
      BY <1>2, <3>2 DEF IInv, StreamAccounting, EventsNamed
    <3>4. stats.total_streams + 1 \in Nat
      BY <3>2
    <3> QED
      BY <1>4, <3>1, <3>3, <3>4, NewIsGood
  <2> QED
    BY <2>1, <2>2
<1> HIDE DEF a, item, s, c
<1>9. a.stream \in Streams /\ Mine(c, a.stream)
  BY <1>5 DEF KeepPre, Mine
<1> DEFINE t == a.stream
<1>10. t \in Streams /\ SameButMarks(s, t)
  BY <1>5, <1>9
<1> HIDE DEF t
<1>11. /\ t.messages = s.messages /\ t.src = s.src /\ t.id = s.id
       /\ \A e \in Ends : /\ t.half[e].nextSeq = s.half[e].nextSeq
                          /\ t.half[e].buffered = s.half[e].buffered
                          /\ s.half[e].nextSeq \in Nat
  BY <1>7, <1>10 DEF SameButMarks, Streams, Halves
<1>12. GoesOn(s, t)
  BY <1>11 DEF GoesOn
<1>13. Good(events, c, t)
  BY <1>7, <1>8, <1>10, <1>11, <1>12, SameIsGood
<1>14. Good(events, c, a.stream)
  BY <1>13 DEF t
<1>15. ASSUME Room
       PROVE  \A e \in Ends : Cardinality(a.stream.half[e].buffered) + 1 < MaxPages
  <2>1. \A e \in Ends : Cardinality(pool[c].half[e].buffered) + 1 < MaxPages
    BY <1>4, <1>15 DEF Room, c
  <2>2. \A e \in Ends : s.half[e].buffered = pool[c].half[e].buffered
    <3>1. CASE Live(c)
      BY <3>1 DEF s, c, Stream
    <3>2. CASE ~Live(c)
      <4>1. pool[c] = NoStream
        BY <1>2, <1>4, <3>2 DEF IInv, PoolOK, c
      <4>2. \A e \in Ends : s.half[e] = NewHalf /\ NoStream.half[e] = NewHalf
        BY <3>2 DEF s, c, Stream, NewStream, NoStream
      <4> QED
        BY <4>1, <4>2
    <3> QED
      BY <3>1, <3>2
  <2> QED
    BY <1>11, <2>1, <2>2 DEF t
<1> QED
  BY <1>5, <1>7, <1>9, <1>14, <1>15 DEF item, c, a, s

LEMMA PacketMatches ==
    ASSUME HttpOverTcp, Room, MInv, Packet
    PROVE  \E c \in Conns : \E t, k : Paired(c, t, k) /\ Mine(c, t)
<1> DEFINE item == Head(source)
           p == item.pkt
           c == Traffic[p].conn
<1>1. PICK v \in Verdicts : \/ Drop(item, Accepted(item, v)) \/ Forward(item, Accepted(item, v))
                            \/ Queue(item, Accepted(item, v))
  BY DEF Packet
<1>2. source # << >> /\ IInv
  BY DEF Packet, MInv
<1>3. item \in [pkt: Packets, age: 0 .. MaxAge] /\ p \in passed
  BY <1>2, TakenFacts
<1>4. c \in Conns
  BY <1>3, PacketFacts
<1> DEFINE a == Accepted(item, v)
<1>5. /\ KeepPre(c, a.stream, a.counters) /\ Good(events, c, a.stream) /\ Mine(c, a.stream)
      /\ \A e \in Ends : Cardinality(a.stream.half[e].buffered) + 1 < MaxPages
  BY <1>2, AcceptedGood
<1>6. Drop(item, a) \/ Forward(item, a) \/ Queue(item, a)
  BY <1>1
<1> HIDE DEF a, item, c
<1>7. \E u : Paired(c, u, a.counters) /\ u.id = a.stream.id
  <2>1. CASE Drop(item, a)
    <3>1. Keep(c, a.stream, a.counters) /\ events' = events
      BY <2>1 DEF Drop, c
    <3>2. Paired(c, a.stream, a.counters)
      BY <1>5, <3>1 DEF KeepPre, Paired, Extended
    <3> QED
      BY <3>2
  <2>2. CASE Forward(item, a)
    BY <1>2, <1>3, <1>5, <2>2, ForwardMatches DEF c
  <2>3. CASE Queue(item, a)
    BY <1>2, <1>3, <1>5, <2>3, QueueMatches DEF c
  <2> QED
    BY <1>6, <2>1, <2>2, <2>3
<1> QED
  BY <1>4, <1>5, <1>7 DEF Mine

\* The stream after one of its directions has been closed.
ClosedIn(s, e) == [s EXCEPT !.half = [s.half EXCEPT ![e] = Closed(s.half[e])]]

LEMMA CloseHalfMatches ==
    ASSUME IInv, NEW c \in Conns, NEW e \in Ends, Good(events, c, pool[c]), CloseHalf(c, e)
    PROVE  Paired(c, ClosedIn(pool[c], e), stats) /\ ClosedIn(pool[c], e).id = pool[c].id
<1> DEFINE s == pool[c]
           g == Closed(s.half[e])
           t == [s EXCEPT !.half = [s.half EXCEPT ![e] = g]]
<1>1. Keep(c, [s EXCEPT !.half[e] = Closed(@)], stats) /\ events' = events
  BY DEF CloseHalf
<1>2. s \in Streams /\ Good(events, c, s)
  BY DEF IInv, TypeOK
<1> HIDE DEF s
<1>3. s.half \in [Ends -> Halves] /\ s.half[e] \in Halves
  BY <1>2 DEF Streams
<1>4. [s EXCEPT !.half[e] = Closed(@)] = t
  BY <1>2, <1>3 DEF Streams
<1>5. g \in Halves /\ g.buffered = {} /\ g.nextSeq = s.half[e].nextSeq
  BY <1>3, ClosedHalf
<1> HIDE DEF g
<1>6. t \in Streams /\ t.id = s.id
  BY <1>2, <1>3, <1>5 DEF Streams
<1>7. Good(events, c, t)
  BY <1>2, <1>5, <1>6, QueuedIsGood
<1>8. Paired(c, t, stats)
  BY <1>1, <1>4, <1>6, <1>7 DEF Paired, Extended
<1> QED
  BY <1>6, <1>8 DEF ClosedIn, s, g

LEMMA FlushStepMatches ==
    ASSUME HttpOverTcp, MInv, NEW c \in Conns, NEW e \in Ends, FlushRun(c, e) \/ CloseHalf(c, e)
    PROVE  \E t : Paired(c, t, stats) /\ Mine(c, t)
<1>1. IInv /\ Live(c) /\ Good(events, c, pool[c])
  BY DEF MInv, FlushRun, CloseHalf
<1>2. CASE FlushRun(c, e)
  BY <1>1, <1>2, FlushMatches DEF Mine
<1>3. CASE CloseHalf(c, e)
  BY <1>1, <1>3, CloseHalfMatches DEF Mine
<1> QED
  BY <1>2, <1>3

\* Steps that make no event and leave the streams' knowledge alone.
LEMMA QuietMatching ==
    ASSUME MInv, IInv', events' = events,
           \A c \in Conns : Live(c)' => Live(c) /\ Good(events, c, pool'[c])
    PROVE  MInv'
<1>1. (\A ev \in events : OneCycle(ev)) /\ CycleReportedOnce
  BY DEF MInv
<1>2. \A ev \in events' : OneCycle(ev)'
  BY <1>1 DEF OneCycle
<1>3. CycleReportedOnce'
  BY <1>1 DEF CycleReportedOnce, CyclesOf
<1>4. ASSUME NEW d \in Conns, Live(d)' PROVE Good(events, d, pool[d])'
  BY <1>4 DEF Good, SeqOK, MsgOK, EventsSeen, Asked, Answered, Went
<1> QED
  BY <1>2, <1>3, <1>4 DEF MInv

LEMMA TickMatching == ASSUME MInv, IInv', Tick PROVE MInv'
<1>1. /\ events' = events
      /\ pool' = [c \in Conns |-> IF Live(c)
                                  THEN [pool[c] EXCEPT !.half = [e \in Ends |-> OlderHalf(@[e])]]
                                  ELSE NoStream]
  BY DEF Tick
<1>2. ASSUME NEW c \in Conns, Live(c)' PROVE Live(c) /\ Good(events, c, pool'[c])
  <2> DEFINE s == pool[c]
             t == [s EXCEPT !.half = [e \in Ends |-> OlderHalf(@[e])]]
             g == [e \in Ends |-> OlderHalf(s.half[e])]
  <2>1. Live(c) /\ pool'[c] = t
    <3>1. pool'[c] = IF Live(c) THEN t ELSE NoStream
      BY <1>1
    <3>2. pool'[c] # NoStream
      BY <1>2, NoStreamType DEF Live
    <3> QED
      BY <3>1, <3>2
  <2>2. s \in Streams /\ Good(events, c, s) /\ StreamOK(c, s)
    BY <2>1 DEF MInv, IInv, TypeOK, PoolOK
  <2> HIDE DEF s
  <2>3. t \in Streams
    BY <2>2, OlderStream
  <2>4. s.half \in [Ends -> Halves]
    BY <2>2 DEF Streams
  <2>5. t = [s EXCEPT !.half = g]
    BY <2>2 DEF Streams
  <2>6. t.half = g /\ t.id = s.id /\ t.src = s.src /\ t.messages = s.messages
    BY <2>2, <2>5 DEF Streams
  <2> HIDE DEF t
  <2>7. ASSUME NEW e \in Ends
        PROVE  /\ t.half[e].nextSeq = s.half[e].nextSeq /\ s.half[e].nextSeq \in Nat
               /\ \A i \in t.half[e].buffered : \E j \in s.half[e].buffered : i.pkt = j.pkt
    <3> DEFINE h == s.half[e]
    <3>1. t.half[e] = OlderHalf(h) /\ h \in Halves
      BY <2>4, <2>6
    <3> HIDE DEF h
    <3>2. OlderHalf(h).nextSeq = h.nextSeq /\ h.nextSeq \in Nat
          /\ OlderHalf(h).buffered = {OlderItem(i) : i \in h.buffered}
      BY <3>1 DEF OlderHalf, Halves
    <3>3. \A i \in h.buffered : OlderItem(i).pkt = i.pkt
      BY <3>1, OlderType DEF Halves
    <3> QED
      BY <3>1, <3>2, <3>3 DEF h
  <2>8. GoesOn(s, t)
    BY <2>6, <2>7 DEF GoesOn
  <2>9. Good(events, c, t)
    BY <2>2, <2>3, <2>6, <2>7, <2>8, SameIsGood
  <2> QED
    BY <2>1, <2>9
<1> QED
  BY <1>1, <1>2, QuietMatching

(* Every step of the assembler keeps the invariant, and an event that it   *)
(* makes is later than those its stream has made.                          *)
LEMMA MInvNext ==
    ASSUME HttpOverTcp, Room, MInv, [Next]_vars
    PROVE  /\ MInv'
           /\ events' = events \/ \E ev : events' = events \cup {ev} /\ Latest(ev)
<1>1. IInv'
  BY NextIInv DEF MInv
<1>2. ASSUME NEW c \in Conns, NEW t, NEW k, Paired(c, t, k), Mine(c, t)
      PROVE  MInv' /\ (events' = events \/ \E ev : events' = events \cup {ev} /\ Latest(ev))
  <2>1. MInv'
    BY <1>1, <1>2, PairedInv
  <2>2. Extended(t)
    BY <1>2 DEF Paired
  <2> QED
    BY <2>1, <2>2 DEF Extended
<1>3. ASSUME pool' = pool, events' = events PROVE MInv'
  <2>1. \A c \in Conns : Live(c)' => Live(c) /\ Good(events, c, pool'[c])
    BY <1>3 DEF Live, MInv
  <2> QED
    BY <1>1, <1>3, <2>1, QuietMatching
<1>4. CASE \E p \in Packets : Capture(p) \/ Lose(p)
  BY <1>3, <1>4 DEF Capture, Lose
<1>5. CASE Tick
  BY <1>1, <1>5, TickMatching DEF Tick
<1>6. CASE Packet
  <2>1. PICK c \in Conns : \E t, k : Paired(c, t, k) /\ Mine(c, t)
    BY <1>6, PacketMatches
  <2>2. PICK t, k : Paired(c, t, k) /\ Mine(c, t)
    BY <2>1
  <2> QED
    BY <1>2, <2>2
<1>7. CASE FlushStep
  <2>1. PICK c \in Conns, e \in Ends : FlushRun(c, e) \/ CloseHalf(c, e) \/ NextHalf(c, e)
    BY <1>7 DEF FlushStep
  <2>2. CASE FlushRun(c, e) \/ CloseHalf(c, e)
    <3>1. PICK t : Paired(c, t, stats) /\ Mine(c, t)
      BY <2>2, FlushStepMatches
    <3> QED
      BY <1>2, <3>1
  <2>3. CASE NextHalf(c, e)
    BY <1>3, <2>3 DEF NextHalf
  <2> QED
    BY <2>1, <2>2, <2>3
<1>8. CASE BeginFlush \/ BeginStop \/ Stopped
  BY <1>3, <1>8 DEF BeginFlush, BeginStop, Stopped
<1>9. CASE UNCHANGED vars
  BY <1>3, <1>9 DEF vars
<1> QED
  BY <1>4, <1>5, <1>6, <1>7, <1>8, <1>9 DEF Next

LEMMA MInvInit == ASSUME Init PROVE MInv
<1>1. IInv
  BY InitIInv
<1>2. events = {} /\ \A c \in Conns : ~Live(c)
  BY NoStreamType DEF Init, Live
<1> QED
  BY <1>1, <1>2 DEF MInv, CycleReportedOnce

(* The inductive invariant of the pairing.                                 *)
THEOREM MatchingInvariance == ASSUME HttpOverTcp PROVE Spec /\ []Room => []MInv
<1>1. Init => MInv
  BY MInvInit
<1>2. MInv /\ Room /\ [Next]_vars => MInv'
  BY MInvNext
<1> QED
  BY <1>1, <1>2, PTL DEF Spec

(* There is room while the traffic is smaller than the limit of pages: a   *)
(* direction buffers a packet once.                                        *)
THEOREM RoomEnough == ASSUME Cardinality(Packets) + 1 < MaxPages PROVE Spec => []Room
<1>1. ASSUME IInv PROVE Room
  <2> SUFFICES ASSUME NEW c \in Conns, NEW e \in Ends
               PROVE  Cardinality(pool[c].half[e].buffered) + 1 < MaxPages
    BY DEF Room
  <2> DEFINE h == pool[c].half[e]
             f == [i \in h.buffered |-> i.pkt]
  <2>1. pool[c] \in Streams /\ h \in Halves
    BY <1>1 DEF IInv, TypeOK, Streams
  <2>2. HalfOK(c, e, h)
    <3>1. CASE Live(c)
      BY <1>1, <3>1 DEF IInv, PoolOK, StreamOK
    <3>2. CASE ~Live(c)
      <4>1. h.buffered = {}
        BY <1>1, <3>2 DEF IInv, PoolOK, NoStream, NewStream, NewHalf
      <4> QED
        BY <4>1 DEF HalfOK
    <3> QED
      BY <3>1, <3>2
  <2>3. h.buffered \subseteq [pkt: Packets, age: 0 .. MaxAge]
    BY <2>1 DEF Halves
  <2> HIDE DEF h
  <2>4. f \in Injection(h.buffered, Packets)
    BY <2>2, <2>3 DEF Injection, IsInjective, HalfOK
  <2>5. Cardinality(h.buffered) <= Cardinality(Packets) /\ IsFiniteSet(h.buffered)
    BY <2>4, FiniteTraffic, FS_Injection
  <2>6. Cardinality(h.buffered) \in Nat /\ Cardinality(Packets) \in Nat
    BY <2>5, FiniteTraffic, FS_CardinalityType
  <2> QED
    BY <2>5, <2>6, TimeFacts DEF h
<1> QED
  BY Invariance, <1>1, PTL

(* Every event is one request and its own response, whatever was lost,     *)
(* retransmitted, overtaken, buffered or flushed on the way: the numbers   *)
(* by which ReassembledSG pairs the two never bring together messages of   *)
(* different cycles, for any number of connections, any orderly traffic    *)
(* and any timing, as long as the page limit is not reached.               *)
THEOREM EventsAreCycles == ASSUME HttpOverTcp PROVE Spec /\ []Room => []EventIsOneCycle
<1>1. MInv => EventIsOneCycle
  BY DEF MInv, OneCycle, EventIsOneCycle
<1> QED
  BY MatchingInvariance, <1>1, PTL

(* A cycle makes one event in a stream at most, though packets are         *)
(* captured more than once.                                                *)
THEOREM CyclesReportedOnce == ASSUME HttpOverTcp PROVE Spec /\ []Room => []CycleReportedOnce
<1>1. MInv => CycleReportedOnce
  BY DEF MInv
<1> QED
  BY MatchingInvariance, <1>1, PTL

-----------------------------------------------------------------------------
(* The order of the export.                                                *)

\* What parse has found is later than what has been sent of its stream.
FoundIsLater ==
    found # NoEvent =>
        \A i \in DOMAIN log :
            log[i].stream = found.stream => CycleAt(i) < Traffic[found.entry.request].cycle

OInv == AInv /\ MInv /\ ExportedInRequestOrder /\ FoundIsLater

\* A step that may find an event.
LEMMA FoundInOrder ==
    ASSUME HttpOverTcp, Room, OInv, [Next]_vars, found = NoEvent, Note, log' = log
    PROVE  ExportedInRequestOrder' /\ FoundIsLater'
<1>1. ExportedInRequestOrder'
  BY DEF OInv, ExportedInRequestOrder, CycleAt
<1>2. \A i \in DOMAIN log : log[i] \in events
  BY DEF OInv, AInv, EveryMatchSentOnce
<1>3. CASE events' = events
  BY <1>1, <1>3 DEF Note, FoundIsLater
<1>4. CASE events' # events
  <2>1. PICK ev : events' = events \cup {ev} /\ Latest(ev)
    BY <1>4, MInvNext DEF OInv
  <2>2. events' \ events = {ev}
    BY <1>4, <2>1
  <2>3. found' = ev
    BY <1>4, <2>2 DEF Note
  <2>4. \A i \in DOMAIN log : log[i].stream = ev.stream
              => Traffic[log[i].entry.request].cycle < Traffic[ev.entry.request].cycle
    BY <1>2, <2>1 DEF Latest
  <2>5. FoundIsLater'
    BY <2>3, <2>4 DEF FoundIsLater, CycleAt
  <2> QED
    BY <1>1, <2>5
<1> QED
  BY <1>3, <1>4

LEMMA SentInOrder ==
    ASSUME OInv, Send
    PROVE  ExportedInRequestOrder' /\ FoundIsLater'
<1>1. found # NoEvent /\ log' = Append(log, found) /\ found' = NoEvent
  BY DEF Send
<1>2. /\ events = {log[i] : i \in DOMAIN log} \cup ({found} \ {NoEvent}) /\ log \in Seq(events)
  BY DEF OInv, AInv, EveryMatchSentOnce
<1>3. found \in events
  BY <1>1, <1>2
<1>4. /\ Len(log) \in Nat /\ DOMAIN log = 1 .. Len(log) /\ DOMAIN log' = 1 .. Len(log) + 1
      /\ log'[Len(log) + 1] = found /\ \A i \in 1 .. Len(log) : log'[i] = log[i]
  BY <1>1, <1>2, <1>3
<1>5. \A i, j \in DOMAIN log : i < j /\ log[i].stream = log[j].stream
          => Traffic[log[i].entry.request].cycle < Traffic[log[j].entry.request].cycle
  BY DEF OInv, ExportedInRequestOrder, CycleAt
<1>6. \A i \in DOMAIN log : log[i].stream = found.stream
          => Traffic[log[i].entry.request].cycle < Traffic[found.entry.request].cycle
  BY <1>1 DEF OInv, FoundIsLater, CycleAt
<1>7. ASSUME NEW i \in DOMAIN log', NEW j \in DOMAIN log', i < j, log'[i].stream = log'[j].stream
      PROVE  Traffic[log'[i].entry.request].cycle < Traffic[log'[j].entry.request].cycle
  <2>1. i \in DOMAIN log /\ log'[i] = log[i]
    BY <1>4, <1>7
  <2>2. CASE j \in DOMAIN log
    BY <1>4, <1>5, <1>7, <2>1, <2>2
  <2>3. CASE j = Len(log) + 1
    BY <1>4, <1>6, <1>7, <2>1, <2>3
  <2> QED
    BY <1>4, <2>2, <2>3
<1>8. ExportedInRequestOrder'
  BY <1>7 DEF ExportedInRequestOrder, CycleAt
<1> QED
  BY <1>1, <1>8 DEF FoundIsLater

LEMMA OInvNext ==
    ASSUME HttpOverTcp, Room, OInv, [AgentNext]_agentVars
    PROVE  OInv'
<1>1. AInv' /\ [Next]_vars
  BY AInvNext, AgentStep DEF OInv
<1>2. MInv'
  BY <1>1, MInvNext DEF OInv
<1>3. ExportedInRequestOrder' /\ FoundIsLater'
  <2>1. CASE TakePacket
    <3>1. assembler = "select" /\ Note /\ log' = log
      BY <2>1 DEF TakePacket, P!BeginWork
    <3>2. found = NoEvent
      BY <3>1 DEF OInv, AInv, Attended
    <3> QED
      BY <1>1, <3>1, <3>2, FoundInOrder
  <2>2. CASE Flush
    <3>1. found = NoEvent /\ Note /\ log' = log
      BY <2>2 DEF Flush, Parsed
    <3> QED
      BY <1>1, <3>1, FoundInOrder
  <2>3. CASE Send
    BY <2>3, SentInOrder
  <2>4. CASE UNCHANGED <<found, log>>
    BY <2>4 DEF OInv, ExportedInRequestOrder, FoundIsLater, CycleAt
  <2>5. TakePacket \/ Flush \/ Send \/ UNCHANGED <<found, log>>
    BY DEF AgentNext, agentVars, TakeTick, TakeDone, TakeStats, Finished, Return, Others,
                 Outside
  <2> QED
    BY <2>1, <2>2, <2>3, <2>4, <2>5
<1> QED
  BY <1>1, <1>2, <1>3 DEF OInv

(* What is exported of a connection comes in the order in which its client *)
(* sent the requests, though a response may wait behind a hole until it is *)
(* flushed and a flush, in the middle, for room in a channel of any size.  *)
THEOREM RequestOrderKept ==
    ASSUME HttpOverTcp PROVE AgentSpec /\ []Room => []ExportedInRequestOrder
<1>1. AgentInit => OInv
  <2> SUFFICES ASSUME AgentInit PROVE OInv
    OBVIOUS
  <2>1. AInv /\ MInv
    BY AInvInit, MInvInit DEF AgentInit
  <2>2. found = NoEvent /\ DOMAIN log = {}
    BY DEF AgentInit
  <2> QED
    BY <2>1, <2>2 DEF OInv, ExportedInRequestOrder, FoundIsLater
<1>2. OInv /\ Room /\ [AgentNext]_agentVars => OInv'
  BY OInvNext
<1>3. OInv => ExportedInRequestOrder
  BY DEF OInv
<1> QED
  BY <1>1, <1>2, <1>3, PTL DEF AgentSpec
=============================================================================
