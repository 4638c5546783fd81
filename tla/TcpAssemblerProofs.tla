------------------------- MODULE TcpAssemblerProofs -------------------------
(***************************************************************************)
(* What the assembler keeps for every traffic, loss, reordering, verdict   *)
(* and timing: its accounting of streams and rejections, the bound on its  *)
(* pages, when it closes a stream, that flushes end, that Stop leaves      *)
(* nothing behind, and that events do not mix connections.                 *)
(*                                                                         *)
(* All changes of the pool go through Keep, so the work is to show that    *)
(* what is given to it is a proper stream of the connection with the       *)
(* counters that belong to it (KeepPre), and to show once what Keep makes  *)
(* of that.  The counters never wrap because a stream, and a rejection,    *)
(* takes a packet from the source (CountersBounded).                       *)
(***************************************************************************)
EXTENDS TcpAssembler, FiniteSetTheorems, SequenceTheorems, TLAPS

\* A packet of direction e of connection c that has gone by.
Arrived(c, e, p) == p \in passed /\ Traffic[p].conn = c /\ Traffic[p].from = e

\* A direction buffers packets of its own, one for each sequence number.
HalfOK(c, e, h) ==
    /\ \A i \in h.buffered : Arrived(c, e, i.pkt)
    /\ \A i, j \in h.buffered : Traffic[i.pkt].seq = Traffic[j.pkt].seq => i = j
    /\ h.closed => h.buffered = {}

StreamOK(c, s) ==
    \A e \in Ends : HalfOK(c, e, s.half[e]) /\ Cardinality(s.half[e].buffered) < MaxPages

\* What is in the pool is open and in order, the rest is as if it had never been.
PoolOK ==
    /\ \A n \in DOMAIN source : source[n].pkt \in passed
    /\ \A c \in Conns : IF Live(c) THEN StreamOK(c, pool[c]) /\ ~Complete(pool[c])
                        ELSE pool[c] = NoStream

LiveConns   == {c \in Conns : Live(c)}
Rejected    == {c \in Conns : pool[c].fsmerr}
Unrejected  == {c \in Conns : Live(c) /\ ~pool[c].fsmerr}

CountersBounded ==
    /\ stats.total_streams + Len(source) <= Cardinality(passed)
    /\ stats.rejectFsm + Len(source) <= Cardinality(passed)
    /\ stats.active_streams <= stats.total_streams

Rejections ==
    /\ stats.rejectConnFsm <= stats.rejectFsm
    /\ stats.rejectConnFsm + Cardinality(Unrejected) <= stats.total_streams
    /\ stats.rejectConnFsm >= Cardinality(Rejected)

\* How far Stop's flush is.
Stopping ==
    /\ phase = "stopping" =>
          \A c \in Conns, e \in Ends :
              Live(c) /\ <<c, e>> \notin todo => pool[c].half[e].closed
    /\ phase = "stopped" => todo = {} /\ LiveConns = {}

\* Every event was made by a stream that has been counted.
EventsNamed == \A ev \in events : ev.stream \in Nat \ {0}

IInv ==
    /\ TypeOK /\ PoolOK /\ EventsNamed /\ CountersBounded /\ StreamAccounting /\ Rejections
    /\ Stopping

-----------------------------------------------------------------------------
(* The constants.                                                          *)

LEMMA PacketFacts ==
    ASSUME NEW p \in Packets
    PROVE  /\ p \in Nat \ {0} /\ Traffic[p].conn \in Conns /\ Traffic[p].from \in Ends
           /\ Traffic[p].seq \in Nat \ {0} /\ Traffic[p].len \in Nat \ {0}
           /\ Traffic[p].ack \in Nat /\ Traffic[p].fin \in BOOLEAN
           /\ Traffic[p].seq \in Keys /\ Traffic[p].ack \in Keys
           /\ EndSeq(p) \in Nat /\ EndSeq(p) > Traffic[p].seq
<1>1. /\ Traffic[p].from \in Ends /\ Traffic[p].seq \in Nat \ {0} /\ Traffic[p].ack \in Nat
      /\ Traffic[p].len \in Nat \ {0} /\ Traffic[p].fin \in BOOLEAN
  BY AssemblerConstants, Zenon
<1>2. Packets = 1 .. Len(Traffic) /\ Len(Traffic) \in Nat
  BY AssemblerConstants, Zenon
<1> QED
  BY <1>1, <1>2 DEF Conns, Keys, EndSeq

LEMMA FiniteTraffic ==
    /\ IsFiniteSet(Packets) /\ Cardinality(Packets) < Word /\ Word \in Nat /\ IsFiniteSet(Conns)
    /\ Cardinality(Packets) \in Nat
<1>1. Packets = 1 .. Len(Traffic) /\ Len(Traffic) \in Nat /\ Word \in Nat /\ Len(Traffic) < Word
  BY AssemblerConstants, Zenon
<1>2. IsFiniteSet(Packets) /\ Cardinality(Packets) = Len(Traffic)
  <2> DEFINE n == Len(Traffic)
  <2> HIDE DEF n
  <2>1. n \in Nat /\ n \in Int /\ 1 \in Int
    BY <1>1 DEF n
  <2>2. IsFiniteSet(1 .. n) /\ Cardinality(1 .. n) = IF 1 > n THEN 0 ELSE n - 1 + 1
    BY <2>1, FS_Interval
  <2> QED
    BY <1>1, <2>1, <2>2 DEF n
<1>3. IsFiniteSet(Conns)
  <2> DEFINE f == [p \in Packets |-> Traffic[p].conn]
  <2>1. f \in Surjection(Packets, Conns)
    BY DEF Surjection, Conns
  <2> QED
    BY <1>2, <2>1, FS_Surjection
<1> QED
  BY <1>1, <1>2, <1>3

LEMMA TimeFacts ==
    /\ FlushTimeout \in Nat /\ CloseTimeout \in Nat /\ MaxAge \in Nat /\ MaxAge > CloseTimeout
    /\ MaxPages \in Nat \ {0}
<1>1. FlushTimeout \in Nat /\ CloseTimeout \in Nat /\ MaxPages \in Nat \ {0}
  BY AssemblerConstants, Zenon
<1> QED
  BY <1>1 DEF MaxAge

-----------------------------------------------------------------------------
(* First and Last of a batch are in it.                                    *)

LEMMA MaxExists ==
    ASSUME NEW S, IsFiniteSet(S), S # {}, NEW f \in [S -> Int]
    PROVE  \E p \in S : \A q \in S : f[q] <= f[p]
<1> DEFINE U(p) == {q \in S : f[q] > f[p]}
           T == {U(p) : p \in S}
           R == StrictSubsetOrdering(S)
<1>1. IsWellFoundedOn(R, FiniteSubsetsOf(S))
  BY FS_StrictSubsetOrderingWellFounded
<1>2. T \subseteq FiniteSubsetsOf(S) /\ T # {}
  <2>1. FiniteSubsetsOf(S) = SUBSET S
    BY FS_FiniteSubsetsOfFinite
  <2>2. \A p \in S : U(p) \in SUBSET S
    OBVIOUS
  <2>3. PICK p \in S : TRUE
    OBVIOUS
  <2>4. U(p) \in T
    OBVIOUS
  <2> HIDE DEF U
  <2> QED
    BY <2>1, <2>2, <2>4
<1>3. PICK x \in T : \A y \in T : ~(<<y, x>> \in R)
  <2> HIDE DEF T, R
  <2> QED
    BY <1>1, <1>2, WFMin
<1>4. PICK p \in S : x = U(p)
  OBVIOUS
<1>5. SUFFICES ASSUME NEW q \in S, ~(f[q] <= f[p]) PROVE FALSE
  OBVIOUS
<1>6. f[q] \in Int /\ f[p] \in Int /\ f[q] > f[p]
  BY <1>5
<1>7. U(q) \subseteq U(p) /\ q \in U(p) /\ q \notin U(q)
  BY <1>6
<1>8. <<U(q), U(p)>> \in R
  BY <1>7 DEF StrictSubsetOrdering
<1> QED
  BY <1>3, <1>4, <1>8

LEMMA LastIn ==
    ASSUME NEW batch \in SUBSET Packets, batch # {}
    PROVE  Last(batch) \in batch /\ \A q \in batch : Traffic[q].seq <= Traffic[Last(batch)].seq
<1> DEFINE f == [p \in batch |-> Traffic[p].seq]
<1>1. f \in [batch -> Int]
  BY PacketFacts
<1>2. IsFiniteSet(batch)
  BY FiniteTraffic, FS_Subset
<1>3. \E p \in batch : \A q \in batch : f[q] <= f[p]
  <2> HIDE DEF f
  <2> QED
    BY <1>1, <1>2, MaxExists
<1>4. \E p \in batch : \A q \in batch : Traffic[q].seq <= Traffic[p].seq
  BY <1>3
<1> QED
  BY <1>4 DEF Last

LEMMA FirstIn ==
    ASSUME NEW batch \in SUBSET Packets, batch # {}
    PROVE  First(batch) \in batch /\ \A q \in batch : Traffic[First(batch)].seq <= Traffic[q].seq
<1> DEFINE f == [p \in batch |-> 0 - Traffic[p].seq]
<1>1. f \in [batch -> Int]
  BY PacketFacts
<1>2. IsFiniteSet(batch)
  BY FiniteTraffic, FS_Subset
<1>3. \E p \in batch : \A q \in batch : f[q] <= f[p]
  <2> HIDE DEF f
  <2> QED
    BY <1>1, <1>2, MaxExists
<1>4. \E p \in batch : \A q \in batch : Traffic[p].seq <= Traffic[q].seq
  <2>1. PICK p \in batch : \A q \in batch : f[q] <= f[p]
    BY <1>3
  <2>2. ASSUME NEW q \in batch PROVE Traffic[p].seq <= Traffic[q].seq
    BY <2>1, PacketFacts
  <2> QED
    BY <2>2
<1> QED
  BY <1>4 DEF First

-----------------------------------------------------------------------------
(* The callback and what it leaves of a stream.                            *)

LEMMA NoEntryType == NoEntry \in Entry
BY DEF NoEntry, Entry, Nil

LEMMA MatcherType ==
    ASSUME NEW m \in [Keys -> Entry], NEW k \in Keys, NEW filled \in Entry
    PROVE  /\ GetOrStore(m, k, filled).messages \in [Keys -> Entry]
           /\ GetOrStore(m, k, filled).match \in Entry
BY NoEntryType DEF GetOrStore

LEMMA FilledType ==
    ASSUME NEW x \in Entry, NEW t \in Nat, NEW msg \in Nat, NEW n \in Nat
    PROVE  WithRequest(x, t, msg, n) \in Entry /\ WithResponse(x, t, msg, n) \in Entry
BY DEF WithRequest, WithResponse, Entry

LEMMA BatchType ==
    ASSUME NEW s \in Streams, NEW e \in Ends, NEW batch \in SUBSET Packets, batch # {},
           NEW ctx \in Packets
    PROVE  /\ ReassembledSG(s, e, batch, ctx).messages \in [Keys -> Entry]
           /\ ReassembledSG(s, e, batch, ctx).match \in Entry
           /\ RequestId(ctx, e = s.src) \in Keys
<1> DEFINE id == RequestId(ctx, e = s.src)
           msg == First(batch)
           n == Cardinality(batch)
           m == s.messages
<1>1. id \in Keys
  BY PacketFacts DEF RequestId
<1>2. msg \in Nat /\ ctx \in Nat
  BY FirstIn, PacketFacts
<1>3. n \in Nat
  BY FiniteTraffic, FS_Subset, FS_CardinalityType
<1>4. m \in [Keys -> Entry]
  BY DEF Streams
<1>5. m[id] \in Entry
  BY <1>1, <1>4
<1> HIDE DEF id, msg, n, m
<1>6. /\ GetOrStoreRequest(m, id, ctx, msg, n).messages \in [Keys -> Entry]
      /\ GetOrStoreRequest(m, id, ctx, msg, n).match \in Entry
  BY <1>1, <1>2, <1>3, <1>4, <1>5, FilledType, MatcherType DEF GetOrStoreRequest
<1>7. /\ GetOrStoreResponse(m, id, ctx, msg, n).messages \in [Keys -> Entry]
      /\ GetOrStoreResponse(m, id, ctx, msg, n).match \in Entry
  BY <1>1, <1>2, <1>3, <1>4, <1>5, FilledType, MatcherType DEF GetOrStoreResponse
<1>8. \/ ReassembledSG(s, e, batch, ctx) = [messages |-> m, match |-> NoEntry]
      \/ ReassembledSG(s, e, batch, ctx) = GetOrStoreRequest(m, id, ctx, msg, n)
      \/ ReassembledSG(s, e, batch, ctx) = GetOrStoreResponse(m, id, ctx, msg, n)
  BY DEF ReassembledSG, id, msg, n, m
<1> QED
  BY <1>1, <1>4, <1>6, <1>7, <1>8, NoEntryType DEF id

LEMMA ClosedHalf ==
    ASSUME NEW h \in Halves
    PROVE  Closed(h) \in Halves /\ Closed(h).closed /\ Closed(h).buffered = {}
           /\ Closed(h).nextSeq = h.nextSeq /\ Closed(h).idle = h.idle
BY DEF Closed, Halves

LEMMA AfterHalf ==
    ASSUME NEW h \in Halves, NEW batch \in SUBSET Packets, batch # {}
    PROVE  LET a == After(h, batch)
           IN  /\ a \in Halves
               /\ a.buffered \subseteq {i \in h.buffered : i.pkt \notin batch}
               /\ a.closed => h.closed \/ Traffic[Last(batch)].fin
               /\ h.closed => a.closed
               /\ a.closed => a.buffered = {} \/ h.closed
               /\ a.nextSeq = EndSeq(Last(batch)) /\ a.idle = h.idle
<1> DEFINE l == Last(batch)
           rest == [h EXCEPT !.nextSeq = EndSeq(l), !.buffered = {i \in @ : i.pkt \notin batch}]
           a == After(h, batch)
<1>1. l \in Packets /\ EndSeq(l) \in Nat
  BY LastIn, PacketFacts
<1>2. /\ rest \in Halves /\ rest.buffered = {i \in h.buffered : i.pkt \notin batch}
      /\ rest.closed = h.closed /\ rest.nextSeq = EndSeq(l) /\ rest.idle = h.idle
  BY <1>1 DEF Halves
<1>3. a = IF Traffic[l].fin THEN Closed(rest) ELSE rest
  BY DEF After
<1> HIDE DEF rest, a, l
<1>4. CASE Traffic[l].fin
  <2>1. a = Closed(rest)
    BY <1>3, <1>4
  <2>2. /\ a \in Halves /\ a.closed /\ a.buffered = {} /\ a.nextSeq = rest.nextSeq
        /\ a.idle = rest.idle
    BY <1>2, <2>1, ClosedHalf
  <2> QED
    BY <1>2, <1>4, <2>2 DEF l, a
<1>5. CASE ~Traffic[l].fin
  BY <1>2, <1>3, <1>5 DEF l, a
<1> QED
  BY <1>4, <1>5

(* A direction that has lost some of its buffer is as good as before.      *)
LEMMA SmallerHalf ==
    ASSUME NEW c, NEW e, NEW h \in Halves, NEW g \in Halves, HalfOK(c, e, h),
           g.buffered \subseteq h.buffered, g.closed => g.buffered = {} \/ h.closed
    PROVE  HalfOK(c, e, g)
BY DEF HalfOK

LEMMA BufferedFinite ==
    ASSUME NEW c, NEW e, NEW h \in Halves, HalfOK(c, e, h)
    PROVE  /\ IsFiniteSet(h.buffered) /\ Buffered(h) \subseteq Packets
           /\ Cardinality(h.buffered) <= Cardinality(Buffered(h))
           /\ Cardinality(h.buffered) \in Nat /\ Cardinality(Buffered(h)) \in Nat
<1> DEFINE f == [i \in h.buffered |-> i.pkt]
<1>1. Buffered(h) \subseteq Packets /\ \A i \in h.buffered : i.pkt \in Buffered(h)
  BY DEF Buffered, Halves
<1>2. IsFiniteSet(Buffered(h))
  BY <1>1, FiniteTraffic, FS_Subset
<1>3. f \in Injection(h.buffered, Buffered(h))
  <2>1. \A i, j \in h.buffered : i.pkt = j.pkt => i = j
    BY DEF HalfOK
  <2> QED
    BY <1>1, <2>1 DEF Injection, IsInjective
<1>4. IsFiniteSet(h.buffered) /\ Cardinality(h.buffered) <= Cardinality(Buffered(h))
  BY <1>2, <1>3, FS_Injection
<1> QED
  BY <1>1, <1>2, <1>4, FS_CardinalityType

-----------------------------------------------------------------------------
(* Keep.                                                                   *)

LEMMA CountUp == ASSUME NEW n \in Nat, n + 1 < Word PROVE Inc(n) = n + 1
BY FiniteTraffic DEF Inc

LEMMA CountDown == ASSUME NEW n \in Nat, n >= 1, n < Word PROVE Dec(n) = n - 1
BY FiniteTraffic DEF Dec

LEMMA NewStreamType ==
    ASSUME NEW id \in Nat, NEW src \in Ends, NEW c
    PROVE  /\ NewStream(id, src) \in Streams /\ StreamOK(c, NewStream(id, src))
           /\ ~Complete(NewStream(id, src)) /\ NewStream(id, src).id = id
           /\ ~NewStream(id, src).fsmerr
<1>1. NewHalf \in Halves /\ NewHalf.buffered = {} /\ ~NewHalf.closed
  BY TimeFacts DEF NewHalf, Halves, Unstarted
<1>2. NewMatcher(Keys) \in [Keys -> Entry]
  BY NoEntryType DEF NewMatcher
<1> DEFINE s == NewStream(id, src)
<1>3. /\ s \in Streams /\ s.id = id /\ ~s.fsmerr /\ \A e \in Ends : s.half[e] = NewHalf
  BY <1>1, <1>2 DEF NewStream, Streams
<1> HIDE DEF s
<1>4. \A e \in Ends : HalfOK(c, e, s.half[e]) /\ Cardinality(s.half[e].buffered) < MaxPages
  BY <1>1, <1>3, FS_EmptySet, TimeFacts DEF HalfOK
<1>5. ~Complete(s)
  BY <1>1, <1>3 DEF Complete, Ends
<1> QED
  BY <1>3, <1>4, <1>5 DEF StreamOK, s

LEMMA NoStreamType == NoStream \in Streams /\ NoStream.id = 0 /\ ~NoStream.fsmerr
<1>1. 0 \in Nat /\ "client" \in Ends
  BY DEF Ends
<1> QED
  BY <1>1, NewStreamType DEF NoStream

\* What Keep is given: a stream of the connection, with the counters for it.
KeepPre(c, s, k) ==
    /\ s \in Streams /\ StreamOK(c, s) /\ k \in Counters
    /\ Live(c) => /\ s.id = pool[c].id /\ k.total_streams = stats.total_streams
                  /\ k.active_streams = stats.active_streams
    /\ ~Live(c) => /\ s.id = stats.total_streams + 1
                   /\ k.total_streams = stats.total_streams + 1
                   /\ k.active_streams = stats.active_streams + 1
    /\ \/ s.fsmerr = pool[c].fsmerr /\ k.rejectConnFsm = stats.rejectConnFsm
       \/ ~pool[c].fsmerr /\ s.fsmerr /\ k.rejectConnFsm = stats.rejectConnFsm + 1
    /\ k.rejectConnFsm <= k.rejectFsm

LEMMA KeepPool ==
    ASSUME IInv, NEW c \in Conns, NEW s, NEW k, KeepPre(c, s, k), Keep(c, s, k)
    PROVE  /\ pool' \in [Conns -> Streams] /\ s.id # 0
           /\ \A d \in Conns \ {c} : pool'[d] = pool[d]
           /\ pool'[c] = IF Complete(s) THEN NoStream ELSE s
           /\ Live(c)' <=> ~Complete(s)
           /\ \A d \in Conns \ {c} : Live(d)' <=> Live(d)
<1>1. pool \in [Conns -> Streams] /\ stats.total_streams \in Nat
  BY FiniteTraffic DEF IInv, TypeOK, Counters
<1>2. s \in Streams /\ s.id # 0
  BY <1>1 DEF KeepPre, Live, Streams
<1>3. pool' = [pool EXCEPT ![c] = IF Complete(s) THEN NoStream ELSE s]
  BY DEF Keep
<1>4. /\ pool' \in [Conns -> Streams] /\ \A d \in Conns \ {c} : pool'[d] = pool[d]
      /\ pool'[c] = IF Complete(s) THEN NoStream ELSE s
  BY <1>1, <1>2, <1>3, NoStreamType
<1>5. Live(c)' <=> ~Complete(s)
  BY <1>2, <1>4, NoStreamType DEF Live
<1>6. \A d \in Conns \ {c} : Live(d)' <=> Live(d)
  BY <1>4 DEF Live
<1> QED
  BY <1>2, <1>4, <1>5, <1>6

LEMMA KeepPoolOK ==
    ASSUME IInv, NEW c \in Conns, NEW s, NEW k, KeepPre(c, s, k), Keep(c, s, k), passed' = passed
    PROVE  \A d \in Conns : IF Live(d)' THEN StreamOK(d, pool[d])' /\ ~Complete(pool[d])'
                             ELSE pool'[d] = NoStream
<1> SUFFICES ASSUME NEW d \in Conns
             PROVE  IF Live(d)' THEN StreamOK(d, pool[d])' /\ ~Complete(pool[d])'
                    ELSE pool'[d] = NoStream
  OBVIOUS
<1>1. CASE d # c
  <2>1. pool'[d] = pool[d] /\ (Live(d)' <=> Live(d))
    BY <1>1, KeepPool
  <2>2. IF Live(d) THEN StreamOK(d, pool[d]) /\ ~Complete(pool[d]) ELSE pool[d] = NoStream
    BY DEF IInv, PoolOK
  <2> QED
    BY <2>1, <2>2 DEF StreamOK, HalfOK, Arrived, Complete
<1>2. CASE d = c
  <2>1. /\ pool'[c] = IF Complete(s) THEN NoStream ELSE s
        /\ Live(c)' <=> ~Complete(s)
    BY KeepPool
  <2>2. StreamOK(c, s)
    BY DEF KeepPre
  <2>3. ~Complete(s) => StreamOK(c, pool[c])' /\ ~Complete(pool[c])'
    BY <2>1, <2>2 DEF StreamOK, HalfOK, Arrived, Complete
  <2> QED
    BY <1>2, <2>1, <2>3
<1> QED
  BY <1>1, <1>2

(* The sets that are counted.                                              *)
LEMMA KeepSets ==
    ASSUME IInv, NEW c \in Conns, NEW s, NEW k, KeepPre(c, s, k), Keep(c, s, k)
    PROVE  /\ Complete(s) => /\ LiveConns' = LiveConns \ {c} /\ Rejected' = Rejected \ {c}
                             /\ Unrejected' = Unrejected \ {c}
           /\ ~Complete(s) => LiveConns' = LiveConns \cup {c}
           /\ ~Complete(s) /\ s.fsmerr =>
                  Rejected' = Rejected \cup {c} /\ Unrejected' = Unrejected \ {c}
           /\ ~Complete(s) /\ ~s.fsmerr =>
                  Rejected' = Rejected \ {c} /\ Unrejected' = Unrejected \cup {c}
<1>1. /\ \A d \in Conns \ {c} : pool'[d] = pool[d]
      /\ pool'[c] = IF Complete(s) THEN NoStream ELSE s
      /\ Live(c)' <=> ~Complete(s)
      /\ \A d \in Conns \ {c} : Live(d)' <=> Live(d)
  BY KeepPool
<1>2. /\ LiveConns' = {d \in Conns : Live(d)'} /\ Rejected' = {d \in Conns : pool'[d].fsmerr}
      /\ Unrejected' = {d \in Conns : Live(d)' /\ ~pool'[d].fsmerr}
  BY DEF LiveConns, Rejected, Unrejected, Live
<1>3. ~NoStream.fsmerr
  BY NoStreamType
<1> DEFINE live(d) == Live(d)
           live2(d) == Live(d)'
<1>4. /\ LiveConns' = {d \in Conns : live2(d)} /\ LiveConns = {d \in Conns : live(d)}
      /\ Unrejected' = {d \in Conns : live2(d) /\ ~pool'[d].fsmerr}
      /\ Unrejected = {d \in Conns : live(d) /\ ~pool[d].fsmerr}
      /\ live2(c) <=> ~Complete(s)
      /\ \A d \in Conns \ {c} : live2(d) <=> live(d)
  BY <1>1, <1>2 DEF LiveConns, Unrejected
<1> HIDE DEF live, live2
<1>5. CASE Complete(s)
  BY <1>1, <1>2, <1>3, <1>4, <1>5 DEF Rejected
<1>6. CASE ~Complete(s)
  BY <1>1, <1>2, <1>4, <1>6 DEF Rejected
<1> QED
  BY <1>5, <1>6

LEMMA FiniteConns ==
    /\ IsFiniteSet(LiveConns) /\ IsFiniteSet(Rejected) /\ IsFiniteSet(Unrejected)
    /\ Cardinality(LiveConns) \in Nat /\ Cardinality(Rejected) \in Nat
    /\ Cardinality(Unrejected) \in Nat
<1>1. /\ LiveConns \in SUBSET Conns /\ Rejected \in SUBSET Conns /\ Unrejected \in SUBSET Conns
      /\ IsFiniteSet(Conns)
  BY FiniteTraffic DEF LiveConns, Rejected, Unrejected
<1>2. IsFiniteSet(LiveConns) /\ IsFiniteSet(Rejected) /\ IsFiniteSet(Unrejected)
  BY <1>1, FS_Subset
<1> QED
  BY <1>2, FS_CardinalityType

LEMMA Membership ==
    ASSUME IInv, NEW c \in Conns
    PROVE  /\ c \in LiveConns <=> Live(c)
           /\ c \in Rejected <=> pool[c].fsmerr
           /\ c \in Unrejected <=> Live(c) /\ ~pool[c].fsmerr
           /\ pool[c].fsmerr => Live(c)
           /\ pool[c].fsmerr \in BOOLEAN /\ pool[c].id \in Nat
<1>1. pool[c].fsmerr \in BOOLEAN /\ pool[c].id \in Nat
  BY DEF IInv, TypeOK, Streams
<1>2. pool[c].fsmerr => Live(c)
  BY NoStreamType DEF IInv, PoolOK
<1> QED
  BY <1>1, <1>2 DEF LiveConns, Rejected, Unrejected

LEMMA CounterFacts ==
    ASSUME NEW k \in Counters
    PROVE  /\ k.total_streams \in Nat /\ k.active_streams \in Nat /\ k.rejectFsm \in Nat
           /\ k.rejectConnFsm \in Nat /\ k.rejectOpt \in Nat
           /\ k.active_streams < Word /\ k.total_streams < Word
BY FiniteTraffic DEF Counters

(* The counters that Keep leaves.                                          *)
LEMMA KeepStats ==
    ASSUME IInv, NEW c \in Conns, NEW s, NEW k, KeepPre(c, s, k), Keep(c, s, k)
    PROVE  /\ stats' \in Counters /\ stats'.total_streams = k.total_streams
           /\ stats'.rejectFsm = k.rejectFsm /\ stats'.rejectConnFsm = k.rejectConnFsm
           /\ stats'.active_streams = Cardinality(LiveConns')
           /\ stats'.active_streams <= stats'.total_streams
<1>1. k \in Counters /\ stats \in Counters
  BY DEF KeepPre, IInv, TypeOK
<1>2. stats.active_streams = Cardinality(LiveConns)
  BY DEF IInv, StreamAccounting, LiveConns
<1>3. stats.active_streams <= stats.total_streams
  BY DEF IInv, CountersBounded
<1>4. /\ Cardinality(LiveConns \cup {c}) = IF c \in LiveConns THEN Cardinality(LiveConns)
                                           ELSE Cardinality(LiveConns) + 1
      /\ Cardinality(LiveConns \ {c}) = IF c \in LiveConns THEN Cardinality(LiveConns) - 1
                                        ELSE Cardinality(LiveConns)
      /\ Cardinality(LiveConns) \in Nat /\ Cardinality(LiveConns \ {c}) \in Nat
  BY FiniteConns, FS_AddElement, FS_RemoveElement, FS_CardinalityType
<1>5. c \in LiveConns <=> Live(c)
  BY Membership
<1>6. /\ Live(c) => k.active_streams = stats.active_streams /\ k.total_streams = stats.total_streams
      /\ ~Live(c) => /\ k.active_streams = stats.active_streams + 1
                     /\ k.total_streams = stats.total_streams + 1
  BY DEF KeepPre
<1>7. /\ Complete(s) => LiveConns' = LiveConns \ {c}
      /\ ~Complete(s) => LiveConns' = LiveConns \cup {c}
  BY KeepSets
<1>8. CASE ~Complete(s)
  <2>1. stats' = k
    BY <1>8 DEF Keep
  <2>2. LiveConns' = LiveConns \cup {c}
    BY <1>7, <1>8
  <2>3. k.active_streams = Cardinality(LiveConns \cup {c})
    BY <1>2, <1>4, <1>5, <1>6
  <2>4. k.active_streams <= k.total_streams
    BY <1>1, <1>3, <1>6, CounterFacts
  <2> QED
    BY <2>1, <2>2, <2>3, <2>4, <1>1
<1>9. CASE Complete(s)
  <2>1. stats' = [k EXCEPT !.active_streams = Dec(@)]
    BY <1>9 DEF Keep
  <2>2. k.active_streams \in Nat /\ k.active_streams < Word
    BY <1>1, CounterFacts
  <2>3. k.active_streams >= 1 /\ k.active_streams - 1 = Cardinality(LiveConns \ {c})
    BY <1>1, <1>2, <1>4, <1>5, <1>6, CounterFacts
  <2>4. Dec(k.active_streams) = k.active_streams - 1
    BY <2>2, <2>3, CountDown
  <2>5. k.active_streams - 1 \in 0 .. Word - 1
    BY <2>2, <2>3, FiniteTraffic
  <2>6. /\ stats' \in Counters /\ stats'.total_streams = k.total_streams
        /\ stats'.rejectFsm = k.rejectFsm /\ stats'.rejectConnFsm = k.rejectConnFsm
        /\ stats'.active_streams = k.active_streams - 1
    BY <1>1, <2>1, <2>4, <2>5 DEF Counters
  <2>7. k.active_streams - 1 <= k.total_streams
    BY <1>1, <1>3, <1>6, CounterFacts
  <2> QED
    BY <2>3, <2>6, <2>7, <1>7, <1>9
<1> QED
  BY <1>8, <1>9

LEMMA KeepRejections ==
    ASSUME IInv, NEW c \in Conns, NEW s, NEW k, KeepPre(c, s, k), Keep(c, s, k)
    PROVE  Rejections'
<1>1. k \in Counters /\ stats \in Counters /\ s.fsmerr \in BOOLEAN
  BY DEF KeepPre, IInv, TypeOK, Streams
<1>2. /\ stats'.total_streams = k.total_streams /\ stats'.rejectFsm = k.rejectFsm
      /\ stats'.rejectConnFsm = k.rejectConnFsm
  BY KeepStats
<1>3. /\ Cardinality(Rejected \cup {c}) = IF c \in Rejected THEN Cardinality(Rejected)
                                          ELSE Cardinality(Rejected) + 1
      /\ Cardinality(Rejected \ {c}) = IF c \in Rejected THEN Cardinality(Rejected) - 1
                                       ELSE Cardinality(Rejected)
      /\ Cardinality(Rejected) \in Nat
  BY FiniteConns, FS_AddElement, FS_RemoveElement
<1>4. /\ Cardinality(Unrejected \cup {c}) = IF c \in Unrejected THEN Cardinality(Unrejected)
                                            ELSE Cardinality(Unrejected) + 1
      /\ Cardinality(Unrejected \ {c}) = IF c \in Unrejected THEN Cardinality(Unrejected) - 1
                                         ELSE Cardinality(Unrejected)
      /\ Cardinality(Unrejected) \in Nat
  BY FiniteConns, FS_AddElement, FS_RemoveElement
<1>5. /\ c \in Rejected <=> pool[c].fsmerr
      /\ c \in Unrejected <=> Live(c) /\ ~pool[c].fsmerr
      /\ pool[c].fsmerr => Live(c)
      /\ pool[c].fsmerr \in BOOLEAN
  BY Membership
<1>6. /\ \/ s.fsmerr = pool[c].fsmerr /\ k.rejectConnFsm = stats.rejectConnFsm
         \/ ~pool[c].fsmerr /\ s.fsmerr /\ k.rejectConnFsm = stats.rejectConnFsm + 1
      /\ k.rejectConnFsm <= k.rejectFsm
      /\ Live(c) => k.total_streams = stats.total_streams
      /\ ~Live(c) => k.total_streams = stats.total_streams + 1
  BY DEF KeepPre
<1>7. /\ stats.rejectConnFsm + Cardinality(Unrejected) <= stats.total_streams
      /\ stats.rejectConnFsm >= Cardinality(Rejected)
  BY DEF IInv, Rejections
<1>8. /\ stats.rejectConnFsm \in Nat /\ stats.total_streams \in Nat /\ k.rejectConnFsm \in Nat
      /\ k.total_streams \in Nat
  BY <1>1, CounterFacts
<1> DEFINE R == Rejected
           R2 == Rejected'
           U == Unrejected
           U2 == Unrejected'
<1>9. /\ Complete(s) => R2 = R \ {c} /\ U2 = U \ {c}
      /\ ~Complete(s) /\ s.fsmerr => R2 = R \cup {c} /\ U2 = U \ {c}
      /\ ~Complete(s) /\ ~s.fsmerr => R2 = R \ {c} /\ U2 = U \cup {c}
  BY KeepSets
<1> HIDE DEF R, R2, U, U2
<1>10. k.rejectConnFsm >= Cardinality(R2)
  <2>1. R2 = R \ {c} \/ (R2 = R \cup {c} /\ s.fsmerr)
    BY <1>9
  <2>2. CASE R2 = R \ {c}
    BY <1>3, <1>6, <1>7, <1>8, <2>2 DEF R
  <2>3. CASE R2 = R \cup {c} /\ s.fsmerr
    <3>1. CASE pool[c].fsmerr
      BY <1>3, <1>5, <1>6, <1>7, <1>8, <2>3, <3>1 DEF R
    <3>2. CASE ~pool[c].fsmerr
      <4>1. k.rejectConnFsm = stats.rejectConnFsm + 1
        BY <1>1, <1>5, <1>6, <2>3, <3>2
      <4> QED
        BY <1>3, <1>5, <1>7, <1>8, <2>3, <3>2, <4>1 DEF R
    <3> QED
      BY <3>1, <3>2
  <2> QED
    BY <2>1, <2>2, <2>3
<1>11. k.rejectConnFsm + Cardinality(U2) <= k.total_streams
  <2>1. U2 = U \ {c} \/ (U2 = U \cup {c} /\ ~s.fsmerr)
    BY <1>9
  <2>2. CASE U2 = U \ {c}
    <3>1. CASE Live(c)
      BY <1>4, <1>5, <1>6, <1>7, <1>8, <2>2, <3>1 DEF U
    <3>2. CASE ~Live(c)
      BY <1>4, <1>5, <1>6, <1>7, <1>8, <2>2, <3>2 DEF U
    <3> QED
      BY <3>1, <3>2
  <2>3. CASE U2 = U \cup {c} /\ ~s.fsmerr
    <3>1. CASE Live(c)
      BY <1>4, <1>5, <1>6, <1>7, <1>8, <2>3, <3>1 DEF U
    <3>2. CASE ~Live(c)
      BY <1>4, <1>5, <1>6, <1>7, <1>8, <2>3, <3>2 DEF U
    <3> QED
      BY <3>1, <3>2
  <2> QED
    BY <2>1, <2>2, <2>3
<1> QED
  BY <1>2, <1>6, <1>10, <1>11 DEF Rejections, R2, U2

LEMMA KeepIds ==
    ASSUME IInv, NEW c \in Conns, NEW s, NEW k, KeepPre(c, s, k), Keep(c, s, k)
    PROVE  /\ \A a, d \in Conns : (Live(a) /\ Live(d) /\ pool[a].id = pool[d].id)' => a = d
           /\ \A d \in Conns : pool'[d].id <= stats'.total_streams
           /\ stats.total_streams <= stats'.total_streams
           /\ s.id <= stats'.total_streams
<1>1. k \in Counters /\ stats \in Counters
  BY DEF KeepPre, IInv, TypeOK
<1>2. stats'.total_streams = k.total_streams /\ stats.total_streams \in Nat
  BY <1>1, KeepStats, CounterFacts
<1>3. /\ \A d \in Conns \ {c} : pool'[d] = pool[d]
      /\ pool'[c] = IF Complete(s) THEN NoStream ELSE s
      /\ Live(c)' <=> ~Complete(s)
      /\ \A d \in Conns \ {c} : Live(d)' <=> Live(d)
  BY KeepPool
<1>4. /\ \A d \in Conns : pool[d].id \in Nat /\ pool[d].id <= stats.total_streams
      /\ \A a, d \in Conns : Live(a) /\ Live(d) /\ pool[a].id = pool[d].id => a = d
  BY Membership DEF IInv, StreamAccounting
<1>5. /\ Live(c) => s.id = pool[c].id /\ k.total_streams = stats.total_streams
      /\ ~Live(c) => /\ s.id = stats.total_streams + 1
                     /\ k.total_streams = stats.total_streams + 1
  BY DEF KeepPre
<1>6. \A d \in Conns : pool'[d].id <= k.total_streams
  BY <1>2, <1>3, <1>4, <1>5, NoStreamType
<1>7. ASSUME NEW a \in Conns, NEW d \in Conns, (Live(a) /\ Live(d) /\ pool[a].id = pool[d].id)'
      PROVE  a = d
  <2>1. CASE a = c /\ d # c
    <3>1. pool'[c] = s /\ pool'[d] = pool[d] /\ Live(d) /\ s.id = pool[d].id
      BY <1>3, <1>7, <2>1
    <3> QED
      BY <3>1, <1>2, <1>4, <1>5, <2>1
  <2>2. CASE a # c /\ d = c
    <3>1. pool'[c] = s /\ pool'[a] = pool[a] /\ Live(a) /\ s.id = pool[a].id
      BY <1>3, <1>7, <2>2
    <3> QED
      BY <3>1, <1>2, <1>4, <1>5, <2>2
  <2>3. CASE a # c /\ d # c
    BY <1>3, <1>4, <1>7, <2>3
  <2> QED
    BY <2>1, <2>2, <2>3
<1> QED
  BY <1>2, <1>4, <1>5, <1>6, <1>7

-----------------------------------------------------------------------------
(* Taking a packet from the source: the factory and Accept.                *)

LEMMA TakenFacts ==
    ASSUME IInv, source # << >>
    PROVE  /\ Head(source) \in [pkt: Packets, age: 0 .. MaxAge] /\ Head(source).pkt \in passed
           /\ Len(source) \in Nat /\ Len(source) >= 1 /\ Len(Tail(source)) = Len(source) - 1
           /\ Tail(source) \in Seq([pkt: Packets, age: 0 .. MaxAge])
           /\ \A n \in DOMAIN Tail(source) : Tail(source)[n].pkt \in passed
<1>1. source \in Seq([pkt: Packets, age: 0 .. MaxAge]) /\ \A n \in DOMAIN source : source[n].pkt \in passed
  BY DEF IInv, TypeOK, PoolOK
<1> DEFINE S == [pkt: Packets, age: 0 .. MaxAge]
<1> HIDE DEF S
<1>2. source \in Seq(S)
  BY <1>1 DEF S
<1>3. /\ Head(source) \in S /\ Len(source) \in Nat /\ Len(source) >= 1
      /\ Len(Tail(source)) = Len(source) - 1 /\ Tail(source) \in Seq(S)
      /\ DOMAIN source = 1 .. Len(source) /\ DOMAIN Tail(source) = 1 .. Len(source) - 1
      /\ \A n \in 1 .. Len(source) - 1 : Tail(source)[n] = source[n + 1]
      /\ Head(source) = source[1]
  BY <1>2
<1>4. Head(source).pkt \in passed
  BY <1>1, <1>3
<1>5. ASSUME NEW n \in DOMAIN Tail(source) PROVE Tail(source)[n].pkt \in passed
  BY <1>1, <1>3
<1> QED
  BY <1>3, <1>4, <1>5 DEF S

LEMMA RoomToCount ==
    ASSUME IInv, source # << >>
    PROVE  /\ Inc(stats.total_streams) = stats.total_streams + 1
           /\ Inc(stats.active_streams) = stats.active_streams + 1
           /\ Inc(stats.rejectFsm) = stats.rejectFsm + 1
           /\ Inc(stats.rejectConnFsm) = stats.rejectConnFsm + 1
           /\ stats.total_streams + 1 < Word /\ stats.active_streams + 1 < Word
           /\ stats.rejectFsm + 1 < Word /\ stats.rejectConnFsm + 1 < Word
<1>1. passed \subseteq Packets /\ stats \in Counters
  BY DEF IInv, TypeOK
<1>2. Cardinality(passed) \in Nat /\ Cardinality(passed) < Word /\ Word \in Nat
  <2>1. IsFiniteSet(passed) /\ Cardinality(passed) <= Cardinality(Packets)
    BY <1>1, FiniteTraffic, FS_Subset
  <2> QED
    BY <2>1, FiniteTraffic, FS_CardinalityType
<1>3. /\ stats.total_streams \in Nat /\ stats.active_streams \in Nat /\ stats.rejectFsm \in Nat
      /\ stats.rejectConnFsm \in Nat
  BY <1>1, CounterFacts
<1>4. Len(source) \in Nat /\ Len(source) >= 1
  BY TakenFacts
<1>5. /\ stats.total_streams + Len(source) <= Cardinality(passed)
      /\ stats.rejectFsm + Len(source) <= Cardinality(passed)
      /\ stats.active_streams <= stats.total_streams
      /\ stats.rejectConnFsm <= stats.rejectFsm
  BY DEF IInv, CountersBounded, Rejections
<1>6. /\ stats.total_streams + 1 < Word /\ stats.active_streams + 1 < Word
      /\ stats.rejectFsm + 1 < Word /\ stats.rejectConnFsm + 1 < Word
  BY <1>2, <1>3, <1>4, <1>5
<1> QED
  BY <1>3, <1>6, CountUp

LEMMA FactoryStream ==
    ASSUME IInv, source # << >>, NEW p \in Packets
    PROVE  LET c == Traffic[p].conn
               s == Stream(p)
               k == Counted(p)
           IN  /\ s \in Streams /\ StreamOK(c, s) /\ ~Complete(s)
               /\ s.fsmerr = pool[c].fsmerr /\ s.fsmerr \in BOOLEAN
               /\ Live(c) => s = pool[c] /\ k = stats
               /\ ~Live(c) => s.id = stats.total_streams + 1
               /\ ~Live(c) => /\ k.total_streams = stats.total_streams + 1
                              /\ k.active_streams = stats.active_streams + 1
               /\ k \in Counters
               /\ k.rejectFsm = stats.rejectFsm /\ k.rejectConnFsm = stats.rejectConnFsm
               /\ k.rejectOpt = stats.rejectOpt
<1> DEFINE c == Traffic[p].conn
           s == Stream(p)
           k == Counted(p)
<1>1. c \in Conns /\ Traffic[p].from \in Ends
  BY PacketFacts
<1>2. pool[c] \in Streams /\ stats \in Counters /\ stats.total_streams + 1 \in Nat
  BY <1>1, CounterFacts DEF IInv, TypeOK
<1>3. IF Live(c) THEN StreamOK(c, pool[c]) /\ ~Complete(pool[c]) ELSE pool[c] = NoStream
  BY <1>1 DEF IInv, PoolOK
<1>4. CASE Live(c)
  <2>1. s = pool[c] /\ k = stats
    BY <1>4 DEF Stream, Counted
  <2>2. pool[c].fsmerr \in BOOLEAN
    BY <1>2 DEF Streams
  <2> QED
    BY <1>2, <1>3, <1>4, <2>1, <2>2
<1>5. CASE ~Live(c)
  <2>1. s = NewStream(stats.total_streams + 1, Traffic[p].from)
    BY <1>5, RoomToCount DEF Stream
  <2>2. /\ s \in Streams /\ StreamOK(c, s) /\ ~Complete(s) /\ s.id = stats.total_streams + 1
        /\ ~s.fsmerr
    BY <1>1, <1>2, <2>1, NewStreamType
  <2>3. s.fsmerr \in BOOLEAN /\ pool[c].fsmerr \in BOOLEAN
    BY <1>2, <2>2 DEF Streams
  <2>4. s.fsmerr = pool[c].fsmerr
    BY <1>3, <1>5, <2>2, <2>3, NoStreamType
  <2>5. k = [stats EXCEPT !.total_streams = stats.total_streams + 1,
                          !.active_streams = stats.active_streams + 1]
    BY <1>5, RoomToCount DEF Counted
  <2>6. stats.total_streams + 1 \in 0 .. Word - 1 /\ stats.active_streams + 1 \in 0 .. Word - 1
    BY <1>2, RoomToCount, CounterFacts, FiniteTraffic
  <2>7. /\ k \in Counters
        /\ k.total_streams = stats.total_streams + 1 /\ k.active_streams = stats.active_streams + 1
        /\ k.rejectFsm = stats.rejectFsm /\ k.rejectConnFsm = stats.rejectConnFsm
        /\ k.rejectOpt = stats.rejectOpt
    BY <1>2, <2>5, <2>6 DEF Counters
  <2> QED
    BY <1>5, <2>2, <2>3, <2>4, <2>7
<1> QED
  BY <1>4, <1>5

\* What Touched and Accept leave of a stream as it was.
SameButMarks(s, t) ==
    /\ t.id = s.id /\ t.src = s.src /\ t.messages = s.messages
    /\ \A e \in Ends : /\ t.half[e].buffered = s.half[e].buffered
                       /\ t.half[e].closed = s.half[e].closed
                       /\ t.half[e].nextSeq = s.half[e].nextSeq

LEMMA TouchedStream ==
    ASSUME NEW s \in Streams, NEW item \in [pkt: Packets, age: 0 .. MaxAge]
    PROVE  /\ Touched(s, item) \in Streams /\ SameButMarks(s, Touched(s, item))
           /\ Touched(s, item).fsmerr = s.fsmerr
<1> DEFINE f == Traffic[item.pkt].from
           h == s.half[f]
           age == IF item.age < h.idle THEN item.age ELSE h.idle
           g == [h EXCEPT !.idle = age]
           t == Touched(s, item)
<1>1. f \in Ends /\ item.age \in 0 .. MaxAge
  BY PacketFacts
<1>2. h \in Halves /\ s.half \in [Ends -> Halves]
  BY <1>1 DEF Streams
<1>3. age \in 0 .. MaxAge
  BY <1>1, <1>2 DEF Halves
<1>4. t = [s EXCEPT !.half = [s.half EXCEPT ![f] = g]]
  BY <1>1, <1>2 DEF Touched, Halves, Streams
<1> HIDE DEF f, h, age
<1>5. /\ g \in Halves /\ g.buffered = h.buffered /\ g.closed = h.closed /\ g.nextSeq = h.nextSeq
  BY <1>2, <1>3 DEF Halves
<1> HIDE DEF g, t
<1>6. /\ t \in Streams /\ t.id = s.id /\ t.src = s.src /\ t.messages = s.messages
      /\ t.fsmerr = s.fsmerr /\ t.half = [s.half EXCEPT ![f] = g]
  BY <1>1, <1>2, <1>4, <1>5 DEF Streams
<1>7. \A e \in Ends : t.half[e] = IF e = f THEN g ELSE s.half[e]
  BY <1>1, <1>2, <1>6
<1> QED
  BY <1>5, <1>6, <1>7 DEF SameButMarks, t, h

LEMMA AcceptedStream ==
    ASSUME NEW s \in Streams, NEW v \in Verdicts, NEW k \in Counters
    PROVE  LET a == Accept(s, v, k)
           IN  /\ a.stream \in Streams /\ SameButMarks(s, a.stream)
               /\ a.stream.fsmerr = (s.fsmerr \/ ~v.fsm)
               /\ a.counters \in Counters
               /\ a.counters.total_streams = k.total_streams
               /\ a.counters.active_streams = k.active_streams
               /\ a.counters.rejectFsm = IncIf(k.rejectFsm, ~v.fsm)
               /\ a.counters.rejectConnFsm = IncIf(k.rejectConnFsm, ~v.fsm /\ ~s.fsmerr)
               /\ a.ok \in BOOLEAN /\ v.fsm \in BOOLEAN
<1> DEFINE fsmStops == ~v.fsm /\ ~Ignorefsmerr
           optFails == ~fsmStops /\ ~v.opt
           optStops == optFails /\ ~Nooptcheck
           sumFails == ~fsmStops /\ ~optStops /\ Checksum /\ ~v.sum
           t == [s EXCEPT !.fsmerr = @ \/ ~v.fsm]
           x == IncIf(k.rejectFsm, ~v.fsm)
           y == IncIf(k.rejectConnFsm, ~v.fsm /\ ~s.fsmerr)
           z == IncIf(IncIf(k.rejectOpt, optFails), sumFails)
           m == [k EXCEPT !.rejectFsm = x, !.rejectConnFsm = y, !.rejectOpt = z]
           a == Accept(s, v, k)
<1>1. /\ a.ok = (~fsmStops /\ ~optStops /\ ~sumFails) /\ a.stream = t /\ a.counters = m
  BY DEF Accept
<1>2. v.fsm \in BOOLEAN
  <2>1. Verdicts \subseteq [fsm: BOOLEAN, opt: BOOLEAN, sum: BOOLEAN]
    BY AssemblerConstants, Zenon
  <2> QED
    BY <2>1
<1>3. ASSUME NEW n \in 0 .. Word - 1, NEW b PROVE IncIf(n, b) \in 0 .. Word - 1
  BY FiniteTraffic DEF IncIf, Inc
<1>4. /\ k.rejectFsm \in 0 .. Word - 1 /\ k.rejectConnFsm \in 0 .. Word - 1
      /\ k.rejectOpt \in 0 .. Word - 1
  BY DEF Counters
<1>5. x \in 0 .. Word - 1 /\ y \in 0 .. Word - 1
  BY <1>3, <1>4
<1>6. z \in 0 .. Word - 1
  <2>1. IncIf(k.rejectOpt, optFails) \in 0 .. Word - 1
    BY <1>3, <1>4
  <2> HIDE DEF optFails, sumFails
  <2> QED
    BY <1>3, <2>1
<1>7. a.ok \in BOOLEAN
  BY <1>1
<1> HIDE DEF x, y, z, fsmStops, optFails, optStops, sumFails, a
<1>8. m \in Counters /\ m.total_streams = k.total_streams /\ m.active_streams = k.active_streams
      /\ m.rejectFsm = x /\ m.rejectConnFsm = y
  BY <1>5, <1>6 DEF Counters
<1>9. t \in Streams /\ t.fsmerr = (s.fsmerr \/ ~v.fsm)
      /\ t.id = s.id /\ t.src = s.src /\ t.messages = s.messages /\ t.half = s.half
  BY <1>2 DEF Streams
<1> HIDE DEF m, t
<1> QED
  BY <1>1, <1>2, <1>7, <1>8, <1>9 DEF SameButMarks, a, x, y

LEMMA SameStreamOK ==
    ASSUME NEW c, NEW s, NEW t, SameButMarks(s, t), StreamOK(c, s)
    PROVE  StreamOK(c, t) /\ (Complete(t) <=> Complete(s))
BY DEF SameButMarks, StreamOK, HalfOK, Complete

LEMMA SameTransitive ==
    ASSUME NEW s, NEW t, NEW u, SameButMarks(s, t), SameButMarks(t, u)
    PROVE  SameButMarks(s, u)
BY DEF SameButMarks

(* What Accept is given and returns for a packet of the source.            *)
LEMMA AcceptPre ==
    ASSUME IInv, source # << >>, NEW v \in Verdicts
    PROVE  LET item == Head(source)
               c == Traffic[item.pkt].conn
               a == Accepted(item, v)
           IN  /\ KeepPre(c, a.stream, a.counters) /\ ~Complete(a.stream)
               /\ SameButMarks(Stream(item.pkt), a.stream)
               /\ a.counters.total_streams + Len(Tail(source)) <= Cardinality(passed)
               /\ a.counters.rejectFsm + Len(Tail(source)) <= Cardinality(passed)
<1> DEFINE item == Head(source)
           p == item.pkt
           c == Traffic[p].conn
           s == Stream(p)
           k == Counted(p)
           t == Touched(s, item)
           a == Accepted(item, v)
<1>1. /\ item \in [pkt: Packets, age: 0 .. MaxAge] /\ Len(source) \in Nat
      /\ Len(Tail(source)) = Len(source) - 1
  BY TakenFacts
<1>2. p \in Packets /\ c \in Conns
  BY <1>1, PacketFacts
<1> HIDE DEF item, p, c, s, k, t, a
<1>3. /\ s \in Streams /\ StreamOK(c, s) /\ ~Complete(s)
      /\ s.fsmerr = pool[c].fsmerr /\ s.fsmerr \in BOOLEAN
      /\ Live(c) => s = pool[c] /\ k = stats
      /\ ~Live(c) => s.id = stats.total_streams + 1
      /\ ~Live(c) => /\ k.total_streams = stats.total_streams + 1
                     /\ k.active_streams = stats.active_streams + 1
      /\ k \in Counters
      /\ k.rejectFsm = stats.rejectFsm /\ k.rejectConnFsm = stats.rejectConnFsm
  BY <1>2, FactoryStream DEF s, k, c
<1>4. t \in Streams /\ SameButMarks(s, t) /\ t.fsmerr = s.fsmerr
  BY <1>1, <1>3, TouchedStream DEF t
<1>5. a = Accept(t, v, k)
  BY DEF a, t, s, k, p, Accepted
<1>6. /\ a.stream \in Streams /\ SameButMarks(t, a.stream)
      /\ a.stream.fsmerr = (t.fsmerr \/ ~v.fsm)
      /\ a.counters \in Counters
      /\ a.counters.total_streams = k.total_streams
      /\ a.counters.active_streams = k.active_streams
      /\ a.counters.rejectFsm = IncIf(k.rejectFsm, ~v.fsm)
      /\ a.counters.rejectConnFsm = IncIf(k.rejectConnFsm, ~v.fsm /\ ~t.fsmerr)
      /\ v.fsm \in BOOLEAN
  BY <1>3, <1>4, <1>5, AcceptedStream
<1>7. SameButMarks(s, a.stream)
  BY <1>4, <1>6, SameTransitive
<1>8. StreamOK(c, a.stream) /\ ~Complete(a.stream)
  BY <1>3, <1>7, SameStreamOK
<1>9. a.stream.id = s.id
  BY <1>7 DEF SameButMarks
<1>10. /\ stats.rejectConnFsm <= stats.rejectFsm /\ stats.rejectConnFsm \in Nat
       /\ stats.rejectFsm \in Nat /\ stats.total_streams \in Nat
       /\ stats.total_streams + Len(source) <= Cardinality(passed)
       /\ stats.rejectFsm + Len(source) <= Cardinality(passed)
  BY CounterFacts DEF IInv, TypeOK, CountersBounded, Rejections
<1>11. Cardinality(passed) \in Nat
  <2>1. IsFiniteSet(passed)
    BY FiniteTraffic, FS_Subset DEF IInv, TypeOK
  <2> QED
    BY <2>1, FS_CardinalityType
<1>12. /\ a.counters.rejectFsm = IF v.fsm THEN stats.rejectFsm ELSE stats.rejectFsm + 1
       /\ a.counters.rejectConnFsm = IF ~v.fsm /\ ~s.fsmerr THEN stats.rejectConnFsm + 1
                                     ELSE stats.rejectConnFsm
  BY <1>3, <1>4, <1>6, RoomToCount DEF IncIf
<1>13. /\ a.counters.total_streams + Len(Tail(source)) <= Cardinality(passed)
       /\ a.counters.rejectFsm + Len(Tail(source)) <= Cardinality(passed)
       /\ a.counters.rejectConnFsm <= a.counters.rejectFsm
  BY <1>1, <1>3, <1>6, <1>10, <1>11, <1>12
<1>14. \/ a.stream.fsmerr = pool[c].fsmerr /\ a.counters.rejectConnFsm = stats.rejectConnFsm
       \/ /\ ~pool[c].fsmerr /\ a.stream.fsmerr
          /\ a.counters.rejectConnFsm = stats.rejectConnFsm + 1
  <2>1. CASE ~v.fsm /\ ~s.fsmerr
    BY <1>3, <1>4, <1>6, <1>12, <2>1
  <2>2. CASE v.fsm \/ s.fsmerr
    <3>1. a.stream.fsmerr = s.fsmerr
      BY <1>3, <1>4, <1>6, <2>2
    <3> QED
      BY <3>1, <1>3, <1>12, <2>2
  <2> QED
    BY <2>1, <2>2
<1>15. KeepPre(c, a.stream, a.counters)
  BY <1>3, <1>6, <1>8, <1>9, <1>13, <1>14 DEF KeepPre
<1> QED
  BY <1>7, <1>8, <1>13, <1>15 DEF item, p, c, s, a

-----------------------------------------------------------------------------
(* Handing a batch to a stream.                                            *)

LEMMA RunIn == ASSUME NEW ps, NEW n PROVE Run(ps, n) \subseteq ps
BY DEF Run

\* The first page of a buffer is in the first run of it.
LEMMA FirstRun ==
    ASSUME NEW ps \in SUBSET Packets, ps # {}
    PROVE  First(ps) \in Run(ps, Traffic[First(ps)].seq)
<1> DEFINE f == First(ps)
<1>1. f \in ps /\ f \in Packets
  BY FirstIn
<1> HIDE DEF f
<1>2. /\ Traffic[f].seq \in Nat /\ EndSeq(f) \in Nat /\ EndSeq(f) > Traffic[f].seq
  BY <1>1, PacketFacts
<1>3. \A x \in Traffic[f].seq .. Traffic[f].seq : Covers(ps, x)
  BY <1>1, <1>2 DEF Covers
<1> QED
  BY <1>1, <1>3 DEF Run, f

LEMMA OneLess ==
    ASSUME NEW S, IsFiniteSet(S), NEW T \in SUBSET S, NEW x \in S, x \notin T
    PROVE  Cardinality(T) <= Cardinality(S) - 1 /\ IsFiniteSet(T)
<1>1. IsFiniteSet(S \ {x}) /\ Cardinality(S \ {x}) = Cardinality(S) - 1
  BY FS_RemoveElement
<1>2. T \subseteq S \ {x}
  OBVIOUS
<1>3. Cardinality(T) <= Cardinality(S \ {x}) /\ IsFiniteSet(T)
  BY <1>1, <1>2, FS_Subset
<1> QED
  BY <1>1, <1>3

(* A callback, whatever called it: the stream of connection c becomes t,   *)
(* and one event at most is made.                                          *)
Handled(c, t, k) ==
    /\ KeepPre(c, t, k) /\ Keep(c, t, k)
    /\ \/ events' = events
       \/ \E ev : /\ events' = events \cup {ev}
                  /\ ev.stream = t.id /\ ev.conn = c /\ ev.entry \in Entry
    /\ swallowed' \subseteq passed

\* A callback with packets: it completes a stream only by a FIN.
PassedOn(c, t, k) ==
    /\ Handled(c, t, k)
    /\ Complete(t) => \E p \in passed : Traffic[p].conn = c /\ Traffic[p].fin

LEMMA DeliverPassedOn ==
    ASSUME IInv, NEW c \in Conns, NEW e \in Ends, NEW s0, NEW k, KeepPre(c, s0, k),
           ~Complete(s0),
           NEW s \in Streams, s.id = s0.id, s.fsmerr = s0.fsmerr,
           \A f \in Ends \ {e} : s.half[f] = s0.half[f],
           s.half[e].closed = s0.half[e].closed,
           NEW batch \in SUBSET Packets, batch # {}, \A p \in batch : Arrived(c, e, p),
           HalfOK(c, e, s.half[e]),
           Cardinality({i \in s.half[e].buffered : i.pkt \notin batch}) < MaxPages,
           NEW ctx \in Packets, Deliver(c, s, e, batch, ctx, k)
    PROVE  \E t : PassedOn(c, t, k) /\ \A f \in Ends \ {e} : t.half[f] = s0.half[f]
<1> DEFINE result == ReassembledSG(s, e, batch, ctx)
           h == s.half[e]
           g == After(h, batch)
           t == [s EXCEPT !.messages = result.messages, !.half[e] = g]
<1>1. result.messages \in [Keys -> Entry] /\ result.match \in Entry
  BY BatchType
<1>2. h \in Halves /\ s.half \in [Ends -> Halves]
  BY DEF Streams
<1>3. /\ g \in Halves
      /\ g.buffered \subseteq {i \in h.buffered : i.pkt \notin batch}
      /\ g.closed => h.closed \/ Traffic[Last(batch)].fin
      /\ g.closed => g.buffered = {} \/ h.closed
  <2> HIDE DEF h
  <2> QED
    BY <1>2, AfterHalf
<1>4. Keep(c, [s EXCEPT !.messages = result.messages, !.half[e] = After(@, batch)], k)
  BY DEF Deliver
<1>5. [s EXCEPT !.messages = result.messages, !.half[e] = After(@, batch)] = t
  BY <1>2 DEF Streams
<1>6. /\ \/ events' = events
         \/ \E ev : /\ events' = events \cup {ev}
                    /\ ev.stream = s.id /\ ev.conn = c /\ ev.entry = result.match
      /\ swallowed' \subseteq swallowed \cup batch
  BY DEF Deliver
<1> HIDE DEF result, g, h
<1>7. /\ t \in Streams /\ t.id = s.id /\ t.fsmerr = s.fsmerr
      /\ t.half = [s.half EXCEPT ![e] = g]
  BY <1>1, <1>2, <1>3 DEF Streams
<1> HIDE DEF t
<1>8. t.half[e] = g /\ \A f \in Ends \ {e} : t.half[f] = s.half[f]
  BY <1>2, <1>3, <1>7
<1>9. HalfOK(c, e, g)
  <2>1. g.buffered \subseteq h.buffered /\ HalfOK(c, e, h)
    BY <1>3 DEF h
  <2> QED
    BY <1>2, <1>3, <2>1, SmallerHalf
<1>10. Cardinality(g.buffered) < MaxPages
  <2> DEFINE R == {i \in h.buffered : i.pkt \notin batch}
  <2>1. IsFiniteSet(h.buffered)
    BY <1>2, BufferedFinite DEF h
  <2>2. IsFiniteSet(R)
    BY <2>1, FS_Subset
  <2>3. Cardinality(R) < MaxPages
    BY DEF h
  <2> HIDE DEF R
  <2>4. g.buffered \subseteq R
    BY <1>3 DEF R
  <2>5. Cardinality(g.buffered) <= Cardinality(R) /\ IsFiniteSet(g.buffered)
    BY <2>2, <2>4, FS_Subset
  <2>6. Cardinality(R) \in Nat /\ Cardinality(g.buffered) \in Nat
    BY <2>2, <2>5, FS_CardinalityType
  <2> QED
    BY <2>3, <2>5, <2>6, TimeFacts
<1>11. StreamOK(c, s0)
  BY DEF KeepPre
<1>12. ASSUME NEW f \in Ends
       PROVE  HalfOK(c, f, t.half[f]) /\ Cardinality(t.half[f].buffered) < MaxPages
  <2>1. CASE f = e
    BY <1>8, <1>9, <1>10, <2>1
  <2>2. CASE f # e
    <3>1. t.half[f] = s0.half[f]
      BY <1>8, <2>2
    <3> QED
      BY <3>1, <1>11 DEF StreamOK
  <2> QED
    BY <2>1, <2>2
<1>13. StreamOK(c, t)
  BY <1>12 DEF StreamOK
<1>14. KeepPre(c, t, k)
  BY <1>7, <1>13 DEF KeepPre
<1>15. Keep(c, t, k)
  BY <1>4, <1>5
<1>16. t.half[e].closed => h.closed \/ Traffic[Last(batch)].fin
  BY <1>3, <1>8
<1>17. swallowed' \subseteq passed
  BY <1>6 DEF IInv, TypeOK, Arrived
<1>18. Complete(t) => Traffic[Last(batch)].fin
  BY <1>8, <1>16 DEF Complete, h
<1>19. Last(batch) \in passed /\ Traffic[Last(batch)].conn = c
  BY LastIn DEF Arrived
<1>20. PassedOn(c, t, k)
  BY <1>1, <1>6, <1>7, <1>14, <1>15, <1>17, <1>18, <1>19 DEF Handled, PassedOn
<1> QED
  BY <1>8, <1>20

(* The three things that may become of a packet.                           *)

LEMMA DropPassedOn ==
    ASSUME IInv, NEW c \in Conns, NEW t, NEW k, KeepPre(c, t, k), ~Complete(t),
           Keep(c, t, k), UNCHANGED <<events, swallowed>>
    PROVE  PassedOn(c, t, k)
<1>1. swallowed \subseteq passed /\ events' = events /\ swallowed' = swallowed
  BY DEF IInv, TypeOK
<1> QED
  BY <1>1 DEF Handled, PassedOn

\* What the packet at the head of the source meets.
LEMMA HalfMet ==
    ASSUME IInv, NEW c \in Conns, NEW e \in Ends, NEW s, NEW k, KeepPre(c, s, k)
    PROVE  /\ s \in Streams /\ s.half[e] \in Halves /\ HalfOK(c, e, s.half[e])
           /\ \A p \in Buffered(s.half[e]) : Arrived(c, e, p)
           /\ IsFiniteSet(s.half[e].buffered)
           /\ Buffered(s.half[e]) \subseteq Packets
           /\ Cardinality(s.half[e].buffered) < MaxPages
           /\ Cardinality(s.half[e].buffered) \in Nat
<1>1. s \in Streams /\ StreamOK(c, s)
  BY DEF KeepPre
<1>2. s.half[e] \in Halves
  BY <1>1 DEF Streams
<1>3. HalfOK(c, e, s.half[e]) /\ Cardinality(s.half[e].buffered) < MaxPages
  BY <1>1 DEF StreamOK
<1>4. \A p \in Buffered(s.half[e]) : Arrived(c, e, p)
  BY <1>3 DEF HalfOK, Buffered
<1>5. /\ IsFiniteSet(s.half[e].buffered) /\ Buffered(s.half[e]) \subseteq Packets
      /\ Cardinality(s.half[e].buffered) \in Nat
  <2> DEFINE h == s.half[e]
  <2>1. h \in Halves /\ HalfOK(c, e, h)
    BY <1>2, <1>3
  <2> HIDE DEF h
  <2>2. IsFiniteSet(h.buffered) /\ Buffered(h) \subseteq Packets /\ Cardinality(h.buffered) \in Nat
    BY <2>1, BufferedFinite
  <2> QED
    BY <2>2 DEF h
<1> QED
  BY <1>1, <1>2, <1>3, <1>4, <1>5

LEMMA ForwardPassedOn ==
    ASSUME IInv, NEW item, NEW accept, item.pkt \in passed,
           KeepPre(Traffic[item.pkt].conn, accept.stream, accept.counters),
           ~Complete(accept.stream), Forward(item, accept)
    PROVE  \E t : PassedOn(Traffic[item.pkt].conn, t, accept.counters)
<1> DEFINE p == item.pkt
           c == Traffic[p].conn
           e == Traffic[p].from
           s == accept.stream
           k == accept.counters
           half == s.half[e]
           batch == {p} \cup Run(Buffered(half), EndSeq(p))
<1>1. p \in Packets /\ p \in passed /\ c \in Conns /\ e \in Ends
  BY PacketFacts DEF IInv, TypeOK
<1>2. Deliver(c, s, e, batch, p, k)
  BY DEF Forward
<1>3. KeepPre(c, s, k) /\ ~Complete(s)
  OBVIOUS
<1> HIDE DEF c, e, s, k, p
<1>4. /\ s \in Streams /\ half \in Halves /\ HalfOK(c, e, half)
      /\ \A q \in Buffered(half) : Arrived(c, e, q)
      /\ IsFiniteSet(half.buffered) /\ Buffered(half) \subseteq Packets
      /\ Cardinality(half.buffered) < MaxPages /\ Cardinality(half.buffered) \in Nat
  BY <1>1, <1>3, HalfMet
<1>5. Arrived(c, e, p)
  BY <1>1 DEF Arrived, c, e
<1>6. batch \in SUBSET Packets /\ batch # {} /\ \A q \in batch : Arrived(c, e, q)
  BY <1>1, <1>4, <1>5, RunIn
<1> HIDE DEF batch
<1>7. Cardinality({i \in half.buffered : i.pkt \notin batch}) < MaxPages
  <2> DEFINE R == {i \in half.buffered : i.pkt \notin batch}
  <2>1. Cardinality(R) <= Cardinality(half.buffered) /\ IsFiniteSet(R)
    BY <1>4, FS_Subset
  <2>2. Cardinality(R) \in Nat
    BY <2>1, FS_CardinalityType
  <2> HIDE DEF R
  <2> QED
    BY <1>4, <2>1, <2>2, TimeFacts DEF R
<1>8. \E t : PassedOn(c, t, k) /\ \A f \in Ends \ {e} : t.half[f] = s.half[f]
  BY <1>1, <1>2, <1>3, <1>4, <1>6, <1>7, DeliverPassedOn
<1> QED
  BY <1>8 DEF c, k, p

\* A page more, or none: the direction is in order and has one page more at most.
LEMMA QueuedHalf ==
    ASSUME NEW c, NEW e, NEW h \in Halves, HalfOK(c, e, h), ~h.closed, IsFiniteSet(h.buffered),
           NEW item \in [pkt: Packets, age: 0 .. MaxAge], Arrived(c, e, item.pkt),
           NEW g, \/ g = h
                  \/ /\ \A q \in Buffered(h) : Traffic[q].seq # Traffic[item.pkt].seq
                     /\ g = [h EXCEPT !.buffered = h.buffered \cup {item}]
    PROVE  /\ g \in Halves /\ HalfOK(c, e, g) /\ g.closed = h.closed
           /\ IsFiniteSet(g.buffered) /\ Cardinality(g.buffered) <= Cardinality(h.buffered) + 1
<1>1. Cardinality(h.buffered) \in Nat
  BY FS_CardinalityType
<1>2. CASE g = h
  BY <1>1, <1>2
<1>3. CASE /\ \A q \in Buffered(h) : Traffic[q].seq # Traffic[item.pkt].seq
           /\ g = [h EXCEPT !.buffered = h.buffered \cup {item}]
  <2>1. g \in Halves /\ g.closed = h.closed /\ g.buffered = h.buffered \cup {item}
    BY <1>3 DEF Halves
  <2>2. \A i \in h.buffered : Traffic[i.pkt].seq # Traffic[item.pkt].seq
    BY <1>3 DEF Buffered
  <2>3. HalfOK(c, e, g)
    BY <2>1, <2>2 DEF HalfOK
  <2>4. /\ IsFiniteSet(h.buffered \cup {item})
        /\ Cardinality(h.buffered \cup {item}) <= Cardinality(h.buffered) + 1
    BY <1>1, FS_AddElement
  <2> QED
    BY <2>1, <2>3, <2>4
<1> QED
  BY <1>2, <1>3

LEMMA QueuePassedOn ==
    ASSUME IInv, NEW item \in [pkt: Packets, age: 0 .. MaxAge], NEW accept, item.pkt \in passed,
           KeepPre(Traffic[item.pkt].conn, accept.stream, accept.counters),
           ~Complete(accept.stream), Queue(item, accept)
    PROVE  \E t : PassedOn(Traffic[item.pkt].conn, t, accept.counters)
<1> DEFINE p == item.pkt
           c == Traffic[p].conn
           e == Traffic[p].from
           s == accept.stream
           k == accept.counters
           half == s.half[e]
           fresh == \A q \in Buffered(half) : Traffic[q].seq # Traffic[p].seq
           queued == [s EXCEPT !.half[e].buffered = IF fresh THEN @ \cup {item} ELSE @]
           g == IF fresh THEN [half EXCEPT !.buffered = half.buffered \cup {item}] ELSE half
           pages == Buffered(queued.half[e])
           batch == Run(pages, Traffic[First(pages)].seq)
<1>1. p \in Packets /\ p \in passed /\ c \in Conns /\ e \in Ends
  BY PacketFacts DEF IInv, TypeOK
<1>2. /\ ~half.closed
      /\ IF OverLimit(pages) THEN Deliver(c, queued, e, batch, p, k)
         ELSE Keep(c, queued, k) /\ UNCHANGED <<events, swallowed>>
  BY DEF Queue, Stale
<1>3. KeepPre(c, s, k) /\ ~Complete(s)
  OBVIOUS
<1> HIDE DEF c, e, s, k
<1>4. /\ s \in Streams /\ half \in Halves /\ HalfOK(c, e, half)
      /\ IsFiniteSet(half.buffered)
      /\ Cardinality(half.buffered) < MaxPages /\ Cardinality(half.buffered) \in Nat
  BY <1>1, <1>3, HalfMet
<1>5. Arrived(c, e, p)
  BY <1>1 DEF Arrived, c, e
<1>6. /\ queued \in Streams /\ queued.half[e] = g /\ queued.id = s.id /\ queued.fsmerr = s.fsmerr
      /\ \A f \in Ends \ {e} : queued.half[f] = s.half[f]
  <2>1. s.half \in [Ends -> Halves] /\ s = [s EXCEPT !.half = s.half]
    BY <1>4 DEF Streams
  <2>2. g \in Halves
    BY <1>4 DEF Halves
  <2>3. [half EXCEPT !.buffered = half.buffered] = half
    BY <1>4 DEF Halves
  <2>4. queued = [s EXCEPT !.half = [s.half EXCEPT ![e] = g]]
    <3>1. CASE fresh
      BY <1>1, <1>4, <2>1, <3>1 DEF Streams
    <3>2. CASE ~fresh
      BY <1>1, <1>4, <2>1, <2>3, <3>2 DEF Streams
    <3> QED
      BY <3>1, <3>2
  <2> HIDE DEF g, queued
  <2>5. /\ queued \in Streams /\ queued.half = [s.half EXCEPT ![e] = g] /\ queued.id = s.id
        /\ queued.fsmerr = s.fsmerr
    BY <1>1, <1>4, <2>1, <2>2, <2>4 DEF Streams
  <2> QED
    BY <1>1, <2>1, <2>2, <2>5
<1>7. \/ g = half
      \/ /\ \A q \in Buffered(half) : Traffic[q].seq # Traffic[item.pkt].seq
         /\ g = [half EXCEPT !.buffered = half.buffered \cup {item}]
  OBVIOUS
<1> HIDE DEF g, half
<1>8. /\ g \in Halves /\ HalfOK(c, e, g) /\ g.closed = half.closed
      /\ IsFiniteSet(g.buffered) /\ Cardinality(g.buffered) <= Cardinality(half.buffered) + 1
  BY <1>2, <1>4, <1>5, <1>7, QueuedHalf
<1> HIDE DEF queued
<1>9. /\ pages = Buffered(g) /\ pages \subseteq Packets
      /\ Cardinality(g.buffered) <= Cardinality(pages)
      /\ Cardinality(g.buffered) \in Nat /\ Cardinality(pages) \in Nat
      /\ \A q \in pages : Arrived(c, e, q)
  <2>1. /\ Buffered(g) \subseteq Packets /\ Cardinality(g.buffered) <= Cardinality(Buffered(g))
        /\ Cardinality(g.buffered) \in Nat /\ Cardinality(Buffered(g)) \in Nat
    BY <1>8, BufferedFinite
  <2>2. \A q \in Buffered(g) : Arrived(c, e, q)
    BY <1>8 DEF HalfOK, Buffered
  <2> QED
    BY <2>1, <2>2, <1>6
<1> HIDE DEF pages
<1>10. queued.half[e].closed = s.half[e].closed
  BY <1>6, <1>8 DEF half
<1>11. CASE OverLimit(pages)
  <2>1. Deliver(c, queued, e, batch, p, k)
    BY <1>2, <1>11
  <2>2. pages # {}
    BY <1>11, FS_EmptySet, TimeFacts DEF OverLimit
  <2>3. First(pages) \in batch /\ First(pages) \in pages
    BY <1>9, <2>2, FirstRun, FirstIn
  <2>4. batch \in SUBSET Packets /\ batch # {} /\ \A q \in batch : Arrived(c, e, q)
    BY <1>9, <2>3, RunIn
  <2> HIDE DEF batch
  <2>5. PICK i \in g.buffered : i.pkt = First(pages)
    BY <1>9, <2>3 DEF Buffered
  <2> DEFINE R == {j \in g.buffered : j.pkt \notin batch}
  <2>6. R \in SUBSET g.buffered /\ i \notin R
    BY <2>3, <2>5
  <2> HIDE DEF R
  <2>7. Cardinality(R) <= Cardinality(g.buffered) - 1 /\ IsFiniteSet(R)
    BY <1>8, <2>6, OneLess
  <2>8. Cardinality(R) \in Nat
    BY <2>7, FS_CardinalityType
  <2>9. Cardinality(R) < MaxPages
    BY <1>4, <1>8, <1>9, <2>7, <2>8, TimeFacts
  <2>10. /\ Cardinality({j \in queued.half[e].buffered : j.pkt \notin batch}) < MaxPages
         /\ HalfOK(c, e, queued.half[e])
    BY <1>6, <1>8, <2>9 DEF R
  <2>11. \E t : PassedOn(c, t, k) /\ \A f \in Ends \ {e} : t.half[f] = s.half[f]
    BY <1>1, <1>3, <1>6, <1>10, <2>1, <2>4, <2>10, DeliverPassedOn
  <2> QED
    BY <2>11 DEF c, k
<1>12. CASE ~OverLimit(pages)
  <2>1. Keep(c, queued, k) /\ UNCHANGED <<events, swallowed>>
    BY <1>2, <1>12
  <2>2. Cardinality(g.buffered) < MaxPages
    BY <1>9, <1>12, TimeFacts DEF OverLimit
  <2>3. StreamOK(c, s)
    BY <1>3 DEF KeepPre
  <2>4. StreamOK(c, queued)
    <3>1. ASSUME NEW f \in Ends
          PROVE  HalfOK(c, f, queued.half[f]) /\ Cardinality(queued.half[f].buffered) < MaxPages
      <4>1. CASE f = e
        BY <1>6, <1>8, <2>2, <4>1
      <4>2. CASE f # e
        BY <1>6, <2>3, <4>2 DEF StreamOK
      <4> QED
        BY <4>1, <4>2
    <3> QED
      BY <3>1 DEF StreamOK
  <2>5. KeepPre(c, queued, k)
    BY <1>3, <1>6, <2>4 DEF KeepPre
  <2>6. ~Complete(queued)
    BY <1>3, <1>6, <1>10 DEF Complete
  <2>7. PassedOn(c, queued, k)
    BY <1>1, <2>1, <2>5, <2>6, DropPassedOn
  <2> QED
    BY <2>7 DEF c, k
<1> QED
  BY <1>11, <1>12

LEMMA PacketPassedOn ==
    ASSUME IInv, Packet
    PROVE  \E c \in Conns : \E t, k :
              /\ PassedOn(c, t, k)
              /\ k.total_streams + Len(source') <= Cardinality(passed)
              /\ k.rejectFsm + Len(source') <= Cardinality(passed)
<1> DEFINE item == Head(source)
           p == item.pkt
           c == Traffic[p].conn
<1>1. PICK v \in Verdicts : \/ Drop(item, Accepted(item, v)) \/ Forward(item, Accepted(item, v))
                            \/ Queue(item, Accepted(item, v))
  BY DEF Packet
<1>2. source # << >> /\ source' = Tail(source)
  BY DEF Packet
<1>3. item \in [pkt: Packets, age: 0 .. MaxAge] /\ p \in passed
  BY <1>2, TakenFacts
<1>4. c \in Conns
  BY <1>3, PacketFacts
<1> DEFINE a == Accepted(item, v)
<1>5. /\ KeepPre(c, a.stream, a.counters) /\ ~Complete(a.stream)
      /\ a.counters.total_streams + Len(source') <= Cardinality(passed)
      /\ a.counters.rejectFsm + Len(source') <= Cardinality(passed)
  BY <1>2, AcceptPre
<1>6. Drop(item, a) \/ Forward(item, a) \/ Queue(item, a)
  BY <1>1
<1> HIDE DEF a, item
<1>7. \E t : PassedOn(c, t, a.counters)
  <2>1. CASE Drop(item, a)
    <3>1. Keep(c, a.stream, a.counters) /\ UNCHANGED <<events, swallowed>>
      BY <2>1 DEF Drop
    <3>2. PassedOn(c, a.stream, a.counters)
      BY <1>4, <1>5, <3>1, DropPassedOn
    <3> QED
      BY <3>2
  <2>2. CASE Forward(item, a)
    BY <1>3, <1>5, <2>2, ForwardPassedOn
  <2>3. CASE Queue(item, a)
    BY <1>3, <1>5, <2>3, QueuePassedOn
  <2> QED
    BY <1>6, <2>1, <2>2, <2>3
<1> QED
  BY <1>4, <1>5, <1>7

-----------------------------------------------------------------------------
(* The invariant.                                                          *)

LEMMA HandledInv ==
    ASSUME IInv, NEW c \in Conns, NEW t, NEW k, Handled(c, t, k),
           UNCHANGED <<passed, lost, phase>>, todo' \subseteq todo,
           source' \in Seq([pkt: Packets, age: 0 .. MaxAge]),
           \A n \in DOMAIN source' : source'[n].pkt \in passed,
           k.total_streams + Len(source') <= Cardinality(passed),
           k.rejectFsm + Len(source') <= Cardinality(passed), Stopping'
    PROVE  IInv'
<1>1. KeepPre(c, t, k) /\ Keep(c, t, k) /\ swallowed' \subseteq passed
  BY DEF Handled
<1>2. /\ stats' \in Counters /\ stats'.total_streams = k.total_streams
      /\ stats'.rejectFsm = k.rejectFsm
      /\ stats'.active_streams = Cardinality(LiveConns')
      /\ stats'.active_streams <= stats'.total_streams
  BY <1>1, KeepStats
<1>3. pool' \in [Conns -> Streams]
  BY <1>1, KeepPool
<1>4. \A d \in Conns : IF Live(d)' THEN StreamOK(d, pool[d])' /\ ~Complete(pool[d])'
                       ELSE pool'[d] = NoStream
  BY <1>1, KeepPoolOK
<1>5. /\ \A a, d \in Conns : (Live(a) /\ Live(d) /\ pool[a].id = pool[d].id)' => a = d
      /\ \A d \in Conns : pool'[d].id <= stats'.total_streams
      /\ stats.total_streams <= stats'.total_streams
      /\ t.id <= stats'.total_streams
  BY <1>1, KeepIds
<1>6. Rejections'
  BY <1>1, KeepRejections
<1>7. /\ passed' = passed /\ lost' = lost /\ phase' = phase
      /\ passed \subseteq Packets /\ lost \subseteq passed /\ todo \subseteq Conns \X Ends
      /\ phase \in {"running", "stopping", "stopped"}
      /\ \A ev \in events : ev.conn \in Conns /\ ev.entry \in Entry
      /\ stats \in Counters
  BY DEF IInv, TypeOK
<1>8. \A ev \in events' : \/ ev \in events
                          \/ ev.stream = t.id /\ ev.conn = c /\ ev.entry \in Entry
  BY DEF Handled
<1>9. TypeOK'
  BY <1>1, <1>2, <1>3, <1>7, <1>8 DEF TypeOK
<1>10. PoolOK'
  BY <1>4, <1>7 DEF PoolOK
<1>11. CountersBounded'
  BY <1>2, <1>7 DEF CountersBounded
<1>12. \A ev \in events' : ev.stream <= stats'.total_streams
  <2>1. \A ev \in events : ev.stream <= stats.total_streams
    BY DEF IInv, StreamAccounting
  <2> QED
    BY <1>2, <1>5, <1>7, <1>8, <2>1, CounterFacts DEF IInv, EventsNamed
<1>13. StreamAccounting'
  BY <1>2, <1>5, <1>12 DEF StreamAccounting, LiveConns
<1>14. EventsNamed'
  <2>1. t.id # 0 /\ t.id \in Nat
    BY <1>1, KeepPool DEF KeepPre, Streams
  <2> QED
    BY <1>8, <2>1 DEF IInv, EventsNamed
<1> QED
  BY <1>6, <1>9, <1>10, <1>11, <1>13, <1>14 DEF IInv

\* A stream of the pool, as a flush finds it.
LEMMA OldStream ==
    ASSUME IInv, NEW c \in Conns, Live(c)
    PROVE  KeepPre(c, pool[c], stats) /\ ~Complete(pool[c])
<1>1. pool[c] \in Streams /\ stats \in Counters
  BY DEF IInv, TypeOK
<1>2. StreamOK(c, pool[c]) /\ ~Complete(pool[c])
  BY DEF IInv, PoolOK
<1>3. stats.rejectConnFsm <= stats.rejectFsm
  BY DEF IInv, Rejections
<1> QED
  BY <1>1, <1>2, <1>3 DEF KeepPre

LEMMA FlushRunPassedOn ==
    ASSUME IInv, NEW c \in Conns, NEW e \in Ends, FlushRun(c, e)
    PROVE  \E t : PassedOn(c, t, stats) /\ \A f \in Ends \ {e} : t.half[f] = pool[c].half[f]
<1> DEFINE s == pool[c]
           half == s.half[e]
           first == First(Buffered(half))
           batch == Run(Buffered(half), Traffic[first].seq)
<1>1. Live(c) /\ half.buffered # {} /\ Deliver(c, s, e, batch, first, stats)
  BY DEF FlushRun, DueForFlush
<1>2. KeepPre(c, s, stats) /\ ~Complete(s)
  BY <1>1, OldStream
<1> HIDE DEF s
<1>3. /\ s \in Streams /\ half \in Halves /\ HalfOK(c, e, half)
      /\ \A q \in Buffered(half) : Arrived(c, e, q)
      /\ IsFiniteSet(half.buffered) /\ Buffered(half) \subseteq Packets
      /\ Cardinality(half.buffered) < MaxPages /\ Cardinality(half.buffered) \in Nat
  BY <1>2, HalfMet
<1>4. Buffered(half) # {}
  BY <1>1 DEF Buffered
<1>5. first \in batch /\ first \in Packets
  BY <1>3, <1>4, FirstRun, FirstIn
<1>6. batch \in SUBSET Packets /\ batch # {} /\ \A q \in batch : Arrived(c, e, q)
  BY <1>3, <1>5, RunIn
<1> HIDE DEF batch, first
<1>7. Cardinality({i \in half.buffered : i.pkt \notin batch}) < MaxPages
  <2> DEFINE R == {i \in half.buffered : i.pkt \notin batch}
  <2>1. Cardinality(R) <= Cardinality(half.buffered) /\ IsFiniteSet(R)
    BY <1>3, FS_Subset
  <2>2. Cardinality(R) \in Nat
    BY <2>1, FS_CardinalityType
  <2> HIDE DEF R
  <2> QED
    BY <1>3, <2>1, <2>2, TimeFacts DEF R
<1>8. \E t : PassedOn(c, t, stats) /\ \A f \in Ends \ {e} : t.half[f] = s.half[f]
  BY <1>1, <1>2, <1>3, <1>5, <1>6, <1>7, DeliverPassedOn
<1> QED
  BY <1>8 DEF s

LEMMA CloseHalfHandled ==
    ASSUME IInv, NEW c \in Conns, NEW e \in Ends, CloseHalf(c, e)
    PROVE  \E t : /\ Handled(c, t, stats) /\ t.half[e].closed
                  /\ \A f \in Ends \ {e} : t.half[f] = pool[c].half[f]
<1> DEFINE s == pool[c]
           g == Closed(s.half[e])
           t == [s EXCEPT !.half[e] = g]
<1>1. /\ Live(c) /\ Keep(c, [s EXCEPT !.half[e] = Closed(@)], stats)
      /\ events' = events /\ swallowed' = swallowed
  BY DEF CloseHalf
<1>2. KeepPre(c, s, stats)
  BY <1>1, OldStream
<1> HIDE DEF s
<1>3. s \in Streams /\ s.half \in [Ends -> Halves] /\ s.half[e] \in Halves /\ StreamOK(c, s)
  BY <1>2 DEF KeepPre, Streams
<1>4. [s EXCEPT !.half[e] = Closed(@)] = t
  BY <1>3 DEF Streams
<1>5. g \in Halves /\ g.closed /\ g.buffered = {}
  BY <1>3, ClosedHalf
<1> HIDE DEF g
<1>6. /\ t \in Streams /\ t.id = s.id /\ t.fsmerr = s.fsmerr
      /\ t.half = [s.half EXCEPT ![e] = g]
  BY <1>3, <1>5 DEF Streams
<1> HIDE DEF t
<1>7. t.half[e] = g /\ \A f \in Ends \ {e} : t.half[f] = s.half[f]
  BY <1>3, <1>5, <1>6
<1>8. HalfOK(c, e, g) /\ Cardinality(g.buffered) < MaxPages
  BY <1>5, FS_EmptySet, TimeFacts DEF HalfOK
<1>9. ASSUME NEW f \in Ends
      PROVE  HalfOK(c, f, t.half[f]) /\ Cardinality(t.half[f].buffered) < MaxPages
  <2>1. CASE f = e
    BY <1>7, <1>8, <2>1
  <2>2. CASE f # e
    BY <1>3, <1>7, <2>2 DEF StreamOK
  <2> QED
    BY <2>1, <2>2
<1>10. KeepPre(c, t, stats)
  BY <1>2, <1>6, <1>9 DEF KeepPre, StreamOK
<1>11. swallowed' \subseteq passed
  BY <1>1 DEF IInv, TypeOK
<1>12. Handled(c, t, stats)
  BY <1>1, <1>4, <1>10, <1>11 DEF Handled
<1> QED
  BY <1>5, <1>7, <1>12 DEF s

(* Steps that touch neither the pool nor the counters.                     *)
LEMMA QuietInv ==
    ASSUME IInv, UNCHANGED <<pool, stats, events>>, passed \subseteq passed',
           TypeOK', Stopping', \A n \in DOMAIN source' : source'[n].pkt \in passed',
           stats.total_streams + Len(source') <= Cardinality(passed'),
           stats.rejectFsm + Len(source') <= Cardinality(passed')
    PROVE  IInv'
<1>1. pool' = pool /\ stats' = stats /\ events' = events
  OBVIOUS
<1>2. \A c \in Conns : Live(c)' <=> Live(c)
  BY <1>1 DEF Live
<1>3. \A c \in Conns : IF Live(c) THEN StreamOK(c, pool[c]) /\ ~Complete(pool[c])
                       ELSE pool[c] = NoStream
  BY DEF IInv, PoolOK
<1>4. ASSUME NEW c \in Conns
      PROVE  IF Live(c)' THEN StreamOK(c, pool[c])' /\ ~Complete(pool[c])' ELSE pool'[c] = NoStream
  BY <1>1, <1>2, <1>3 DEF StreamOK, HalfOK, Arrived, Complete
<1>5. PoolOK'
  BY <1>4 DEF PoolOK
<1>6. EventsNamed' /\ StreamAccounting'
  BY <1>1 DEF IInv, EventsNamed, StreamAccounting, Live
<1>7. CountersBounded' /\ Rejections'
  BY <1>1 DEF IInv, CountersBounded, Rejections, Unrejected, Rejected, Live
<1> QED
  BY <1>5, <1>6, <1>7 DEF IInv

LEMMA PassedCount ==
    ASSUME IInv
    PROVE  /\ IsFiniteSet(passed) /\ Cardinality(passed) \in Nat /\ Len(source) \in Nat
           /\ stats.total_streams \in Nat /\ stats.rejectFsm \in Nat
           /\ stats.total_streams + Len(source) <= Cardinality(passed)
           /\ stats.rejectFsm + Len(source) <= Cardinality(passed)
           /\ \A n \in DOMAIN source : source[n].pkt \in passed
<1>1. passed \subseteq Packets /\ source \in Seq([pkt: Packets, age: 0 .. MaxAge]) /\ stats \in Counters
  BY DEF IInv, TypeOK
<1>2. IsFiniteSet(passed)
  BY <1>1, FiniteTraffic, FS_Subset
<1>3. Cardinality(passed) \in Nat
  BY <1>2, FS_CardinalityType
<1> QED
  BY <1>1, <1>2, <1>3, CounterFacts DEF IInv, CountersBounded, PoolOK

LEMMA CaptureInv ==
    ASSUME IInv, NEW p \in Packets, Capture(p) \/ Lose(p)
    PROVE  IInv'
<1>1. /\ p \notin passed /\ passed' = passed \cup {p}
      /\ UNCHANGED <<pool, todo, phase, stats, events, swallowed>>
  BY DEF Capture, Lose, InReach
<1>2. Cardinality(passed') = Cardinality(passed) + 1
  BY <1>1, PassedCount, FS_AddElement
<1>3. Stopping'
  BY <1>1 DEF IInv, Stopping, LiveConns, Live
<1> DEFINE S == [pkt: Packets, age: 0 .. MaxAge]
<1>4. source \in Seq(S) /\ [pkt |-> p, age |-> 0] \in S
  BY TimeFacts DEF IInv, TypeOK
<1> HIDE DEF S
<1>5. CASE Capture(p)
  <2> DEFINE i == [pkt |-> p, age |-> 0]
  <2>1. source' = Append(source, i) /\ lost' = lost
    BY <1>5 DEF Capture
  <2>2. i.pkt = p
    OBVIOUS
  <2> HIDE DEF i
  <2>3. i \in S
    BY <1>4 DEF i
  <2>4. /\ source' \in Seq(S) /\ Len(source') = Len(source) + 1
        /\ \A n \in DOMAIN source' : source'[n] = i \/ (n \in DOMAIN source /\ source'[n] = source[n])
    BY <1>4, <2>1, <2>3
  <2>5. \A n \in DOMAIN source' : source'[n].pkt \in passed'
    BY <1>1, <2>2, <2>4, PassedCount
  <2>6. TypeOK'
    BY <1>1, <2>1, <2>4 DEF IInv, TypeOK, S
  <2> QED
    BY <1>1, <1>2, <1>3, <2>4, <2>5, <2>6, PassedCount, QuietInv
<1>6. CASE Lose(p)
  <2>1. source' = source /\ lost' = lost \cup {p}
    BY <1>6 DEF Lose
  <2>2. TypeOK'
    BY <1>1, <2>1 DEF IInv, TypeOK
  <2>3. \A n \in DOMAIN source' : source'[n].pkt \in passed'
    BY <1>1, <2>1, PassedCount
  <2> QED
    BY <1>1, <1>2, <1>3, <2>1, <2>2, <2>3, PassedCount, QuietInv
<1> QED
  BY <1>5, <1>6

\* A direction with nothing to flush and nothing to close, in Stop, does not exist.
LEMMA NothingLeft ==
    ASSUME IInv, NEW c \in Conns, NEW e \in Ends, phase = "stopping", Live(c),
           ~DueForFlush(pool[c].half[e]), ~DueForClose(pool[c], pool[c].half[e])
    PROVE  FALSE
<1> DEFINE half == pool[c].half[e]
<1>1. half.buffered # {}
  BY DEF DueForClose
<1>2. half \in Halves
  BY DEF IInv, TypeOK, Streams
<1> HIDE DEF half
<1>3. Buffered(half) \in SUBSET Packets /\ Buffered(half) # {}
  BY <1>1, <1>2 DEF Buffered, Halves
<1>4. First(Buffered(half)) \in Buffered(half)
  BY <1>3, FirstIn
<1>5. \E i \in half.buffered : i.pkt = First(Buffered(half))
  BY <1>4 DEF Buffered
<1> QED
  BY <1>1, <1>5 DEF DueForFlush, half

LEMMA ControlInv ==
    ASSUME IInv, BeginFlush \/ BeginStop \/ Stopped
                 \/ \E c \in Conns, e \in Ends : NextHalf(c, e)
    PROVE  IInv'
<1>1. UNCHANGED <<passed, lost, source, pool, stats, events, swallowed>>
  BY DEF BeginFlush, BeginStop, Stopped, NextHalf
<1>2. Directions \subseteq Conns \X Ends
  BY DEF Directions
<1>3. /\ todo' \subseteq Conns \X Ends /\ phase' \in {"running", "stopping", "stopped"}
  BY <1>2 DEF BeginFlush, BeginStop, Stopped, NextHalf, IInv, TypeOK
<1>4. TypeOK'
  BY <1>1, <1>3 DEF IInv, TypeOK
<1>5. Stopping /\ \A c \in Conns : Live(c)' <=> Live(c)
  BY <1>1 DEF IInv, Live
<1>6. LiveConns' = LiveConns
  BY <1>5 DEF LiveConns
<1>7. Stopping'
  <2>1. CASE BeginFlush
    BY <2>1 DEF BeginFlush, Stopping
  <2>2. CASE BeginStop
    <3>1. todo' = Directions /\ phase' = "stopping"
      BY <2>2 DEF BeginStop
    <3>2. \A c \in Conns, e \in Ends : Live(c)' => <<c, e>> \in todo'
      BY <1>5, <3>1 DEF Directions
    <3> QED
      BY <3>1, <3>2 DEF Stopping
  <2>3. CASE Stopped
    <3>1. phase = "stopping" /\ todo = {} /\ phase' = "stopped" /\ todo' = {}
      BY <2>3 DEF Stopped
    <3>2. \A c \in Conns : Live(c) => Complete(pool[c])
      BY <1>5, <3>1 DEF Stopping, Complete
    <3>3. LiveConns = {}
      BY <3>2 DEF LiveConns, IInv, PoolOK
    <3> QED
      BY <1>6, <3>1, <3>3 DEF Stopping
  <2>4. ASSUME NEW c \in Conns, NEW e \in Ends, NextHalf(c, e) PROVE Stopping'
    <3>1. todo' = todo \ {<<c, e>>} /\ phase' = phase
      BY <2>4 DEF NextHalf
    <3>2. phase = "stopping" /\ Live(c) => pool[c].half[e].closed
      BY <2>4, NothingLeft DEF NextHalf
    <3>3. phase' = "stopping" => \A d \in Conns, f \in Ends :
                 Live(d)' /\ <<d, f>> \notin todo' => pool'[d].half[f].closed
      <4> SUFFICES ASSUME phase' = "stopping", NEW d \in Conns, NEW f \in Ends,
                          Live(d)', <<d, f>> \notin todo'
                   PROVE  pool'[d].half[f].closed
        OBVIOUS
      <4>1. Live(d) /\ pool'[d] = pool[d] /\ phase = "stopping"
        BY <1>1, <1>5, <3>1
      <4>2. CASE <<d, f>> = <<c, e>>
        BY <3>2, <4>1, <4>2
      <4>3. CASE <<d, f>> # <<c, e>>
        BY <1>5, <3>1, <4>1, <4>3 DEF Stopping
      <4> QED
        BY <4>2, <4>3
    <3>4. phase' = "stopped" => todo' = {} /\ LiveConns' = {}
      BY <1>5, <1>6, <3>1 DEF Stopping
    <3> QED
      BY <3>3, <3>4 DEF Stopping
  <2> QED
    BY <2>1, <2>2, <2>3, <2>4
<1> QED
  BY <1>1, <1>4, <1>7, PassedCount, QuietInv

LEMMA PacketInv == ASSUME IInv, Packet PROVE IInv'
<1>0. PICK c \in Conns : \E t, k :
              /\ PassedOn(c, t, k)
              /\ k.total_streams + Len(source') <= Cardinality(passed)
              /\ k.rejectFsm + Len(source') <= Cardinality(passed)
  BY PacketPassedOn
<1>1. PICK t, k :
              /\ PassedOn(c, t, k)
              /\ k.total_streams + Len(source') <= Cardinality(passed)
              /\ k.rejectFsm + Len(source') <= Cardinality(passed)
  BY <1>0
<1>2. /\ source # << >> /\ source' = Tail(source) /\ phase = "running"
      /\ UNCHANGED <<passed, lost, todo, phase>>
  BY DEF Packet
<1>3. /\ source' \in Seq([pkt: Packets, age: 0 .. MaxAge])
      /\ \A n \in DOMAIN source' : source'[n].pkt \in passed
  BY <1>2, TakenFacts
<1>4. Stopping'
  BY <1>2 DEF Stopping
<1>5. Handled(c, t, k)
  BY <1>1 DEF PassedOn
<1> QED
  BY <1>1, <1>2, <1>3, <1>4, <1>5, HandledInv

(* A step of a flush changes one direction, which is closed or still to be *)
(* visited.                                                                *)
LEMMA FlushedStopping ==
    ASSUME IInv, NEW c \in Conns, NEW e \in Ends, NEW t, Handled(c, t, stats), phase' = phase,
           <<c, e>> \in todo,
           \A f \in Ends \ {e} : t.half[f] = pool[c].half[f],
           Live(c),
           todo' = todo \/ (todo' = todo \ {<<c, e>>} /\ t.half[e].closed)
    PROVE  Stopping'
<1>1. KeepPre(c, t, stats) /\ Keep(c, t, stats)
  BY DEF Handled
<1>2. /\ \A d \in Conns \ {c} : pool'[d] = pool[d]
      /\ pool'[c] = IF Complete(t) THEN NoStream ELSE t
      /\ Live(c)' <=> ~Complete(t)
      /\ \A d \in Conns \ {c} : Live(d)' <=> Live(d)
  BY <1>1, KeepPool
<1>3. phase # "stopped"
  BY DEF IInv, Stopping
<1>4. ASSUME phase' = "stopping", NEW d \in Conns, NEW f \in Ends, Live(d)', <<d, f>> \notin todo'
      PROVE  pool'[d].half[f].closed
  <2>1. CASE d # c
    <3>1. <<d, f>> \notin todo
      BY <1>4, <2>1
    <3>2. Live(d) /\ pool'[d] = pool[d] /\ phase = "stopping"
      BY <1>2, <1>4, <2>1
    <3> QED
      BY <3>1, <3>2 DEF IInv, Stopping
  <2>2. CASE d = c
    <3>1. pool'[c] = t
      BY <1>2, <1>4, <2>2
    <3>2. CASE f = e
      BY <1>4, <2>2, <3>1, <3>2
    <3>3. CASE f # e
      <4>1. <<c, f>> \notin todo
        BY <1>4, <2>2, <3>3
      <4>2. pool[c].half[f].closed
        BY <1>4, <4>1 DEF IInv, Stopping
      <4> QED
        BY <2>2, <3>1, <3>3, <4>2
    <3> QED
      BY <3>2, <3>3
  <2> QED
    BY <2>1, <2>2
<1> QED
  BY <1>3, <1>4 DEF Stopping

LEMMA FlushInv ==
    ASSUME IInv, NEW c \in Conns, NEW e \in Ends, FlushRun(c, e) \/ CloseHalf(c, e)
    PROVE  IInv'
<1>1. /\ <<c, e>> \in todo /\ Live(c) /\ UNCHANGED <<passed, lost, source, phase>>
  BY DEF FlushRun, CloseHalf, Turn
<1>2. \E t : /\ Handled(c, t, stats)
             /\ \A f \in Ends \ {e} : t.half[f] = pool[c].half[f]
             /\ todo' = todo \/ (todo' = todo \ {<<c, e>>} /\ t.half[e].closed)
  <2>1. CASE FlushRun(c, e)
    <3>1. todo' = todo
      BY <2>1 DEF FlushRun
    <3> QED
      BY <2>1, <3>1, FlushRunPassedOn DEF PassedOn
  <2>2. CASE CloseHalf(c, e)
    <3>1. todo' = todo \ {<<c, e>>}
      BY <2>2 DEF CloseHalf
    <3> QED
      BY <2>2, <3>1, CloseHalfHandled
  <2> QED
    BY <2>1, <2>2
<1>3. PICK t : /\ Handled(c, t, stats)
               /\ \A f \in Ends \ {e} : t.half[f] = pool[c].half[f]
               /\ todo' = todo \/ (todo' = todo \ {<<c, e>>} /\ t.half[e].closed)
  BY <1>2
<1>4. Stopping'
  BY <1>1, <1>3, FlushedStopping
<1>5. /\ source' \in Seq([pkt: Packets, age: 0 .. MaxAge])
      /\ \A n \in DOMAIN source' : source'[n].pkt \in passed
      /\ stats.total_streams + Len(source') <= Cardinality(passed)
      /\ stats.rejectFsm + Len(source') <= Cardinality(passed)
  BY <1>1, PassedCount DEF IInv, TypeOK
<1>6. todo' \subseteq todo
  BY <1>3
<1> QED
  BY <1>1, <1>3, <1>4, <1>5, <1>6, HandledInv

-----------------------------------------------------------------------------
(* The clock.                                                              *)

LEMMA OlderType ==
    ASSUME NEW i \in [pkt: Packets, age: 0 .. MaxAge]
    PROVE  OlderItem(i) \in [pkt: Packets, age: 0 .. MaxAge] /\ OlderItem(i).pkt = i.pkt
<1>1. Older(i.age) \in 0 .. MaxAge
  BY TimeFacts DEF Older
<1> QED
  BY <1>1 DEF OlderItem

LEMMA OlderHalfOK ==
    ASSUME NEW c, NEW e, NEW h \in Halves, HalfOK(c, e, h), Cardinality(h.buffered) < MaxPages
    PROVE  /\ OlderHalf(h) \in Halves /\ HalfOK(c, e, OlderHalf(h))
           /\ OlderHalf(h).closed = h.closed /\ Cardinality(OlderHalf(h).buffered) < MaxPages
<1> DEFINE S == h.buffered
           T == {OlderItem(i) : i \in S}
           g == OlderHalf(h)
           f == [i \in S |-> OlderItem(i)]
<1>1. S \subseteq [pkt: Packets, age: 0 .. MaxAge] /\ h.idle \in 0 .. MaxAge
  BY DEF Halves
<1>2. Older(h.idle) \in 0 .. MaxAge
  BY <1>1, TimeFacts DEF Older
<1>3. \A i \in S : OlderItem(i) \in [pkt: Packets, age: 0 .. MaxAge] /\ OlderItem(i).pkt = i.pkt
  BY <1>1, OlderType
<1>4. g = [h EXCEPT !.buffered = T, !.idle = Older(h.idle)]
  BY DEF OlderHalf, Halves
<1>5. T \subseteq [pkt: Packets, age: 0 .. MaxAge]
  BY <1>3
<1> HIDE DEF T, g
<1>6. g \in Halves /\ g.buffered = T /\ g.closed = h.closed
  BY <1>2, <1>4, <1>5 DEF Halves
<1>7. HalfOK(c, e, g)
  <2>1. /\ \A i \in S : Arrived(c, e, i.pkt)
        /\ \A i, j \in S : Traffic[i.pkt].seq = Traffic[j.pkt].seq => i = j
        /\ h.closed => S = {}
    BY DEF HalfOK
  <2> HIDE DEF S
  <2>2. \A x \in T : \E i \in S : x = OlderItem(i) /\ x.pkt = i.pkt
    BY <1>3 DEF T
  <2>3. \A x \in T : Arrived(c, e, x.pkt)
    BY <2>1, <2>2
  <2>4. \A x, y \in T : Traffic[x.pkt].seq = Traffic[y.pkt].seq => x = y
    BY <2>1, <2>2
  <2>5. h.closed => T = {}
    BY <2>1 DEF T
  <2> QED
    BY <1>6, <2>3, <2>4, <2>5 DEF HalfOK
<1>8. IsFiniteSet(S)
  BY BufferedFinite
<1>9. f \in Surjection(S, T)
  BY DEF Surjection, T
<1> HIDE DEF f, S
<1>10. Cardinality(T) <= Cardinality(S) /\ IsFiniteSet(T)
  BY <1>8, <1>9, FS_Surjection
<1>11. Cardinality(T) \in Nat /\ Cardinality(S) \in Nat
  BY <1>8, <1>10, FS_CardinalityType
<1>12. Cardinality(T) < MaxPages
  BY <1>10, <1>11, TimeFacts DEF S
<1> QED
  BY <1>6, <1>7, <1>12 DEF g

LEMMA OlderStream ==
    ASSUME NEW c, NEW s \in Streams, StreamOK(c, s)
    PROVE  LET t == [s EXCEPT !.half = [e \in Ends |-> OlderHalf(@[e])]]
           IN  /\ t \in Streams /\ StreamOK(c, t) /\ (Complete(t) <=> Complete(s))
               /\ t.id = s.id /\ t.fsmerr = s.fsmerr
<1> DEFINE t == [s EXCEPT !.half = [e \in Ends |-> OlderHalf(@[e])]]
           g == [e \in Ends |-> OlderHalf(s.half[e])]
<1>1. s.half \in [Ends -> Halves]
  BY DEF Streams
<1>2. \A e \in Ends : /\ OlderHalf(s.half[e]) \in Halves /\ HalfOK(c, e, OlderHalf(s.half[e]))
                      /\ OlderHalf(s.half[e]).closed = s.half[e].closed
                      /\ Cardinality(OlderHalf(s.half[e]).buffered) < MaxPages
  BY <1>1, OlderHalfOK DEF StreamOK
<1>3. t = [s EXCEPT !.half = g]
  BY DEF Streams
<1>4. g \in [Ends -> Halves] /\ \A e \in Ends : g[e] = OlderHalf(s.half[e])
  BY <1>2
<1> HIDE DEF t, g
<1>5. t \in Streams /\ t.half = g /\ t.id = s.id /\ t.fsmerr = s.fsmerr
  BY <1>3, <1>4 DEF Streams
<1>6. StreamOK(c, t)
  BY <1>2, <1>4, <1>5 DEF StreamOK
<1>7. Complete(t) <=> Complete(s)
  BY <1>2, <1>4, <1>5 DEF Complete
<1> QED
  BY <1>5, <1>6, <1>7 DEF t

LEMMA TickInv == ASSUME IInv, Tick PROVE IInv'
<1>1. /\ phase = "running" /\ UNCHANGED <<passed, lost, todo, phase, stats, events, swallowed>>
      /\ source' = [n \in DOMAIN source |-> OlderItem(source[n])]
  BY DEF Tick
<1>2. pool' = [c \in Conns |-> IF Live(c)
                               THEN [pool[c] EXCEPT !.half = [e \in Ends |-> OlderHalf(@[e])]]
                               ELSE NoStream]
  BY DEF Tick
<1>3. ASSUME NEW c \in Conns
      PROVE  /\ pool'[c] \in Streams /\ pool'[c].id = pool[c].id /\ pool'[c].fsmerr = pool[c].fsmerr
             /\ Live(c) => StreamOK(c, pool'[c]) /\ ~Complete(pool'[c])
             /\ ~Live(c) => pool'[c] = NoStream
  <2>1. /\ pool[c] \in Streams
        /\ IF Live(c) THEN StreamOK(c, pool[c]) /\ ~Complete(pool[c]) ELSE pool[c] = NoStream
    BY DEF IInv, TypeOK, PoolOK
  <2>2. CASE Live(c)
    <3>1. pool'[c] = [pool[c] EXCEPT !.half = [e \in Ends |-> OlderHalf(@[e])]]
      BY <1>2, <2>2
    <3> QED
      BY <2>1, <2>2, <3>1, OlderStream
  <2>3. CASE ~Live(c)
    BY <1>2, <2>1, <2>3, NoStreamType
  <2> QED
    BY <2>2, <2>3
<1>4. \A c \in Conns : Live(c)' <=> Live(c)
  BY <1>3 DEF Live
<1> DEFINE S == [pkt: Packets, age: 0 .. MaxAge]
<1>5. source \in Seq(S)
  BY DEF IInv, TypeOK
<1>6. /\ source' \in Seq(S) /\ Len(source') = Len(source) /\ DOMAIN source' = DOMAIN source
      /\ \A n \in DOMAIN source : source'[n].pkt = source[n].pkt
  <2>1. DOMAIN source = 1 .. Len(source) /\ Len(source) \in Nat /\ \A n \in 1 .. Len(source) : source[n] \in S
    <3> HIDE DEF S
    <3> QED
      BY <1>5
  <2>2. \A n \in DOMAIN source : OlderItem(source[n]) \in S /\ OlderItem(source[n]).pkt = source[n].pkt
    BY <2>1, OlderType
  <2> HIDE DEF S
  <2>3. source' \in [1 .. Len(source) -> S]
    BY <1>1, <2>1, <2>2
  <2>4. source' \in Seq(S) /\ Len(source') = Len(source)
    BY <2>1, <2>3
  <2> QED
    BY <1>1, <2>2, <2>4
<1>7. TypeOK'
  <2>1. pool' \in [Conns -> Streams]
    BY <1>2, <1>3
  <2> QED
    BY <1>1, <1>6, <2>1 DEF IInv, TypeOK
<1>8. PoolOK'
  <2>1. \A n \in DOMAIN source' : source'[n].pkt \in passed'
    BY <1>1, <1>6 DEF IInv, PoolOK
  <2>2. ASSUME NEW c \in Conns
        PROVE IF Live(c)' THEN StreamOK(c, pool[c])' /\ ~Complete(pool[c])' ELSE pool'[c] = NoStream
    BY <1>1, <1>3, <1>4 DEF StreamOK, HalfOK, Arrived, Complete
  <2> QED
    BY <2>1, <2>2 DEF PoolOK
<1>9. EventsNamed' /\ CountersBounded'
  BY <1>1, <1>6 DEF IInv, EventsNamed, CountersBounded
<1>10. {c \in Conns : Live(c)}' = {c \in Conns : Live(c)}
  BY <1>4
<1>11. StreamAccounting'
  BY <1>1, <1>3, <1>4, <1>10 DEF IInv, StreamAccounting
<1>12. Rejected' = Rejected /\ Unrejected' = Unrejected
  BY <1>3, <1>4 DEF Rejected, Unrejected
<1>13. Rejections'
  BY <1>1, <1>12 DEF IInv, Rejections
<1>14. Stopping'
  BY <1>1 DEF Stopping
<1> QED
  BY <1>7, <1>8, <1>9, <1>11, <1>13, <1>14 DEF IInv

-----------------------------------------------------------------------------
LEMMA InitIInv == Init => IInv
<1> SUFFICES ASSUME Init PROVE IInv
  OBVIOUS
<1>1. /\ passed = {} /\ lost = {} /\ source = << >> /\ todo = {} /\ phase = "running"
      /\ events = {} /\ swallowed = {}
  BY DEF Init
<1>2. pool = [c \in Conns |-> NoStream]
  BY DEF Init
<1>3. /\ stats \in Counters
      /\ stats.total_streams = 0 /\ stats.active_streams = 0 /\ stats.rejectFsm = 0
      /\ stats.rejectConnFsm = 0
  <2>1. 0 \in 0 .. Word - 1
    BY FiniteTraffic
  <2> QED
    BY <2>1 DEF Init, Counters
<1>4. \A c \in Conns : pool[c] = NoStream /\ ~Live(c) /\ ~pool[c].fsmerr
  BY <1>2, NoStreamType DEF Live
<1>5. source \in Seq([pkt: Packets, age: 0 .. MaxAge]) /\ Len(source) = 0 /\ DOMAIN source = {}
  BY <1>1
<1>6. TypeOK
  BY <1>1, <1>2, <1>3, <1>5, NoStreamType DEF TypeOK
<1>7. LiveConns = {} /\ Rejected = {} /\ Unrejected = {} /\ {c \in Conns : Live(c)} = {}
  BY <1>4 DEF LiveConns, Rejected, Unrejected
<1>8. PoolOK /\ EventsNamed
  BY <1>1, <1>4, <1>5 DEF PoolOK, EventsNamed
<1>9. CountersBounded /\ Rejections
  BY <1>1, <1>3, <1>5, <1>7, FS_EmptySet DEF CountersBounded, Rejections
<1>10. StreamAccounting
  <2>1. \A c \in Conns : pool[c].id <= stats.total_streams
    BY <1>3, <1>4, NoStreamType
  <2>2. stats.active_streams = Cardinality({c \in Conns : Live(c)})
    BY <1>3, <1>7, FS_EmptySet
  <2>3. \A c, d \in Conns : Live(c) /\ Live(d) /\ pool[c].id = pool[d].id => c = d
    BY <1>4
  <2> QED
    BY <1>1, <2>1, <2>2, <2>3 DEF StreamAccounting
<1>11. Stopping
  BY <1>1 DEF Stopping
<1> QED
  BY <1>6, <1>8, <1>9, <1>10, <1>11 DEF IInv

LEMMA NextIInv == IInv /\ [Next]_vars => IInv'
<1> SUFFICES ASSUME IInv, [Next]_vars PROVE IInv'
  OBVIOUS
<1>1. CASE \E p \in Packets : Capture(p) \/ Lose(p)
  BY <1>1, CaptureInv
<1>2. CASE Tick
  BY <1>2, TickInv
<1>3. CASE Packet
  BY <1>3, PacketInv
<1>4. CASE FlushStep
  <2>1. PICK c \in Conns, e \in Ends : FlushRun(c, e) \/ CloseHalf(c, e) \/ NextHalf(c, e)
    BY <1>4 DEF FlushStep
  <2>2. CASE FlushRun(c, e) \/ CloseHalf(c, e)
    BY <2>2, FlushInv
  <2>3. CASE NextHalf(c, e)
    BY <2>3, ControlInv
  <2> QED
    BY <2>1, <2>2, <2>3
<1>5. CASE BeginFlush \/ BeginStop \/ Stopped
  BY <1>5, ControlInv
<1>6. CASE UNCHANGED vars
  <2>1. UNCHANGED <<passed, lost, source, pool, todo, phase, stats, events, swallowed>>
    BY <1>6 DEF vars
  <2>2. TypeOK'
    BY <2>1 DEF IInv, TypeOK
  <2>3. Stopping'
    BY <2>1 DEF IInv, Stopping, LiveConns, Live
  <2> QED
    BY <2>1, <2>2, <2>3, PassedCount, QuietInv
<1> QED
  BY <1>1, <1>2, <1>3, <1>4, <1>5, <1>6 DEF Next

(* The inductive invariant of the assembler.                               *)
THEOREM Invariance == Spec => []IInv
BY InitIInv, NextIInv, PTL DEF Spec

-----------------------------------------------------------------------------
(* The variables keep their types: in particular no counter wraps, and a   *)
(* page, an entry of a matcher or an event is always a whole one.          *)
THEOREM TypeCorrect == Spec => []TypeOK
<1>1. IInv => TypeOK
  BY DEF IInv
<1> QED
  BY Invariance, <1>1, PTL

(* Every stream that New counts in is counted out once, whatever ends it,  *)
(* and no two live streams share an id.                                    *)
THEOREM StreamsCounted == Spec => []StreamAccounting
<1>1. IInv => StreamAccounting
  BY DEF IInv
<1> QED
  BY Invariance, <1>1, PTL

(* A connection is counted once among the rejected, whatever number of its *)
(* packets Accept rejects.                                                 *)
THEOREM RejectionsCounted == Spec => []RejectAccounting
<1>1. IInv => RejectAccounting
  <2> SUFFICES ASSUME IInv PROVE RejectAccounting
    OBVIOUS
  <2>1. /\ stats.rejectConnFsm <= stats.rejectFsm
        /\ stats.rejectConnFsm + Cardinality(Unrejected) <= stats.total_streams
        /\ stats.rejectConnFsm >= Cardinality(Rejected)
    BY DEF IInv, Rejections
  <2>2. Cardinality(Unrejected) \in Nat /\ stats.rejectConnFsm \in Nat /\ stats.total_streams \in Nat
    BY FiniteConns, CounterFacts DEF IInv, TypeOK
  <2> QED
    BY <2>1, <2>2 DEF RejectAccounting, Rejected
<1> QED
  BY Invariance, <1>1, PTL

(* When Stop has returned the pool is empty and active_streams is zero.    *)
THEOREM NothingLeftBehind == Spec => []StopDrains
<1>1. IInv => StopDrains
  <2> SUFFICES ASSUME IInv, phase = "stopped"
               PROVE  stats.active_streams = 0 /\ \A c \in Conns : pool[c] = NoStream
    BY DEF StopDrains
  <2>1. LiveConns = {}
    BY DEF IInv, Stopping
  <2>2. stats.active_streams = Cardinality(LiveConns)
    BY DEF IInv, StreamAccounting, LiveConns
  <2> QED
    BY <2>1, <2>2, FS_EmptySet DEF IInv, PoolOK, LiveConns
<1> QED
  BY Invariance, <1>1, PTL

(* No direction ever buffers as many packets as MaxBufferedPagesPer-       *)
(* Connection says, however many are missing.                              *)
THEOREM MemoryBounded == Spec => []PagesBounded
<1>1. IInv => PagesBounded
  <2> SUFFICES ASSUME IInv, NEW c \in Conns, NEW e \in Ends
               PROVE  Cardinality(pool[c].half[e].buffered) < MaxPages
    BY DEF PagesBounded
  <2>1. CASE Live(c)
    BY <2>1 DEF IInv, PoolOK, StreamOK
  <2>2. CASE ~Live(c)
    <3>1. pool[c] = NewStream(0, "client")
      BY <2>2 DEF IInv, PoolOK, NoStream
    <3>2. StreamOK(c, NewStream(0, "client"))
      BY NewStreamType DEF Ends
    <3> QED
      BY <3>1, <3>2 DEF StreamOK
  <2> QED
    BY <2>1, <2>2
<1> QED
  BY Invariance, <1>1, PTL

\* A callback with packets of a connection without a FIN does not close its stream.
LEMMA PassedOnStays ==
    ASSUME IInv, NEW c \in Conns, NEW t, NEW k, PassedOn(c, t, k),
           NEW d \in Conns, Live(d), \A p \in passed : Traffic[p].conn = d => ~Traffic[p].fin
    PROVE  pool'[d].id = pool[d].id
<1>1. KeepPre(c, t, k) /\ Keep(c, t, k)
  BY DEF PassedOn, Handled
<1>2. /\ \A a \in Conns \ {c} : pool'[a] = pool[a]
      /\ pool'[c] = IF Complete(t) THEN NoStream ELSE t
  BY <1>1, KeepPool
<1>3. CASE d = c
  <2>1. ~Complete(t)
    BY <1>3 DEF PassedOn
  <2>2. t.id = pool[c].id
    BY <1>1, <1>3 DEF KeepPre
  <2> QED
    BY <1>2, <1>3, <2>1, <2>2
<1>4. CASE d # c
  BY <1>2, <1>4
<1> QED
  BY <1>3, <1>4

(* While the agent runs, a stream without a FIN leaves the pool only when  *)
(* it has been idle for longer than CloseTimeout: neither a late packet,   *)
(* nor the page limit, nor a flush of what waited closes it.               *)
THEOREM ClosedWhenIdle == Spec => ClosedOnlyWhenIdle
<1> DEFINE Kept == \A c \in Conns :
                      /\ Live(c) /\ pool'[c].id # pool[c].id /\ phase = "running"
                      /\ \A p \in passed : Traffic[p].conn = c => ~Traffic[p].fin
                      => IdleFor(pool[c]) > CloseTimeout
<1>1. IInv /\ [Next]_vars => [Kept]_vars
  <2> SUFFICES ASSUME IInv, Next, NEW d \in Conns, Live(d), pool'[d].id # pool[d].id,
                      phase = "running",
                      \A p \in passed : Traffic[p].conn = d => ~Traffic[p].fin
               PROVE  IdleFor(pool[d]) > CloseTimeout
    OBVIOUS
  <2>1. CASE \E p \in Packets : Capture(p) \/ Lose(p)
    BY <2>1 DEF Capture, Lose
  <2>2. CASE Tick
    <3>1. pool'[d] = [pool[d] EXCEPT !.half = [e \in Ends |-> OlderHalf(@[e])]]
      BY <2>2 DEF Tick
    <3>2. pool'[d].id = pool[d].id
      BY <3>1 DEF IInv, TypeOK, Streams
    <3> QED
      BY <3>2
  <2>3. CASE Packet
    BY <2>3, PacketPassedOn, PassedOnStays
  <2>4. CASE FlushStep
    <3>1. PICK c \in Conns, e \in Ends : FlushRun(c, e) \/ CloseHalf(c, e) \/ NextHalf(c, e)
      BY <2>4 DEF FlushStep
    <3>2. CASE FlushRun(c, e)
      BY <3>2, FlushRunPassedOn, PassedOnStays
    <3>3. CASE CloseHalf(c, e)
      <4>1. PICK t : Handled(c, t, stats)
        BY <3>3, CloseHalfHandled
      <4>2. \A a \in Conns \ {c} : pool'[a] = pool[a]
        BY <4>1, KeepPool DEF Handled
      <4>3. d = c
        BY <4>2
      <4> QED
        BY <3>3, <4>3 DEF CloseHalf, DueForClose
    <3>4. CASE NextHalf(c, e)
      BY <3>4 DEF NextHalf
    <3> QED
      BY <3>1, <3>2, <3>3, <3>4
  <2>5. CASE BeginFlush \/ BeginStop \/ Stopped
    BY <2>5 DEF BeginFlush, BeginStop, Stopped
  <2> QED
    BY <2>1, <2>2, <2>3, <2>4, <2>5 DEF Next
<1> QED
  BY Invariance, <1>1, PTL DEF Spec, ClosedOnlyWhenIdle

-----------------------------------------------------------------------------
(* A flush comes to an end.                                                *)

\* A direction less to visit or a page less in the buffers, and none more.
Advanced ==
    /\ todo' \subseteq todo
    /\ \A c \in Conns, e \in Ends : pool'[c].half[e].buffered \subseteq pool[c].half[e].buffered
    /\ \/ todo' # todo
       \/ \E c \in Conns, e \in Ends : pool'[c].half[e].buffered # pool[c].half[e].buffered

\* One stream goes on with less in its buffers, or leaves the pool.
LEMMA LessBuffered ==
    ASSUME IInv, NEW c \in Conns, NEW t,
           pool' = [pool EXCEPT ![c] = IF Complete(t) THEN NoStream ELSE t],
           \A e \in Ends : t.half[e].buffered \subseteq pool[c].half[e].buffered
    PROVE  /\ \A d \in Conns, e \in Ends : pool'[d].half[e].buffered \subseteq pool[d].half[e].buffered
           /\ \A e \in Ends : pool'[c].half[e].buffered \subseteq t.half[e].buffered
<1>1. /\ pool'[c] = IF Complete(t) THEN NoStream ELSE t
      /\ \A d \in Conns \ {c} : pool'[d] = pool[d]
  BY DEF IInv, TypeOK
<1>2. \A e \in Ends : NoStream.half[e].buffered = {}
  BY DEF NoStream, NewStream, NewHalf
<1>3. \A e \in Ends : pool'[c].half[e].buffered \subseteq t.half[e].buffered
  BY <1>1, <1>2
<1> QED
  BY <1>1, <1>3

LEMMA FlushRunAdvances ==
    ASSUME IInv, NEW c \in Conns, NEW e \in Ends, FlushRun(c, e)
    PROVE  Advanced
<1> DEFINE s == pool[c]
           h == s.half[e]
           first == First(Buffered(h))
           batch == Run(Buffered(h), Traffic[first].seq)
           msgs == ReassembledSG(s, e, batch, first).messages
           t == [s EXCEPT !.messages = msgs, !.half[e] = After(@, batch)]
<1>1. /\ Live(c) /\ h.buffered # {} /\ todo' = todo
      /\ pool' = [pool EXCEPT ![c] = IF Complete(t) THEN NoStream ELSE t]
  BY DEF FlushRun, DueForFlush, Deliver, Keep
<1>2. KeepPre(c, s, stats)
  BY <1>1, OldStream
<1> HIDE DEF s
<1>3. /\ s \in Streams /\ h \in Halves /\ s.half \in [Ends -> Halves]
      /\ Buffered(h) \subseteq Packets
  BY <1>2, HalfMet DEF Streams
<1>4. first \in batch /\ first \in Buffered(h) /\ batch \subseteq Buffered(h)
  <2>1. Buffered(h) # {}
    BY <1>1 DEF Buffered
  <2> QED
    BY <1>3, <2>1, FirstRun, FirstIn, RunIn
<1> HIDE DEF batch, first
<1>5. After(h, batch).buffered \subseteq {i \in h.buffered : i.pkt \notin batch}
  <2> HIDE DEF h
  <2>1. batch \in SUBSET Packets /\ batch # {}
    BY <1>3, <1>4
  <2> QED
    BY <1>3, <2>1, AfterHalf
<1>6. t.half = [s.half EXCEPT ![e] = After(h, batch)]
  BY <1>3 DEF Streams
<1> HIDE DEF t
<1>7. /\ t.half[e].buffered \subseteq {i \in h.buffered : i.pkt \notin batch}
      /\ \A f \in Ends : t.half[f].buffered \subseteq s.half[f].buffered
  BY <1>3, <1>5, <1>6
<1>8. /\ \A d \in Conns, f \in Ends : pool'[d].half[f].buffered \subseteq pool[d].half[f].buffered
      /\ pool'[c].half[e].buffered \subseteq t.half[e].buffered
  BY <1>1, <1>7, LessBuffered DEF s
<1>9. pool'[c].half[e].buffered # pool[c].half[e].buffered
  <2>1. PICK i \in h.buffered : i.pkt = first
    BY <1>4 DEF Buffered
  <2> QED
    BY <1>4, <1>7, <1>8, <2>1 DEF s
<1> QED
  BY <1>1, <1>8, <1>9 DEF Advanced

LEMMA CloseHalfAdvances ==
    ASSUME IInv, NEW c \in Conns, NEW e \in Ends, CloseHalf(c, e)
    PROVE  Advanced
<1> DEFINE s == pool[c]
           t == [s EXCEPT !.half[e] = Closed(@)]
<1>1. /\ Live(c) /\ <<c, e>> \in todo /\ todo' = todo \ {<<c, e>>}
      /\ pool' = [pool EXCEPT ![c] = IF Complete(t) THEN NoStream ELSE t]
  BY DEF CloseHalf, Turn, Keep
<1>2. s \in Streams /\ s.half \in [Ends -> Halves]
  BY DEF IInv, TypeOK, Streams
<1> HIDE DEF s
<1>3. t.half = [s.half EXCEPT ![e] = Closed(s.half[e])]
  BY <1>2 DEF Streams
<1> HIDE DEF t
<1>4. Closed(s.half[e]).buffered = {}
  BY <1>2, ClosedHalf
<1>5. \A f \in Ends : t.half[f].buffered \subseteq s.half[f].buffered
  BY <1>2, <1>3, <1>4
<1>6. \A d \in Conns, f \in Ends : pool'[d].half[f].buffered \subseteq pool[d].half[f].buffered
  BY <1>1, <1>5, LessBuffered DEF s
<1> QED
  BY <1>1, <1>6 DEF Advanced

(* A flush takes finitely many steps, though closing a direction may call  *)
(* back and a direction is visited again for each of its runs: every step  *)
(* leaves a direction less to visit or a page less in the buffers, and     *)
(* while directions are left it is the turn of one of them.  So the loop   *)
(* of FlushWithOptions, and of FlushAll in Stop, always comes back.        *)
THEOREM FlushEnds ==
    Spec => /\ [][FlushStep => Advanced]_vars
            /\ [](todo # {} => \E c \in Conns, e \in Ends : Turn(c, e))
<1>1. IInv /\ [Next]_vars => [FlushStep => Advanced]_vars
  <2> SUFFICES ASSUME IInv, FlushStep PROVE Advanced
    OBVIOUS
  <2>1. PICK c \in Conns, e \in Ends : FlushRun(c, e) \/ CloseHalf(c, e) \/ NextHalf(c, e)
    BY DEF FlushStep
  <2>2. CASE NextHalf(c, e)
    BY <2>2 DEF NextHalf, Turn, Advanced
  <2> QED
    BY <2>1, <2>2, FlushRunAdvances, CloseHalfAdvances
<1>2. IInv => (todo # {} => \E c \in Conns, e \in Ends : Turn(c, e))
  <2> SUFFICES ASSUME IInv, todo # {} PROVE \E c \in Conns, e \in Ends : Turn(c, e)
    OBVIOUS
  <2>1. PICK c \in Conns, e \in Ends : <<c, e>> \in todo
    <3>1. todo \subseteq Conns \X Ends
      BY DEF IInv, TypeOK
    <3>2. PICK x \in todo : x \in Conns \X Ends
      BY <3>1
    <3>3. PICK c \in Conns, e \in Ends : x = <<c, e>>
      BY <3>2
    <3> QED
      BY <3>2, <3>3
  <2>2. CASE \E f \in Ends : f # pool[c].src /\ <<c, f>> \in todo
    BY <2>2 DEF Turn
  <2>3. CASE ~\E f \in Ends : f # pool[c].src /\ <<c, f>> \in todo
    BY <2>1, <2>3 DEF Turn
  <2> QED
    BY <2>2, <2>3
<1> QED
  BY Invariance, <1>1, <1>2, PTL DEF Spec

-----------------------------------------------------------------------------
(* What an event carries, whatever the traffic is and wherever the limit   *)
(* of pages lies.                                                          *)

\* A packet that end e of connection c has sent.
SentBy(c, e, p) == p \in Packets /\ Traffic[p].conn = c /\ Traffic[p].from = e

(* An entry under id k has a request of the client and a response of the   *)
(* server of one connection, each with the time of a packet that came from *)
(* the same end and has that id.                                           *)
OwnEntry(c, src, k, x) ==
    /\ x.request # Nil =>
          /\ SentBy(c, src, x.request) /\ Traffic[x.request].kind = "request"
          /\ SentBy(c, src, x.requestTimestamp) /\ Traffic[x.requestTimestamp].ack = k
    /\ x.response # Nil =>
          \E e \in Ends \ {src} :
              /\ SentBy(c, e, x.response) /\ Traffic[x.response].kind = "response"
              /\ SentBy(c, e, x.responseTimestamp) /\ Traffic[x.responseTimestamp].seq = k

OwnStream(c, s) == \A k \in Keys : OwnEntry(c, s.src, k, s.messages[k])

(* No event mixes connections, or takes what a server sends for a request, *)
(* also where the buffers overflow and EventIsOneCycle may fail: then the  *)
(* id and the time may be those of a later packet of the direction.        *)
OwnMessages == \A ev \in events : OwnEntry(ev.conn, ev.src, ev.requestId, ev.entry)

OwnInv == OwnMessages /\ \A c \in Conns : OwnStream(c, pool[c])

LEMMA NothingOwn == ASSUME NEW c, NEW e, NEW k PROVE OwnEntry(c, e, k, NoEntry)
BY DEF OwnEntry, NoEntry, Nil

LEMMA StoredOwn ==
    ASSUME NEW c, NEW src, NEW m \in [Keys -> Entry], NEW id \in Keys, NEW filled,
           \A k \in Keys : OwnEntry(c, src, k, m[k]), OwnEntry(c, src, id, filled)
    PROVE  /\ \A k \in Keys : OwnEntry(c, src, k, GetOrStore(m, id, filled).messages[k])
           /\ OwnEntry(c, src, id, GetOrStore(m, id, filled).match)
<1>1. CASE Found(m, id)
  <2>1. GetOrStore(m, id, filled) = [messages |-> [m EXCEPT ![id] = NoEntry], match |-> filled]
    BY <1>1 DEF GetOrStore
  <2>2. \A k \in Keys : [m EXCEPT ![id] = NoEntry][k] = IF k = id THEN NoEntry ELSE m[k]
    OBVIOUS
  <2> QED
    BY <2>1, <2>2, NothingOwn
<1>2. CASE ~Found(m, id)
  <2>1. GetOrStore(m, id, filled) = [messages |-> [m EXCEPT ![id] = filled], match |-> NoEntry]
    BY <1>2 DEF GetOrStore
  <2>2. \A k \in Keys : [m EXCEPT ![id] = filled][k] = IF k = id THEN filled ELSE m[k]
    OBVIOUS
  <2> QED
    BY <2>1, <2>2, NothingOwn
<1> QED
  BY <1>1, <1>2

\* A callback reads a message of its direction, in the context of a packet of it.
LEMMA ReassembledOwn ==
    ASSUME NEW c, NEW e \in Ends, NEW s \in Streams, OwnStream(c, s),
           NEW batch \in SUBSET Packets, batch # {}, \A p \in batch : SentBy(c, e, p),
           NEW ctx, SentBy(c, e, ctx)
    PROVE  LET r == ReassembledSG(s, e, batch, ctx)
           IN  /\ \A k \in Keys : OwnEntry(c, s.src, k, r.messages[k])
               /\ OwnEntry(c, s.src, RequestId(ctx, e = s.src), r.match)
<1> DEFINE src == s.src
           m == s.messages
           id == RequestId(ctx, e = src)
           msg == First(batch)
           n == Cardinality(batch)
           r == ReassembledSG(s, e, batch, ctx)
<1>1. m \in [Keys -> Entry] /\ \A k \in Keys : OwnEntry(c, src, k, m[k])
  BY DEF Streams, OwnStream
<1>2. id \in Keys
  BY PacketFacts DEF SentBy, RequestId
<1>3. SentBy(c, e, msg)
  BY FirstIn
<1>4. r = IF ~Parses(msg, e = src) THEN [messages |-> m, match |-> NoEntry]
          ELSE IF e = src THEN GetOrStoreRequest(m, id, ctx, msg, n)
               ELSE GetOrStoreResponse(m, id, ctx, msg, n)
  BY DEF ReassembledSG
<1>5. CASE ~Parses(msg, e = src)
  <2>1. r = [messages |-> m, match |-> NoEntry]
    BY <1>4, <1>5
  <2> HIDE DEF r, m
  <2>2. r.messages = m /\ r.match = NoEntry
    BY <2>1
  <2> QED
    BY <1>1, <2>2, NothingOwn DEF r
<1>6. CASE Parses(msg, e = src) /\ e = src
  <2> DEFINE x == WithRequest(m[id], ctx, msg, n)
  <2>1. r = GetOrStore(m, id, x)
    BY <1>4, <1>6 DEF GetOrStoreRequest
  <2>2. Traffic[msg].kind = "request" /\ Traffic[ctx].ack = id
    BY <1>6 DEF Parses, RequestId
  <2>3. /\ x.request = msg /\ x.requestTimestamp = ctx
        /\ x.response = m[id].response /\ x.responseTimestamp = m[id].responseTimestamp
    BY DEF WithRequest
  <2>4. OwnEntry(c, src, id, m[id])
    BY <1>1, <1>2
  <2> HIDE DEF x, m, id, msg, src, r
  <2>5. OwnEntry(c, src, id, x)
    BY <1>3, <1>6, <2>2, <2>3, <2>4 DEF OwnEntry
  <2>6. /\ \A k \in Keys : OwnEntry(c, src, k, GetOrStore(m, id, x).messages[k])
        /\ OwnEntry(c, src, id, GetOrStore(m, id, x).match)
    BY <1>1, <1>2, <2>5, StoredOwn
  <2> QED
    BY <2>1, <2>6 DEF r, id, src
<1>7. CASE Parses(msg, e = src) /\ e # src
  <2> DEFINE x == WithResponse(m[id], ctx, msg, n)
  <2>1. r = GetOrStore(m, id, x)
    BY <1>4, <1>7 DEF GetOrStoreResponse
  <2>2. Traffic[msg].kind = "response" /\ Traffic[ctx].seq = id
    BY <1>7 DEF Parses, RequestId
  <2>3. /\ x.response = msg /\ x.responseTimestamp = ctx
        /\ x.request = m[id].request /\ x.requestTimestamp = m[id].requestTimestamp
    BY DEF WithResponse
  <2>4. OwnEntry(c, src, id, m[id])
    BY <1>1, <1>2
  <2> HIDE DEF x, m, id, msg, src, r
  <2>5. OwnEntry(c, src, id, x)
    BY <1>3, <1>7, <2>2, <2>3, <2>4 DEF OwnEntry
  <2>6. /\ \A k \in Keys : OwnEntry(c, src, k, GetOrStore(m, id, x).messages[k])
        /\ OwnEntry(c, src, id, GetOrStore(m, id, x).match)
    BY <1>1, <1>2, <2>5, StoredOwn
  <2> QED
    BY <2>1, <2>6 DEF r, id, src
<1> QED
  BY <1>5, <1>6, <1>7

LEMMA NewOwn ==
    ASSUME NEW c, NEW n, NEW e PROVE OwnStream(c, NewStream(n, e))
BY NothingOwn DEF OwnStream, NewStream, NewMatcher

LEMMA SameOwn ==
    ASSUME NEW c, NEW s, NEW t, t.src = s.src, t.messages = s.messages, OwnStream(c, s)
    PROVE  OwnStream(c, t)
BY DEF OwnStream

LEMMA KeepOwn ==
    ASSUME IInv, OwnInv, NEW c \in Conns, NEW s, NEW k, OwnStream(c, s), Keep(c, s, k)
    PROVE  \A d \in Conns : OwnStream(d, pool'[d])
<1>1. pool \in [Conns -> Streams] /\ \A d \in Conns : OwnStream(d, pool[d])
  BY DEF IInv, TypeOK, OwnInv
<1>2. pool' = [pool EXCEPT ![c] = IF Complete(s) THEN NoStream ELSE s]
  BY DEF Keep
<1>3. \A d \in Conns : pool'[d] = IF d # c THEN pool[d] ELSE IF Complete(s) THEN NoStream ELSE s
  BY <1>1, <1>2
<1>4. OwnStream(c, NoStream)
  BY NewOwn DEF NoStream
<1> QED
  BY <1>1, <1>3, <1>4

LEMMA QuietOwn ==
    ASSUME IInv, OwnInv, NEW c \in Conns, NEW s, NEW k, OwnStream(c, s), Keep(c, s, k), events' = events
    PROVE  OwnInv'
<1>1. \A d \in Conns : OwnStream(d, pool'[d])
  BY KeepOwn
<1> QED
  BY <1>1 DEF OwnInv, OwnMessages, OwnStream

LEMMA DeliverOwn ==
    ASSUME IInv, OwnInv, NEW c \in Conns, NEW e \in Ends, NEW s \in Streams, OwnStream(c, s),
           NEW batch \in SUBSET Packets, batch # {}, \A p \in batch : SentBy(c, e, p),
           NEW ctx, SentBy(c, e, ctx), NEW k, Deliver(c, s, e, batch, ctx, k)
    PROVE  OwnInv'
<1> DEFINE r == ReassembledSG(s, e, batch, ctx)
           t == [s EXCEPT !.messages = r.messages, !.half[e] = After(@, batch)]
           id == RequestId(ctx, e = s.src)
           ev == [stream |-> s.id, conn |-> c, src |-> s.src, requestId |-> id, entry |-> r.match]
<1>1. Keep(c, t, k) /\ (events' = events \/ events' = events \cup {ev})
  BY DEF Deliver
<1>2. t.src = s.src /\ t.messages = r.messages
  BY DEF Streams
<1>3. ev.conn = c /\ ev.src = s.src /\ ev.requestId = id /\ ev.entry = r.match
  OBVIOUS
<1>4. /\ \A x \in Keys : OwnEntry(c, s.src, x, r.messages[x])
      /\ OwnEntry(c, s.src, id, r.match)
  BY ReassembledOwn
<1> HIDE DEF r, t, id, ev
<1>5. OwnStream(c, t)
  BY <1>2, <1>4 DEF OwnStream
<1>6. \A d \in Conns : OwnStream(d, pool'[d])
  BY <1>1, <1>5, KeepOwn
<1>7. OwnEntry(ev.conn, ev.src, ev.requestId, ev.entry)
  BY <1>3, <1>4
<1>8. \A x \in events' : OwnEntry(x.conn, x.src, x.requestId, x.entry)
  BY <1>1, <1>7 DEF OwnInv, OwnMessages
<1> QED
  BY <1>6, <1>8 DEF OwnInv, OwnMessages, OwnStream

LEMMA ArrivedSent ==
    ASSUME IInv, NEW c, NEW e, NEW p, Arrived(c, e, p) PROVE SentBy(c, e, p)
BY DEF IInv, TypeOK, Arrived, SentBy

LEMMA ForwardOwn ==
    ASSUME IInv, OwnInv, NEW item, NEW a, item.pkt \in passed,
           KeepPre(Traffic[item.pkt].conn, a.stream, a.counters),
           OwnStream(Traffic[item.pkt].conn, a.stream), Forward(item, a)
    PROVE  OwnInv'
<1> DEFINE p == item.pkt
           c == Traffic[p].conn
           e == Traffic[p].from
           s == a.stream
           half == s.half[e]
           batch == {p} \cup Run(Buffered(half), EndSeq(p))
<1>1. p \in Packets /\ c \in Conns /\ e \in Ends
  BY PacketFacts DEF IInv, TypeOK
<1>2. Deliver(c, s, e, batch, p, a.counters)
  BY DEF Forward
<1>3. KeepPre(c, s, a.counters) /\ OwnStream(c, s) /\ SentBy(c, e, p)
  BY <1>1 DEF SentBy
<1> HIDE DEF c, e, s, p
<1>4. s \in Streams /\ \A q \in Buffered(half) : SentBy(c, e, q)
  BY <1>1, <1>3, HalfMet, ArrivedSent
<1>5. batch \in SUBSET Packets /\ batch # {} /\ \A q \in batch : SentBy(c, e, q)
  BY <1>3, <1>4, RunIn DEF SentBy
<1> HIDE DEF batch
<1> QED
  BY <1>1, <1>2, <1>3, <1>4, <1>5, DeliverOwn

LEMMA QueueOwn ==
    ASSUME IInv, OwnInv, NEW item \in [pkt: Packets, age: 0 .. MaxAge], NEW accept, item.pkt \in passed,
           KeepPre(Traffic[item.pkt].conn, accept.stream, accept.counters),
           OwnStream(Traffic[item.pkt].conn, accept.stream), Queue(item, accept)
    PROVE  OwnInv'
<1> DEFINE p == item.pkt
           c == Traffic[p].conn
           e == Traffic[p].from
           s == accept.stream
           k == accept.counters
           half == s.half[e]
           fresh == \A q \in Buffered(half) : Traffic[q].seq # Traffic[p].seq
           queued == [s EXCEPT !.half[e].buffered = IF fresh THEN @ \cup {item} ELSE @]
           pages == Buffered(queued.half[e])
           batch == Run(pages, Traffic[First(pages)].seq)
<1>1. p \in Packets /\ c \in Conns /\ e \in Ends
  BY PacketFacts DEF IInv, TypeOK
<1>2. IF OverLimit(pages) THEN Deliver(c, queued, e, batch, p, k)
      ELSE Keep(c, queued, k) /\ UNCHANGED <<events, swallowed>>
  BY Zenon DEF Queue
<1>3. KeepPre(c, s, k) /\ OwnStream(c, s) /\ SentBy(c, e, p)
  BY <1>1 DEF SentBy
<1> HIDE DEF c, e, s, k
<1>4. s \in Streams /\ half \in Halves /\ \A q \in Buffered(half) : SentBy(c, e, q)
  BY <1>1, <1>3, HalfMet, ArrivedSent
<1> DEFINE more == IF fresh THEN half.buffered \cup {item} ELSE half.buffered
           g == [half EXCEPT !.buffered = more]
<1>5. g \in Halves /\ g.buffered = more
  BY <1>4 DEF Halves
<1>6. queued = [s EXCEPT !.half = [s.half EXCEPT ![e] = g]]
  BY <1>1, <1>4 DEF Streams
<1> HIDE DEF g, queued
<1>7. queued \in Streams /\ queued.src = s.src /\ queued.messages = s.messages /\ queued.half[e] = g
  BY <1>1, <1>4, <1>5, <1>6 DEF Streams
<1>8. OwnStream(c, queued)
  BY <1>3, <1>7, SameOwn
<1>9. \A q \in pages : SentBy(c, e, q)
  BY <1>3, <1>4, <1>5, <1>7 DEF Buffered
<1> HIDE DEF pages
<1>10. CASE OverLimit(pages)
  <2>1. pages # {} /\ pages \in SUBSET Packets
    <3>1. pages # {}
      BY <1>10, FS_EmptySet, TimeFacts DEF OverLimit
    <3>2. pages \in SUBSET Packets
      BY <1>9 DEF SentBy
    <3> QED
      BY <3>1, <3>2
  <2>2. batch \in SUBSET Packets /\ batch # {} /\ \A q \in batch : SentBy(c, e, q)
    BY <1>9, <2>1, FirstRun, RunIn
  <2> HIDE DEF batch
  <2> QED
    BY <1>1, <1>2, <1>3, <1>7, <1>8, <1>10, <2>2, DeliverOwn
<1>11. CASE ~OverLimit(pages)
  BY <1>1, <1>2, <1>8, <1>11, QuietOwn
<1> QED
  BY <1>10, <1>11

LEMMA PacketOwn == ASSUME IInv, OwnInv, Packet PROVE OwnInv'
<1> DEFINE item == Head(source)
           p == item.pkt
           c == Traffic[p].conn
<1>1. PICK v \in Verdicts : \/ Drop(item, Accepted(item, v)) \/ Forward(item, Accepted(item, v))
                            \/ Queue(item, Accepted(item, v))
  BY DEF Packet
<1>2. source # << >>
  BY DEF Packet
<1>3. item \in [pkt: Packets, age: 0 .. MaxAge] /\ p \in passed
  BY <1>2, TakenFacts
<1>4. c \in Conns
  BY <1>3, PacketFacts
<1> DEFINE a == Accepted(item, v)
<1>5. KeepPre(c, a.stream, a.counters) /\ SameButMarks(Stream(p), a.stream)
  BY <1>2, AcceptPre
<1>6. OwnStream(c, Stream(p))
  BY <1>4, NewOwn DEF Stream, OwnInv
<1>7. OwnStream(c, a.stream)
  BY <1>5, <1>6, SameOwn DEF SameButMarks
<1>8. Drop(item, a) \/ Forward(item, a) \/ Queue(item, a)
  BY <1>1
<1> HIDE DEF a, item
<1>9. CASE Drop(item, a)
  <2>1. Keep(c, a.stream, a.counters) /\ events' = events
    BY <1>9 DEF Drop
  <2> QED
    BY <1>4, <1>7, <2>1, QuietOwn
<1>10. CASE Forward(item, a)
  BY <1>3, <1>5, <1>7, <1>10, ForwardOwn
<1>11. CASE Queue(item, a)
  BY <1>3, <1>5, <1>7, <1>11, QueueOwn
<1> QED
  BY <1>8, <1>9, <1>10, <1>11

LEMMA FlushRunOwn ==
    ASSUME IInv, OwnInv, NEW c \in Conns, NEW e \in Ends, FlushRun(c, e) PROVE OwnInv'
<1> DEFINE s == pool[c]
           half == s.half[e]
           first == First(Buffered(half))
           batch == Run(Buffered(half), Traffic[first].seq)
<1>1. Live(c) /\ half.buffered # {} /\ Deliver(c, s, e, batch, first, stats)
  BY DEF FlushRun, DueForFlush
<1>2. KeepPre(c, s, stats) /\ OwnStream(c, s)
  BY <1>1, OldStream DEF OwnInv
<1> HIDE DEF s
<1>3. s \in Streams /\ Buffered(half) \subseteq Packets /\ \A q \in Buffered(half) : SentBy(c, e, q)
  BY <1>2, HalfMet, ArrivedSent
<1>4. Buffered(half) # {}
  BY <1>1 DEF Buffered
<1>5. first \in batch /\ SentBy(c, e, first)
  BY <1>3, <1>4, FirstRun, FirstIn
<1>6. batch \in SUBSET Packets /\ batch # {} /\ \A q \in batch : SentBy(c, e, q)
  BY <1>3, <1>5, RunIn
<1> HIDE DEF batch, first
<1> QED
  BY <1>1, <1>2, <1>3, <1>5, <1>6, DeliverOwn

LEMMA CloseHalfOwn ==
    ASSUME IInv, OwnInv, NEW c \in Conns, NEW e \in Ends, CloseHalf(c, e) PROVE OwnInv'
<1> DEFINE t == [pool[c] EXCEPT !.half[e] = Closed(@)]
<1>1. Keep(c, t, stats) /\ events' = events
  BY DEF CloseHalf
<1>2. pool[c] \in Streams /\ OwnStream(c, pool[c])
  BY DEF IInv, TypeOK, OwnInv
<1>3. t.src = pool[c].src /\ t.messages = pool[c].messages
  BY <1>2 DEF Streams
<1> HIDE DEF t
<1> QED
  BY <1>1, <1>2, <1>3, SameOwn, QuietOwn

LEMMA TickOwn == ASSUME IInv, OwnInv, Tick PROVE OwnInv'
<1>1. events' = events /\ pool \in [Conns -> Streams]
  BY DEF Tick, IInv, TypeOK
<1>2. ASSUME NEW c \in Conns PROVE OwnStream(c, pool'[c])
  <2>1. CASE Live(c)
    <3> DEFINE t == [pool[c] EXCEPT !.half = [e \in Ends |-> OlderHalf(@[e])]]
    <3>1. pool'[c] = t
      BY <2>1 DEF Tick
    <3>2. t.src = pool[c].src /\ t.messages = pool[c].messages
      BY <1>1 DEF Streams
    <3> HIDE DEF t
    <3> QED
      BY <3>1, <3>2, SameOwn DEF OwnInv
  <2>2. CASE ~Live(c)
    <3>1. pool'[c] = NoStream
      BY <2>2 DEF Tick
    <3> QED
      BY <3>1, NewOwn DEF NoStream
  <2> QED
    BY <2>1, <2>2
<1> QED
  BY <1>1, <1>2 DEF OwnInv, OwnMessages, OwnStream

LEMMA NextOwn == IInv /\ OwnInv /\ [Next]_vars => OwnInv'
<1> SUFFICES ASSUME IInv, OwnInv, [Next]_vars PROVE OwnInv'
  OBVIOUS
<1>1. ASSUME UNCHANGED <<pool, events>> PROVE OwnInv'
  BY <1>1 DEF OwnInv, OwnMessages, OwnStream
<1>2. CASE \E p \in Packets : Capture(p) \/ Lose(p)
  BY <1>1, <1>2 DEF Capture, Lose
<1>3. CASE Tick
  BY <1>3, TickOwn
<1>4. CASE Packet
  BY <1>4, PacketOwn
<1>5. CASE BeginFlush \/ BeginStop \/ Stopped
  BY <1>1, <1>5 DEF BeginFlush, BeginStop, Stopped
<1>6. CASE FlushStep
  <2>1. PICK c \in Conns, e \in Ends : FlushRun(c, e) \/ CloseHalf(c, e) \/ NextHalf(c, e)
    BY <1>6 DEF FlushStep
  <2>2. CASE NextHalf(c, e)
    BY <1>1, <2>2 DEF NextHalf
  <2> QED
    BY <2>1, <2>2, FlushRunOwn, CloseHalfOwn
<1>7. CASE UNCHANGED vars
  BY <1>1, <1>7 DEF vars
<1> QED
  BY <1>2, <1>3, <1>4, <1>5, <1>6, <1>7 DEF Next

(* Without any condition on the traffic or on the room in the buffers, an  *)
(* event's request comes from the client of its connection and its         *)
(* response from the server, and both have its id through packets of the   *)
(* same ends.                                                              *)
THEOREM EventsKeepApart == Spec => []OwnMessages
<1>1. Init => OwnInv
  <2> SUFFICES ASSUME Init PROVE OwnInv
    OBVIOUS
  <2>1. events = {} /\ \A c \in Conns : pool[c] = NoStream
    BY DEF Init
  <2>2. \A c \in Conns : OwnStream(c, pool[c])
    BY <2>1, NewOwn DEF NoStream
  <2> QED
    BY <2>1, <2>2 DEF OwnInv, OwnMessages
<1>2. OwnInv => OwnMessages
  BY DEF OwnInv
<1> QED
  BY Invariance, NextOwn, <1>1, <1>2, PTL DEF Spec
=============================================================================
