------------------------- MODULE HttpMatcherProofs --------------------------
(***************************************************************************)
(* What the matcher does for every set of keys and any number of messages. *)
(* PairedTwoByTwo alone is not inductive: it speaks of the events, and the *)
(* next event is made from the map.  With WaitingIsTheOddOne, which says   *)
(* what the map holds, it is.                                              *)
(***************************************************************************)
EXTENDS HttpMatcher, SequenceTheorems, TLAPS

IInv == TypeOK /\ WaitingIsTheOddOne /\ PairedTwoByTwo

(* The entries the specification speaks of are entries, and none of them   *)
(* is the zero entry.                                                      *)
LEMMA CarryingEntry ==
    ASSUME NEW q \in Nat, NEW s \in Nat
    PROVE  /\ Carrying(q, s) \in Entry
           /\ (q # Nil \/ s # Nil) => Carrying(q, s) # NoEntry
BY DEF Carrying, Entry, NoEntry, Nil

(* The two branches of GetOrStoreRequest and GetOrStoreResponse.           *)
LEMMA StoreBranch ==
    ASSUME NEW m, NEW k, NEW filled, m[k] = NoEntry
    PROVE  /\ GetOrStore(m, k, filled).match = NoEntry
           /\ GetOrStore(m, k, filled).messages = [m EXCEPT ![k] = filled]
BY DEF GetOrStore, Found

LEMMA MatchBranch ==
    ASSUME NEW m, NEW k, NEW filled, m[k] # NoEntry
    PROVE  /\ GetOrStore(m, k, filled).match = filled
           /\ GetOrStore(m, k, filled).messages = [m EXCEPT ![k] = NoEntry]
BY DEF GetOrStore, Found

(* What the assignments make of an empty entry, and of one that carries    *)
(* one message: the other half is kept, the same half is replaced.         *)
LEMMA FillEntry ==
    ASSUME NEW i, NEW n
    PROVE  /\ WithRequest(NoEntry, i, i, i) = Carrying(i, Nil)
           /\ WithResponse(NoEntry, i, i, i) = Carrying(Nil, i)
           /\ WithRequest(Carrying(n, Nil), i, i, i) = Carrying(i, Nil)
           /\ WithRequest(Carrying(Nil, n), i, i, i) = Carrying(i, n)
           /\ WithResponse(Carrying(n, Nil), i, i, i) = Carrying(n, i)
           /\ WithResponse(Carrying(Nil, n), i, i, i) = Carrying(Nil, i)
BY DEF WithRequest, WithResponse, NoEntry, Carrying, Nil

(* Every second number is even.                                            *)
LEMMA Parity ==
    ASSUME NEW n \in Nat
    PROVE  /\ n % 2 = 0 => (n + 1) % 2 = 1
           /\ n % 2 = 1 => (n + 1) % 2 = 0 /\ n # 0 /\ n \in 1 .. n
           /\ n % 2 = 0 \/ n % 2 = 1
           /\ ~(n % 2 = 0 /\ n % 2 = 1)
           /\ n + 1 \in Nat /\ n + 1 # 0 /\ n + 1 - 1 = n
OBVIOUS

LEMMA EvenUpTo ==
    ASSUME NEW n \in Nat
    PROVE  /\ n % 2 = 0 => {j \in 1 .. n + 1 : j % 2 = 0} = {j \in 1 .. n : j % 2 = 0}
           /\ n % 2 = 1 => {j \in 1 .. n + 1 : j % 2 = 0}
                           = {j \in 1 .. n : j % 2 = 0} \cup {n + 1}
<1>1. ASSUME NEW j
      PROVE  j \in 1 .. n + 1 <=> j \in 1 .. n \/ j = n + 1
  OBVIOUS
<1>2. n % 2 = 0 => (n + 1) % 2 # 0
  OBVIOUS
<1>3. n % 2 = 1 => (n + 1) % 2 = 0
  OBVIOUS
<1> QED
  BY <1>1, <1>2, <1>3, Zenon

(* The entry the operation has filled in when the next message of key k,   *)
(* of the given kind, comes.                                               *)
Filled(k, kind) ==
    LET i == Len(arrived[k]) + 1
    IN  IF kind = "request" THEN WithRequest(messages[k], i, i, i)
                            ELSE WithResponse(messages[k], i, i, i)

(* Both actions are one arrival and one use of GetOrStore.                 *)
LEMMA NextIsGetOrStore ==
    ASSUME NEW k \in Keys, ParseRequest(k) \/ ParseResponse(k)
    PROVE  \E kind \in Kinds :
               Arrive(k, kind) /\ Apply(k, GetOrStore(messages, k, Filled(k, kind)))
<1>1. CASE ParseRequest(k)
  BY <1>1 DEF ParseRequest, GetOrStoreRequest, Filled, Kinds
<1>2. CASE ParseResponse(k)
  BY <1>2 DEF ParseResponse, GetOrStoreResponse, Filled, Kinds
<1> QED
  BY <1>1, <1>2

(* What an arrival does to the history of its key and of the others.       *)
LEMMA ArriveHistory ==
    ASSUME NEW k \in Keys, NEW kind \in Kinds, TypeOK, Arrive(k, kind),
           NEW n, n = Len(arrived[k])
    PROVE  /\ n \in Nat
           /\ arrived' \in [Keys -> Seq(Kinds)]
           /\ arrived[k] \in Seq(Kinds)
           /\ Len(arrived'[k]) = n + 1
           /\ arrived'[k][n + 1] = kind
           /\ \A j \in 1 .. n : arrived'[k][j] = arrived[k][j] /\ arrived[k][j] \in Kinds
           /\ \A l \in Keys : l # k => arrived'[l] = arrived[l]
<1>1. arrived \in [Keys -> Seq(Kinds)] /\ arrived[k] \in Seq(Kinds) /\ n \in Nat
  BY DEF TypeOK
<1>2. arrived' = [arrived EXCEPT ![k] = Append(arrived[k], kind)]
  BY DEF Arrive
<1>3. arrived'[k] = Append(arrived[k], kind)
  BY <1>1, <1>2
<1>4. Append(arrived[k], kind) \in Seq(Kinds)
  BY <1>1, AppendProperties
<1>5. arrived' \in [Keys -> Seq(Kinds)]
  BY <1>1, <1>2, <1>4
<1>6. \A l \in Keys : l # k => arrived'[l] = arrived[l]
  BY <1>1, <1>2
<1>7. Len(arrived'[k]) = n + 1 /\ arrived'[k][n + 1] = kind
  BY <1>1, <1>3, AppendProperties
<1>8. \A j \in 1 .. n : arrived'[k][j] = arrived[k][j] /\ arrived[k][j] \in Kinds
  BY <1>1, <1>3, AppendProperties
<1> QED
  BY <1>1, <1>5, <1>6, <1>7, <1>8

(* The events of one key, as PairedTwoByTwo lists them.                    *)
EventsOf(k) == {[key |-> k, entry |-> Paired(k, i)] : i \in MatchedAt(k)}

LEMMA EventsByKey == PairedTwoByTwo <=> events = UNION {EventsOf(k) : k \in Keys}
BY DEF PairedTwoByTwo, EventsOf

(* An arrival on k leaves the events of the other keys as they were, and   *)
(* adds to those of k the pair it completes, if it completes one.          *)
LEMMA ArriveEvents ==
    ASSUME NEW k \in Keys, NEW kind \in Kinds, TypeOK, Arrive(k, kind),
           NEW n, n = Len(arrived[k])
    PROVE  /\ \A l \in Keys : l # k => EventsOf(l)' = EventsOf(l)
           /\ n % 2 = 0 => EventsOf(k)' = EventsOf(k)
           /\ n % 2 = 1 => EventsOf(k)' = EventsOf(k) \cup {[key |-> k, entry |-> Paired(k, n + 1)']}
<1>1. /\ n \in Nat
      /\ Len(arrived'[k]) = n + 1
      /\ \A j \in 1 .. n : arrived'[k][j] = arrived[k][j]
      /\ \A l \in Keys : l # k => arrived'[l] = arrived[l]
  BY ArriveHistory
<1>2. ASSUME NEW l \in Keys, l # k
      PROVE  EventsOf(l)' = EventsOf(l)
  <2>1. arrived'[l] = arrived[l]
    BY <1>1, <1>2
  <2>2. MatchedAt(l)' = MatchedAt(l)
    BY <2>1 DEF MatchedAt
  <2>3. ASSUME NEW i \in MatchedAt(l)
        PROVE  Paired(l, i)' = Paired(l, i)
    BY <2>1 DEF Paired, Alone
  <2> QED
    BY <2>2, <2>3 DEF EventsOf
<1>3. MatchedAt(k) = {j \in 1 .. n : j % 2 = 0} /\ MatchedAt(k)' = {j \in 1 .. n + 1 : j % 2 = 0}
  BY <1>1 DEF MatchedAt
<1>4. ASSUME NEW j \in MatchedAt(k)
      PROVE  Paired(k, j)' = Paired(k, j)
  <2>1. j \in 1 .. n /\ j - 1 \in 1 .. n
    BY <1>1, <1>3, <1>4
  <2> QED
    BY <1>1, <2>1 DEF Paired, Alone, Carrying
<1>5. ASSUME n % 2 = 0
      PROVE  EventsOf(k)' = EventsOf(k)
  <2>1. MatchedAt(k)' = MatchedAt(k)
    BY <1>1, <1>3, <1>5, EvenUpTo, Zenon
  <2> QED
    BY <1>4, <2>1 DEF EventsOf
<1>6. ASSUME n % 2 = 1
      PROVE  EventsOf(k)' = EventsOf(k) \cup {[key |-> k, entry |-> Paired(k, n + 1)']}
  <2>1. MatchedAt(k)' = MatchedAt(k) \cup {n + 1}
    BY <1>1, <1>3, <1>6, EvenUpTo, Zenon
  <2> QED
    BY <1>4, <2>1 DEF EventsOf
<1> QED
  BY <1>2, <1>5, <1>6

(* One arrival preserves the invariant: the entry that is waiting under    *)
(* the key, if any, is the one the pairing expects.                        *)
LEMMA ArrivalStep ==
    ASSUME IInv, NEW k \in Keys, NEW kind \in Kinds, Arrive(k, kind),
           Apply(k, GetOrStore(messages, k, Filled(k, kind)))
    PROVE  IInv'
<1> PICK n : n = Len(arrived[k])
  OBVIOUS
<1>1. TypeOK /\ messages \in [Keys -> Entry]
  BY DEF IInv, TypeOK
<1>2. /\ n \in Nat
      /\ arrived' \in [Keys -> Seq(Kinds)]
      /\ Len(arrived'[k]) = n + 1
      /\ arrived'[k][n + 1] = kind
      /\ \A j \in 1 .. n : arrived'[k][j] = arrived[k][j] /\ arrived[k][j] \in Kinds
      /\ \A l \in Keys : l # k => arrived'[l] = arrived[l]
  BY <1>1, ArriveHistory
<1>3. \A l \in Keys : l # k =>
          messages[l] = IF Len(arrived[l]) % 2 = 1
                        THEN Alone(l, Len(arrived[l])) ELSE NoEntry
  BY DEF IInv, WaitingIsTheOddOne
<1>4. messages[k] = IF n % 2 = 1 THEN Alone(k, n) ELSE NoEntry
  BY DEF IInv, WaitingIsTheOddOne
<1>5. events = UNION {EventsOf(l) : l \in Keys} /\ events \subseteq [key: Keys, entry: Entry]
  BY EventsByKey DEF IInv, TypeOK
<1>6. Alone(k, n + 1)' = IF kind = "request" THEN Carrying(n + 1, Nil) ELSE Carrying(Nil, n + 1)
  BY <1>2 DEF Alone, Carrying
<1>7. Filled(k, kind) = IF kind = "request" THEN WithRequest(messages[k], n + 1, n + 1, n + 1)
                                            ELSE WithResponse(messages[k], n + 1, n + 1, n + 1)
  BY DEF Filled
<1>8. \A l \in Keys : l # k =>
          messages[l] = IF Len(arrived'[l]) % 2 = 1
                        THEN Alone(l, Len(arrived[l]))' ELSE NoEntry
  BY <1>2, <1>3 DEF Alone, Carrying
<1>9. CASE n % 2 = 0
  <2>1. messages[k] = NoEntry
    BY <1>2, <1>4, <1>9, Parity, Zenon
  <2>2. Filled(k, kind) = Alone(k, n + 1)'
    BY <1>6, <1>7, <2>1, FillEntry, Zenon
  <2>3. Alone(k, n + 1)' \in Entry
    BY <1>2, <1>6, CarryingEntry DEF Nil
  <2>4. messages' = [messages EXCEPT ![k] = Alone(k, n + 1)'] /\ events' = events
    <3> DEFINE result == GetOrStore(messages, k, Filled(k, kind))
    <3>1. result.match = NoEntry /\ result.messages = [messages EXCEPT ![k] = Filled(k, kind)]
      BY <2>1, StoreBranch
    <3>2. messages' = result.messages /\ events' = IF result.match = NoEntry THEN events
                                          ELSE events \cup {[key |-> k, entry |-> result.match]}
      BY Zenon DEF Apply
    <3> HIDE DEF result
    <3> QED
      BY <2>2, <3>1, <3>2
  <2>5. TypeOK'
    BY <1>1, <1>2, <1>5, <2>3, <2>4 DEF TypeOK
  <2>6. WaitingIsTheOddOne'
    <3>1. messages'[k] = Alone(k, n + 1)' /\ \A l \in Keys : l # k => messages'[l] = messages[l]
      BY <1>1, <2>4
    <3>2. Len(arrived'[k]) % 2 = 1
      <4>1. n \in Nat /\ Len(arrived'[k]) = n + 1
        BY <1>2
      <4>2. (n + 1) % 2 = 1
        BY <1>9, <4>1, Parity
      <4> QED
        BY <4>1, <4>2, Zenon
    <3> QED
      BY <1>2, <1>8, <3>1, <3>2 DEF WaitingIsTheOddOne, Alone, Carrying
  <2>7. PairedTwoByTwo'
    <3>1. \A l \in Keys : EventsOf(l)' = EventsOf(l)
      BY <1>1, <1>9, ArriveEvents
    <3>2. events' = UNION {EventsOf(l)' : l \in Keys}
      BY <1>5, <2>4, <3>1
    <3> QED
      BY <3>2 DEF PairedTwoByTwo, EventsOf
  <2> QED
    BY <2>5, <2>6, <2>7 DEF IInv
<1>10. CASE n % 2 = 1
  <2>1. messages[k] = Alone(k, n)
    BY <1>4, <1>10
  <2>2. n \in 1 .. n /\ n # 0 /\ arrived[k][n] \in Kinds /\ arrived'[k][n] = arrived[k][n]
    BY <1>2, <1>10, Parity
  <2>3. Alone(k, n) # NoEntry
    BY <1>2, <2>2, CarryingEntry DEF Alone, Nil
  <2>4. Paired(k, n + 1)' = IF kind = arrived[k][n]
                            THEN Alone(k, n + 1)'
                            ELSE IF kind = "request" THEN Carrying(n + 1, n) ELSE Carrying(n, n + 1)
    BY <1>2, <2>2 DEF Paired, Alone, Carrying
  <2>5. Filled(k, kind) = Paired(k, n + 1)'
    BY <1>6, <1>7, <2>1, <2>2, <2>4, FillEntry DEF Alone, Kinds
  <2>6. Paired(k, n + 1)' \in Entry /\ Paired(k, n + 1)' # NoEntry
    BY <1>2, <1>6, <2>4, CarryingEntry DEF Nil
  <2>7. /\ messages' = [messages EXCEPT ![k] = NoEntry]
        /\ events' = events \cup {[key |-> k, entry |-> Paired(k, n + 1)']}
    <3> DEFINE result == GetOrStore(messages, k, Filled(k, kind))
    <3>1. result.match = Filled(k, kind) /\ result.messages = [messages EXCEPT ![k] = NoEntry]
      BY <2>1, <2>3, MatchBranch
    <3>2. messages' = result.messages /\ events' = IF result.match = NoEntry THEN events
                                          ELSE events \cup {[key |-> k, entry |-> result.match]}
      BY Zenon DEF Apply
    <3> HIDE DEF result
    <3> QED
      BY <2>5, <2>6, <3>1, <3>2
  <2>8. TypeOK'
    <3>1. NoEntry \in Entry
      BY DEF Entry, NoEntry, Nil
    <3> QED
      BY <1>1, <1>2, <1>5, <2>6, <2>7, <3>1 DEF TypeOK
  <2>9. WaitingIsTheOddOne'
    <3>1. messages'[k] = NoEntry /\ \A l \in Keys : l # k => messages'[l] = messages[l]
      BY <1>1, <2>7
    <3>2. Len(arrived'[k]) % 2 # 1
      BY <1>2, <1>10, Parity
    <3> QED
      BY <1>2, <1>8, <3>1, <3>2 DEF WaitingIsTheOddOne, Alone, Carrying
  <2>10. PairedTwoByTwo'
    <3>1. \A l \in Keys : l # k => EventsOf(l)' = EventsOf(l)
      BY <1>1, ArriveEvents
    <3>2. EventsOf(k)' = EventsOf(k) \cup {[key |-> k, entry |-> Paired(k, n + 1)']}
      BY <1>1, <1>10, ArriveEvents
    <3>3. events' = UNION {EventsOf(l)' : l \in Keys}
      BY <1>5, <2>7, <3>1, <3>2
    <3> QED
      BY <3>3 DEF PairedTwoByTwo, EventsOf
  <2> QED
    BY <2>8, <2>9, <2>10 DEF IInv
<1> QED
  BY <1>2, <1>9, <1>10, Parity

LEMMA InitIInv == Init => IInv
<1> SUFFICES ASSUME Init PROVE IInv
  OBVIOUS
<1>1. messages = [k \in Keys |-> NoEntry] /\ arrived = [k \in Keys |-> << >>] /\ events = {}
  BY DEF Init, NewMatcher
<1>2. NoEntry \in Entry
  BY DEF Entry, NoEntry, Nil
<1>3. \A k \in Keys : Len(arrived[k]) = 0 /\ Len(arrived[k]) % 2 # 1
  BY <1>1
<1>4. TypeOK
  BY <1>1, <1>2 DEF TypeOK
<1>5. WaitingIsTheOddOne
  BY <1>1, <1>3 DEF WaitingIsTheOddOne
<1>6. \A k \in Keys : MatchedAt(k) = {}
  <2>1. 1 .. 0 = {}
    OBVIOUS
  <2> QED
    BY <1>3, <2>1, Zenon DEF MatchedAt
<1>7. \A k \in Keys : EventsOf(k) = {}
  BY <1>6 DEF EventsOf
<1>8. PairedTwoByTwo
  BY <1>1, <1>7, EventsByKey
<1> QED
  BY <1>4, <1>5, <1>8 DEF IInv

LEMMA NextIInv == IInv /\ [Next]_vars => IInv'
<1> SUFFICES ASSUME IInv, [Next]_vars PROVE IInv'
  OBVIOUS
<1>1. CASE Next
  <2>1. PICK k \in Keys : ParseRequest(k) \/ ParseResponse(k)
    BY <1>1 DEF Next
  <2>2. PICK kind \in Kinds :
            Arrive(k, kind) /\ Apply(k, GetOrStore(messages, k, Filled(k, kind)))
    BY <2>1, NextIsGetOrStore
  <2> QED
    BY <2>2, ArrivalStep
<1>2. CASE UNCHANGED vars
  BY <1>2 DEF vars, IInv, TypeOK, WaitingIsTheOddOne, PairedTwoByTwo,
              Alone, Paired, MatchedAt, Carrying
<1> QED
  BY <1>1, <1>2

(* The matcher's map and the events it makes are, after any sequence of    *)
(* arrivals, exactly what the two-by-two pairing of each key's messages    *)
(* says.                                                                   *)
THEOREM Invariance == Spec => []IInv
BY InitIInv, NextIInv, PTL DEF Spec

(* The variables keep their Go types, for any keys and any traffic         *)
(* (http_matcher.go, parse).                                               *)
THEOREM TypeCorrect == Spec => []TypeOK
<1>1. IInv => TypeOK
  BY DEF IInv
<1> QED
  BY Invariance, <1>1, PTL

(* Every message is reported in one event at most, with the message that   *)
(* came next to it on its key and with its own timestamps and packet       *)
(* counts (GetOrStoreRequest, GetOrStoreResponse, parse).                  *)
THEOREM Pairing == Spec => []PairedTwoByTwo
<1>1. IInv => PairedTwoByTwo
  BY DEF IInv
<1> QED
  BY Invariance, <1>1, PTL

(* The map holds one entry for each key with an odd number of messages     *)
(* and nothing else, so what a stream retains is bounded by its keys.      *)
THEOREM Retention == Spec => []WaitingIsTheOddOne
<1>1. IInv => WaitingIsTheOddOne
  BY DEF IInv
<1> QED
  BY Invariance, <1>1, PTL

(* On a key that carries one request for every response, each event has    *)
(* both (the comments on GetOrStoreRequest and GetOrStoreResponse).        *)
THEOREM Complete == Spec => []CompleteWhenAlternating
<1>1. IInv => CompleteWhenAlternating
  <2> SUFFICES ASSUME IInv, NEW e \in events, Alternating(e.key)
               PROVE  e.entry.request # Nil /\ e.entry.response # Nil
    BY DEF CompleteWhenAlternating
  <2>1. events = UNION {EventsOf(k) : k \in Keys}
    BY EventsByKey DEF IInv
  <2>2. PICK k \in Keys : e \in EventsOf(k)
    BY <2>1
  <2>3. PICK i \in MatchedAt(k) : e = [key |-> k, entry |-> Paired(k, i)]
    BY <2>2 DEF EventsOf
  <2>4. i \in Nat /\ i # 0 /\ i - 1 # 0
    <3>1. Len(arrived[k]) \in Nat
      BY DEF IInv, TypeOK
    <3> QED
      BY <2>3, <3>1 DEF MatchedAt
  <2>5. arrived[k][i] # arrived[k][i - 1]
    BY <2>3 DEF Alternating
  <2>6. e.entry = Carrying(i, i - 1) \/ e.entry = Carrying(i - 1, i)
    BY <2>3, <2>5 DEF Paired
  <2> QED
    BY <2>4, <2>6 DEF Carrying, Nil
<1> QED
  BY Invariance, <1>1, PTL
=============================================================================
