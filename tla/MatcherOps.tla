----------------------------- MODULE MatcherOps -----------------------------
(***************************************************************************)
(* The request/response matcher of one TCP stream                          *)
(* (assemblers/http_matcher.go) as operators on its map of entries, shared *)
(* by HttpMatcher, which studies one matcher on its own, and TcpAssembler, *)
(* in which every stream owns one.                                         *)
(*                                                                         *)
(* A parsed *http.Request or *http.Response is a positive number, its      *)
(* identity; 0 is the nil pointer, the zero time.Time and the zero packet  *)
(* count, the values Go gives to the fields of an entry that nobody sets.  *)
(***************************************************************************)
EXTENDS Naturals

Nil == 0

\* The values of the Go struct `entry`.
Entry == [request: Nat, requestTimestamp: Nat, requestPacketCount: Nat,
          response: Nat, responseTimestamp: Nat, responsePacketCount: Nat]

(* The zero entry.  In the map it stands for a key that is not there: an   *)
(* entry is stored with its request or its response set, so no stored      *)
(* entry is the zero one.                                                  *)
NoEntry == [request |-> Nil, requestTimestamp |-> 0, requestPacketCount |-> 0,
            response |-> Nil, responseTimestamp |-> 0, responsePacketCount |-> 0]

\* newRequestResponseMatcher: an empty map over the given keys.
NewMatcher(keys) == [k \in keys |-> NoEntry]

\* m.messages[key] exists: the test both operations branch on.
Found(messages, key) == messages[key] # NoEntry

\* The three assignments of GetOrStoreRequest, on the entry found or on a new one.
WithRequest(entry, timestamp, request, packetCount) ==
    [request |-> request,
     requestTimestamp |-> timestamp,
     requestPacketCount |-> packetCount,
     response |-> entry.response,
     responseTimestamp |-> entry.responseTimestamp,
     responsePacketCount |-> entry.responsePacketCount]

\* Mutant of WithResponse: a new entry instead of the one found.
ResponseAlone(entry, timestamp, response, packetCount) ==
    [NoEntry EXCEPT !.response = response, !.responseTimestamp = timestamp,
                    !.responsePacketCount = packetCount]

\* The three assignments of GetOrStoreResponse.
WithResponse(entry, timestamp, response, packetCount) ==
    [request |-> entry.request,
     requestTimestamp |-> entry.requestTimestamp,
     requestPacketCount |-> entry.requestPacketCount,
     response |-> response,
     responseTimestamp |-> timestamp,
     responsePacketCount |-> packetCount]

\* Mutant of GetOrStore: the entry that was matched is not deleted.
GetWithoutDelete(messages, key, filled) ==
    [messages |-> [messages EXCEPT ![key] = filled],
     match |-> IF Found(messages, key) THEN filled ELSE NoEntry]

(* What either operation leaves in the map and returns, given the entry it *)
(* has filled in: the found entry is deleted and returned, a new one is    *)
(* stored and nil is returned.  The code's second result, matchFound, is   *)
(* true exactly when the first is not nil.                                 *)
GetOrStore(messages, key, filled) ==
    IF Found(messages, key)
    THEN [messages |-> [messages EXCEPT ![key] = NoEntry], match |-> filled]
    ELSE [messages |-> [messages EXCEPT ![key] = filled], match |-> NoEntry]

GetOrStoreRequest(messages, key, timestamp, request, packetCount) ==
    GetOrStore(messages, key,
               WithRequest(messages[key], timestamp, request, packetCount))

GetOrStoreResponse(messages, key, timestamp, response, packetCount) ==
    GetOrStore(messages, key,
               WithResponse(messages[key], timestamp, response, packetCount))
=============================================================================
