---------------------------- MODULE HttpMatcher -----------------------------
(***************************************************************************)
(* One httpMatcher and the parser that feeds it (assemblers/http_parser.go,*)
(* http_matcher.go): every message the parser reads off the stream is      *)
(* handed to the matcher under its key, and every match the matcher        *)
(* returns becomes an HttpEvent.                                           *)
(*                                                                         *)
(* Keys are TCP acknowledgement and sequence numbers.  Nothing in the code *)
(* keeps two requests, or two responses, from carrying the same one (two   *)
(* pipelined requests acknowledge the same byte), so messages of both      *)
(* kinds arrive in any order and any number, up to MaxPerKey on a key.     *)
(* The i-th message to arrive on a key is identified by i; its capture     *)
(* timestamp and packet count are abstracted to the same i, which is all   *)
(* that is needed to see whether the fields of an entry belong together.   *)
(***************************************************************************)
EXTENDS MatcherOps, Sequences

CONSTANTS
    Keys,      \* the request ids (TCP numbers) seen on the stream
    MaxPerKey  \* bound on the messages that arrive on one key

ASSUME MatcherConstants == MaxPerKey \in Nat

VARIABLES
    messages,  \* httpMatcher.messages; NoEntry where the key is absent
    arrived,   \* history: the kinds of the messages that came on each key
    events     \* history: [key, entry] of every event sent

vars == <<messages, arrived, events>>

Kinds == {"request", "response"}

Init ==
    /\ messages = NewMatcher(Keys)
    /\ arrived = [k \in Keys |-> << >>]
    /\ events = {}

Arrive(k, kind) ==
    /\ Len(arrived[k]) < MaxPerKey
    /\ arrived' = [arrived EXCEPT ![k] = Append(@, kind)]

\* Mutant of Apply: the event is given a message's number for its key.
ApplyWrongId(k, result) ==
    /\ messages' = result.messages
    /\ events' = IF result.match = NoEntry
                 THEN events
                 ELSE events \cup {[key |-> result.match.requestTimestamp,
                                    entry |-> result.match]}

\* parse: apply what the matcher returned, and send an event for a match.
Apply(k, result) ==
    /\ messages' = result.messages
    /\ events' = IF result.match = NoEntry
                 THEN events
                 ELSE events \cup {[key |-> k, entry |-> result.match]}

ParseRequest(k) ==
    /\ Arrive(k, "request")
    /\ LET i == Len(arrived[k]) + 1
       IN  Apply(k, GetOrStoreRequest(messages, k, i, i, i))

ParseResponse(k) ==
    /\ Arrive(k, "response")
    /\ LET i == Len(arrived[k]) + 1
       IN  Apply(k, GetOrStoreResponse(messages, k, i, i, i))

Next == \E k \in Keys : ParseRequest(k) \/ ParseResponse(k)

Spec == Init /\ [][Next]_vars

-----------------------------------------------------------------------------
\* The variables hold values of their Go types.
TypeOK ==
    /\ messages \in [Keys -> Entry]
    /\ arrived \in [Keys -> Seq(Kinds)]
    /\ events \subseteq [key: Keys, entry: Entry]

\* The entry that carries request q and response s, either of which may be Nil.
Carrying(q, s) ==
    [request |-> q, requestTimestamp |-> q, requestPacketCount |-> q,
     response |-> s, responseTimestamp |-> s, responsePacketCount |-> s]

\* The entry that carries message i of key k and no other.
Alone(k, i) ==
    IF arrived[k][i] = "request" THEN Carrying(i, Nil) ELSE Carrying(Nil, i)

\* The entry made of messages i - 1 and i of key k; of two of one kind the later.
Paired(k, i) ==
    IF arrived[k][i] = arrived[k][i - 1]
    THEN Alone(k, i)
    ELSE IF arrived[k][i] = "request" THEN Carrying(i, i - 1)
                                      ELSE Carrying(i - 1, i)

\* The positions on key k at which a match is found: every second message.
MatchedAt(k) == {i \in 1 .. Len(arrived[k]) : i % 2 = 0}

(* The events sent are exactly these: on every key the messages are taken  *)
(* two by two in order of arrival, whatever their kinds, and each two make *)
(* one event.  So no message is reported twice, none is combined with a    *)
(* message of another key or with a stale half of an earlier pair, every   *)
(* field of an event describes the message the event carries, and two      *)
(* messages of the same kind make an event in which the second has         *)
(* replaced the first and the other half is missing                        *)
(* (GetOrStoreRequest, GetOrStoreResponse, parse).                         *)
PairedTwoByTwo ==
    events = UNION {{[key |-> k, entry |-> Paired(k, i)] : i \in MatchedAt(k)}
                    : k \in Keys}

(* What the map keeps: an entry waits under a key exactly when an odd      *)
(* number of messages has come on it, and it is the last of them, alone.   *)
(* The stream never holds more than one message per key, and a key whose   *)
(* messages are even in number holds nothing back.                         *)
WaitingIsTheOddOne ==
    \A k \in Keys :
        messages[k] = IF Len(arrived[k]) % 2 = 1
                      THEN Alone(k, Len(arrived[k])) ELSE NoEntry

\* Every two messages of key k are a request and its response, in either order.
Alternating(k) ==
    \A i \in MatchedAt(k) : arrived[k][i] # arrived[k][i - 1]

(* The promise of the comments on the two operations, on the traffic for   *)
(* which it holds: on a key that carries one request for every response,   *)
(* each event has both, though the response may well have come first.      *)
CompleteWhenAlternating ==
    \A e \in events :
        Alternating(e.key) =>
            e.entry.request # Nil /\ e.entry.response # Nil

(* The same promise with no condition on the traffic, as http_matcher.go   *)
(* states it: "returns a match entry containing both Request and Response  *)
(* and matchFound will be true".                                           *)
MatchContainsBoth ==
    \A e \in events : e.entry.request # Nil /\ e.entry.response # Nil
=============================================================================
