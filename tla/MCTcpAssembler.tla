--------------------------- MODULE MCTcpAssembler ---------------------------
(***************************************************************************)
(* Traffic for TcpAssembler.  Only packets that begin a message pass the   *)
(* capture filter; where a message goes on in further packets, the next    *)
(* one of its direction starts behind a hole.                              *)
(***************************************************************************)
EXTENDS TcpAssembler

Message(conn, from, kind, seq, ack, len, fin, cycle) ==
    [conn |-> conn, from |-> from, kind |-> kind, seq |-> seq, ack |-> ack,
     len |-> len, fin |-> fin, cycle |-> cycle]
Request(conn, seq, ack, cycle) ==
    Message(conn, "client", "request", seq, ack, 2, FALSE, cycle)
Response(conn, seq, ack, cycle) ==
    Message(conn, "server", "response", seq, ack, 2, FALSE, cycle)

(* One connection kept alive for three cycles.  The first response goes on *)
(* behind its first packet, the second fits into one.                      *)
KeepAlive ==
    << Request("a", 1, 21, 1), Response("a", 21, 3, 1),
       Request("a", 3, 24, 2), Response("a", 24, 5, 2),
       Request("a", 5, 26, 3), Response("a", 26, 7, 3) >>

\* Its first two cycles.
Twice == SubSeq(KeepAlive, 1, 4)

(* Two connections, one with a retransmitted request and a retransmitted   *)
(* response, the other closed by FINs on its last two messages, of which   *)
(* the request is torn: its headers go on in a packet the filter drops, so *)
(* it cannot be parsed.                                                    *)
Mixed ==
    << Request("a", 1, 21, 1), Request("b", 1, 21, 1), Request("a", 1, 21, 1),
       Response("a", 21, 3, 1),
       Message("b", "server", "response", 21, 3, 2, TRUE, 1),
       Response("a", 21, 3, 1),
       Message("b", "client", "torn", 3, 23, 2, TRUE, 2) >>

ASSUME TrafficIsHttp == HttpOverTcp

Passed == [fsm |-> TRUE, opt |-> TRUE, sum |-> TRUE]
AllPass == {Passed}
AnyVerdict == [fsm: BOOLEAN, opt: BOOLEAN, sum: BOOLEAN]
=============================================================================
