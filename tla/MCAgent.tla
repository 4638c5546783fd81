------------------------------ MODULE MCAgent -------------------------------
(* Agent for TLC, with the traffic of MCTcpAssembler.                      *)
EXTENDS Agent, MCTcpAssembler

ASSUME WireIsOrderly == OrderlyWire
=============================================================================
