-------------------------- MODULE MCEventPipeline ---------------------------
(* EventPipeline for TLC.  A channel of two against five events fills up   *)
(* and is emptied again.                                                   *)
EXTENDS EventPipeline
=============================================================================
