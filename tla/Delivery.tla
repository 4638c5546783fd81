------------------------------ MODULE Delivery ------------------------------
(***************************************************************************)
(* What the pipeline of the agent promises, without goroutines, channel,   *)
(* WaitGroup and signals: the events that are made are handled in the      *)
(* order in which they are made, each of them once, while a bounded number *)
(* of them is on the way; what the exporter has accepted is sent, and the  *)
(* process does not end before all of that is sent.  EventPipeline         *)
(* implements it.                                                          *)
(***************************************************************************)
EXTENDS Integers

CONSTANT Window     \* how many events may be on the way

VARIABLES
    made,      \* number of events made
    accepted,  \* events the exporter took over
    refused,   \* events the exporter refused
    delivered, \* events the exporter has sent
    exited     \* the process has ended

vars == <<made, accepted, refused, delivered, exited>>

Handled == accepted \cup refused

Init == made = 0 /\ accepted = {} /\ refused = {} /\ delivered = {} /\ exited = FALSE

\* A new event, when all but the last Window - 1 have been handled.
Make ==
    /\ ~exited
    /\ \A e \in 1 .. made + 1 - Window : e \in Handled
    /\ made' = made + 1
    /\ UNCHANGED <<accepted, refused, delivered, exited>>

\* The first event that has not been handled is.
Handle ==
    /\ ~exited
    /\ \E e \in 1 .. made :
          /\ e \notin Handled /\ \A d \in 1 .. e - 1 : d \in Handled
          /\ \/ accepted' = accepted \cup {e} /\ refused' = refused
             \/ refused' = refused \cup {e} /\ accepted' = accepted
    /\ UNCHANGED <<made, delivered, exited>>

Deliver ==
    /\ ~exited
    /\ delivered' = accepted
    /\ UNCHANGED <<made, accepted, refused, exited>>

Exit ==
    /\ ~exited /\ delivered = accepted
    /\ exited' = TRUE
    /\ UNCHANGED <<made, accepted, refused, delivered>>

Next == Make \/ Handle \/ Deliver \/ Exit

Spec == Init /\ [][Next]_vars
=============================================================================
