---------------------------- MODULE RequestPipe ----------------------------
(* What a pipeline handler promises the camera's application: the requests  *)
(* it queues are completed in the order they were queued, each exactly      *)
(* once, and stopping the camera leaves none of them behind. Abstract:      *)
(* nothing of the streams, buffers and threads is here.                     *)
EXTENDS Sequences

CONSTANT Requests

VARIABLES
    started,    \* capture is on
    queue,      \* requests not yet completed, oldest first
    outcome     \* of a request: "app" (never queued since the start), "queued",
                \* "complete" or "cancelled"

vars == <<started, queue, outcome>>

Init ==
    /\ started = FALSE
    /\ queue = << >>
    /\ outcome = [r \in Requests |-> "app"]

Start ==
    /\ ~started
    /\ started' = TRUE
    /\ queue' = << >>
    /\ outcome' = [r \in Requests |-> "app"]

Queue(r) ==
    /\ started
    /\ outcome[r] # "queued"
    /\ queue' = Append(queue, r)
    /\ outcome' = [outcome EXCEPT ![r] = "queued"]
    /\ UNCHANGED started

\* While capturing, a request leaves the pipe complete, and in its turn.
Complete ==
    /\ started
    /\ queue # << >>
    /\ outcome' = [outcome EXCEPT ![Head(queue)] = "complete"]
    /\ queue' = Tail(queue)
    /\ UNCHANGED started

\* What is queued when the camera stops comes back, one way or the other.
Stop ==
    /\ started
    /\ started' = FALSE
    /\ queue' = << >>
    /\ \E cancelled \in SUBSET {r \in Requests : outcome[r] = "queued"} :
         outcome' = [r \in Requests |->
                       CASE outcome[r] # "queued" -> outcome[r]
                         [] r \in cancelled -> "cancelled"
                         [] OTHER -> "complete"]

Next ==
    \/ Start
    \/ \E r \in Requests : Queue(r)
    \/ Complete
    \/ Stop

Spec == Init /\ [][Next]_vars
=============================================================================
