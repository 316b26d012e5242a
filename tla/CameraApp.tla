----------------------------- MODULE CameraApp -----------------------------
(* The camera application of kcamera: the event loop of run.cpp with its     *)
(* LibcameraApp on one thread, the pipeline handler's thread that completes  *)
(* requests and calls requestComplete on another, and the Python threads     *)
(* that set controls and stop the loop. A request has the name of the        *)
(* buffers it was made with. The pipeline handler's own work is abstract: it *)
(* completes queued requests in any order, and hands them over in the order  *)
(* they were queued.                                                         *)
EXTENDS Naturals, Sequences, FiniteSets

CONSTANTS
    Requests,   \* the requests a start makes, one for every buffer
    Controls,   \* the camera's controls
    MaxSets,    \* bound: the last version of a control a caller sets
    Hotplug,    \* whether the camera may be unplugged
    NoBuffers   \* a request without buffers, a thread without a request

ASSUME CameraAppAssumption ==
    /\ Requests # {} /\ IsFiniteSet(Requests)
    /\ MaxSets \in Nat \ {0}
    /\ Hotplug \in BOOLEAN
    /\ NoBuffers \notin Requests

VARIABLES
    \* the event loop's thread
    pc,         \* where it is
    run,        \* the flag that keeps it going
    started,    \* camera_started_
    unqueued,   \* requests that StartCamera has yet to queue
    inHand,     \* buffers of the message the loop is working on
    \* the application object
    alive,      \* requests_ holds the requests
    buffers,    \* of every request: the buffers added to it
    carried,    \* of every request: its controls()
    free,       \* free_requests_
    msgs,       \* msg_queue_
    controls,   \* controls_
    \* the globals of run.cpp
    pending,    \* _controls
    setting,    \* version of every control last asked for (g_params)
    \* libcamera
    camera,     \* Camera::Private's state_
    unplugged,  \* Camera::Private's disconnected_
    posted,     \* requests posted to the pipeline handler's thread
    queue,      \* queuedRequests_: [req, status]
    pipe,       \* what that thread is doing
    current,    \* the request it is handing over
    applied,    \* of every control: version the camera was last given
    fault       \* how the program died, if it did

loopVars == <<pc, run, started, unqueued, inHand>>
appVars == <<alive, buffers, carried, free, msgs, controls>>
pipeVars == <<posted, queue, pipe, current, applied>>
cameraVars == <<camera, unplugged>>
globalVars == <<pending, setting>>
vars == <<loopVars, appVars, pipeVars, cameraVars, globalVars, fault>>

Versions == 0 .. MaxSets        \* 0: the control is not in the list
Empty == [c \in Controls |-> 0]

Init ==
    /\ pc = "closed"
    /\ run = FALSE
    /\ started = FALSE
    /\ unqueued = {}
    /\ inHand = NoBuffers
    /\ alive = FALSE
    /\ buffers = [r \in Requests |-> NoBuffers]
    /\ carried = [r \in Requests |-> Empty]
    /\ free = << >>
    /\ msgs = << >>
    /\ controls = Empty
    /\ pending = Empty
    /\ setting = [c \in Controls |-> 1]
    /\ camera = "Available"
    /\ unplugged = FALSE
    /\ posted = << >>
    /\ queue = << >>
    /\ pipe = "idle"
    /\ current = NoBuffers
    /\ applied = Empty
    /\ fault = "none"

-----------------------------------------------------------------------------
(* The event loop.                                                          *)

\* event_loop up to ConfigureVideo: every control is set anew, the camera is
\* acquired and configured. A camera that is gone is not found.
Open ==
    /\ pc = "closed"
    /\ ~unplugged
    /\ run' = TRUE
    /\ pending' = setting
    /\ camera' = "Configured"
    /\ pc' = "opened"
    /\ UNCHANGED <<started, unqueued, inHand, appVars, pipeVars, unplugged,
                   setting, fault>>

\* Variant: one request too few is queued.
StartCameraOneLess ==
    /\ pc = "opened"
    /\ ~unplugged /\ camera = "Configured"
    /\ alive' = TRUE
    /\ buffers' = [r \in Requests |-> r]
    /\ carried' = [r \in Requests |-> Empty]
    /\ camera' = "Running"
    /\ started' = TRUE
    /\ controls' = Empty
    /\ unqueued' = Requests \ {CHOOSE r \in Requests : TRUE}
    /\ pc' = "queueing"
    /\ UNCHANGED <<run, inHand, free, msgs, pipeVars, unplugged, globalVars,
                   fault>>

\* StartCamera makes the requests, with their buffers, and starts the camera,
\* which may fail.
StartCamera ==
    /\ pc = "opened"
    /\ alive' = TRUE
    /\ buffers' = [r \in Requests |-> r]
    /\ carried' = [r \in Requests |-> Empty]
    /\ \/ /\ ~unplugged /\ camera = "Configured"
          /\ camera' = "Running"
          /\ started' = TRUE
          /\ controls' = Empty
          /\ unqueued' = Requests
          /\ pc' = "queueing"
       \/ /\ pc' = "stop"
          /\ UNCHANGED <<camera, started, controls, unqueued>>
    /\ UNCHANGED <<run, inHand, free, msgs, pipeVars, unplugged, globalVars,
                   fault>>

\* Camera::queueRequest lets a request through only while running.
Accepts == ~unplugged /\ camera = "Running"

QueueFirst(r) ==
    /\ pc = "queueing"
    /\ r \in unqueued
    /\ unqueued' = unqueued \ {r}
    /\ IF Accepts
         THEN /\ posted' = Append(posted, r)
              /\ pc' = IF unqueued' = {} THEN "top" ELSE pc
         ELSE /\ pc' = "stop"       \* "Failed to queue request"
              /\ UNCHANGED posted
    /\ UNCHANGED <<run, started, inHand, appVars, queue, pipe, current, applied,
                   cameraVars, globalVars, fault>>

\* The top of the loop: the flag, then the controls, moved if there are any.
LoopTop ==
    /\ pc = "top"
    /\ IF run
         THEN /\ pc' = "wait"
              /\ IF pending # Empty
                   THEN controls' = pending /\ pending' = Empty
                   ELSE UNCHANGED <<controls, pending>>
         ELSE pc' = "stop" /\ UNCHANGED <<controls, pending>>
    /\ UNCHANGED <<run, started, unqueued, inHand, alive, buffers, carried, free,
                   msgs, pipeVars, cameraVars, setting, fault>>

Wait ==
    /\ pc = "wait"
    /\ msgs # << >>
    /\ inHand' = Head(msgs)
    /\ msgs' = Tail(msgs)
    /\ pc' = "frame"
    /\ UNCHANGED <<run, started, unqueued, alive, buffers, carried, free,
                   controls, pipeVars, cameraVars, globalVars, fault>>

\* QueueRequest: the first free request gets the buffers of the message and the
\* controls; a camera that does not take it makes no difference to the loop.
QueueRequest ==
    /\ pc = "frame"
    /\ inHand' = NoBuffers
    /\ IF free = << >>
         THEN /\ pc' = "top"        \* "could not make request!"
              /\ UNCHANGED <<free, buffers, carried, controls, posted>>
         ELSE LET r == Head(free) IN
              /\ free' = Tail(free)
              /\ IF buffers[r] # NoBuffers
                   THEN /\ pc' = "stop"     \* addBuffer fails, an exception
                        /\ UNCHANGED <<buffers, carried, controls, posted>>
                   ELSE /\ pc' = "top"
                        /\ buffers' = [buffers EXCEPT ![r] = inHand]
                        /\ carried' = [carried EXCEPT ![r] = controls]
                        /\ controls' = Empty
                        /\ posted' = IF Accepts THEN Append(posted, r)
                                                ELSE posted
    /\ UNCHANGED <<run, started, unqueued, alive, msgs, queue, pipe, current,
                   applied, cameraVars, globalVars, fault>>

\* StopCamera, called by the loop or by the destructor of the application when
\* an exception ends it: there, an exception of its own ends the program.
StopCamera ==
    /\ pc = "stop"
    /\ CASE ~started -> pc' = "clear" /\ UNCHANGED <<camera, fault>>
         [] started /\ Accepts ->
              pc' = "stopping" /\ camera' = "Stopping" /\ UNCHANGED fault
         [] OTHER -> fault' = "terminate" /\ UNCHANGED <<pc, camera>>
    /\ UNCHANGED <<run, started, unqueued, inHand, appVars, pipeVars, unplugged,
                   globalVars>>

StopReturns ==
    /\ pc = "stopping"
    /\ pipe = "stopped"
    /\ pipe' = "idle"
    /\ camera' = "Configured"
    /\ started' = FALSE
    /\ pc' = "clear"
    /\ UNCHANGED <<run, unqueued, inHand, appVars, posted, queue, current,
                   applied, unplugged, globalVars, fault>>

\* The rest of StopCamera, Teardown and CloseCamera: the messages, the free
\* requests, the requests and the controls go, the camera is given back.
Clear ==
    /\ pc = "clear"
    /\ alive' = FALSE
    /\ buffers' = [r \in Requests |-> NoBuffers]
    /\ carried' = [r \in Requests |-> Empty]
    /\ free' = << >>
    /\ msgs' = << >>
    /\ controls' = Empty
    /\ inHand' = NoBuffers
    /\ unqueued' = {}
    /\ camera' = "Available"
    /\ pc' = "closed"
    /\ UNCHANGED <<run, started, pipeVars, unplugged, globalVars, fault>>

-----------------------------------------------------------------------------
(* The pipeline handler's thread.                                           *)

\* PipelineHandler::queueRequest, and the controls reach the device.
HandleRequest ==
    /\ pipe = "idle"
    /\ posted # << >>
    /\ posted' = Tail(posted)
    /\ LET r == Head(posted) IN
         /\ queue' = Append(queue, [req |-> r, status |-> "pending"])
         /\ applied' = [c \in Controls |-> IF carried[r][c] = 0
                                             THEN applied[c]
                                             ELSE carried[r][c]]
    /\ UNCHANGED <<loopVars, appVars, pipe, current, cameraVars, globalVars,
                   fault>>

\* A request is complete; completeRequest then looks at the oldest ones.
Complete(i) ==
    /\ pipe = "idle"
    /\ i \in DOMAIN queue
    /\ queue[i].status = "pending"
    /\ queue' = [queue EXCEPT ![i].status = "complete"]
    /\ pipe' = "deliver"
    /\ UNCHANGED <<loopVars, appVars, posted, current, applied, cameraVars,
                   globalVars, fault>>

\* PipelineHandler::stop, in the turn of the messages: every request is
\* completed, most of them cancelled.
HandleStop ==
    /\ pipe = "idle"
    /\ pc = "stopping"
    /\ posted = << >>
    /\ \E cancelled \in SUBSET DOMAIN queue :
         queue' = [i \in DOMAIN queue |->
                     [queue[i] EXCEPT !.status =
                        IF i \in cancelled THEN "cancelled" ELSE "complete"]]
    /\ pipe' = "deliver"
    /\ UNCHANGED <<loopVars, appVars, posted, current, applied, cameraVars,
                   globalVars, fault>>

Undelivered == queue # << >> /\ Head(queue).status # "pending"

\* Variant: requests are completed only while running.
CompletableRunning == camera = "Running"

\* "trying to complete a request when stopped" is fatal.
Completable == camera \in {"Stopping", "Running"}

\* Camera::requestComplete of the oldest request, up to the point where
\* LibcameraApp::requestComplete has put it, emptied, on the free list.
Deliver ==
    /\ pipe = "deliver"
    /\ Undelivered
    /\ LET r == Head(queue).req IN
       IF ~Completable
         THEN fault' = "fatal" /\ UNCHANGED <<queue, pipe, current, buffers,
                                              carried, free>>
         ELSE /\ queue' = Tail(queue)
              /\ UNCHANGED fault
              /\ IF Head(queue).status = "cancelled"
                   THEN UNCHANGED <<pipe, current, buffers, carried, free>>
                   ELSE /\ current' = buffers[r]
                        /\ buffers' = [buffers EXCEPT ![r] = NoBuffers]
                        /\ carried' = [carried EXCEPT ![r] = Empty]
                        /\ free' = Append(free, r)
                        /\ pipe' = "post"
    /\ UNCHANGED <<loopVars, alive, msgs, controls, posted, applied, cameraVars,
                   globalVars>>

\* Variant: the message overtakes the others.
PostMessageFirst ==
    /\ pipe = "post"
    /\ msgs' = <<current>> \o msgs
    /\ current' = NoBuffers
    /\ pipe' = "deliver"
    /\ UNCHANGED <<loopVars, alive, buffers, carried, free, controls, posted,
                   queue, applied, cameraVars, globalVars, fault>>

PostMessage ==
    /\ pipe = "post"
    /\ msgs' = Append(msgs, current)
    /\ current' = NoBuffers
    /\ pipe' = "deliver"
    /\ UNCHANGED <<loopVars, alive, buffers, carried, free, controls, posted,
                   queue, applied, cameraVars, globalVars, fault>>

Delivered ==
    /\ pipe = "deliver"
    /\ ~Undelivered
    /\ pipe' = IF pc = "stopping" /\ queue = << >> /\ posted = << >>
                 THEN "stopped" ELSE "idle"
    /\ UNCHANGED <<loopVars, appVars, posted, queue, current, applied,
                   cameraVars, globalVars, fault>>

\* Camera::Private::disconnect, the state read and written in two steps.
Unplug ==
    /\ Hotplug
    /\ ~unplugged
    /\ pc # "closed"
    /\ pipe = "idle"
    /\ IF camera = "Running"
         THEN pipe' = "unplug" /\ UNCHANGED unplugged
         ELSE unplugged' = TRUE /\ UNCHANGED pipe
    /\ UNCHANGED <<loopVars, appVars, posted, queue, current, applied, camera,
                   globalVars, fault>>

Unplugged ==
    /\ pipe = "unplug"
    /\ pipe' = "idle"
    /\ camera' = "Configured"
    /\ unplugged' = TRUE
    /\ UNCHANGED <<loopVars, appVars, posted, queue, current, applied,
                   globalVars, fault>>

-----------------------------------------------------------------------------
(* The callers: the kcSet functions of run.cpp, and kcStopCameraLoop.       *)

\* Variant: a new list takes the place of the one that is pending.
SetControlAlone(c) ==
    /\ setting[c] < MaxSets
    /\ setting' = [setting EXCEPT ![c] = @ + 1]
    /\ pending' = [Empty EXCEPT ![c] = setting'[c]]
    /\ UNCHANGED <<loopVars, appVars, pipeVars, cameraVars, fault>>

SetControl(c) ==
    /\ setting[c] < MaxSets
    /\ setting' = [setting EXCEPT ![c] = @ + 1]
    /\ pending' = [pending EXCEPT ![c] = setting'[c]]
    /\ UNCHANGED <<loopVars, appVars, pipeVars, cameraVars, fault>>

StopLoop ==
    /\ run
    /\ run' = FALSE
    /\ UNCHANGED <<pc, started, unqueued, inHand, appVars, pipeVars, cameraVars,
                   globalVars, fault>>

Loop ==
    \/ Open \/ StartCamera \/ LoopTop \/ Wait \/ QueueRequest
    \/ StopCamera \/ StopReturns \/ Clear
    \/ \E r \in Requests : QueueFirst(r)

Pipeline ==
    \/ HandleRequest \/ HandleStop \/ Deliver \/ PostMessage \/ Delivered
    \/ Unplugged
    \/ \E i \in DOMAIN queue : Complete(i)

\* A program that died, or a loop that waits for a camera that is gone.
Ended == (fault # "none" \/ unplugged) /\ UNCHANGED vars

Next ==
    \/ /\ fault = "none"
       /\ \/ Loop
          \/ Pipeline
          \/ Unplug
          \/ \E c \in Controls : SetControl(c)
          \/ StopLoop
    \/ Ended

Spec == Init /\ [][Next]_vars

\* Both threads run and the camera, while it is there, completes its requests.
\* Nothing is assumed of the callers.
Fairness ==
    /\ WF_vars(fault = "none" /\ Loop)
    /\ WF_vars(fault = "none" /\ Pipeline)

LiveSpec == Spec /\ Fairness

-----------------------------------------------------------------------------
(* Properties.                                                              *)

Elements(seq) == {seq[i] : i \in DOMAIN seq}
InPipe == Elements(posted) \cup {queue[i].req : i \in DOMAIN queue}

TypeOK ==
    /\ pc \in {"closed", "opened", "queueing", "top", "wait", "frame", "stop",
               "stopping", "clear"}
    /\ run \in BOOLEAN /\ started \in BOOLEAN /\ alive \in BOOLEAN
    /\ unplugged \in BOOLEAN
    /\ unqueued \subseteq Requests
    /\ inHand \in Requests \cup {NoBuffers}
    /\ current \in Requests \cup {NoBuffers}
    /\ buffers \in [Requests -> Requests \cup {NoBuffers}]
    /\ carried \in [Requests -> [Controls -> Versions]]
    /\ free \in Seq(Requests)
    /\ msgs \in Seq(Requests)
    /\ controls \in [Controls -> Versions]
    /\ pending \in [Controls -> Versions]
    /\ applied \in [Controls -> Versions]
    /\ setting \in [Controls -> Versions \ {0}]
    /\ camera \in {"Available", "Configured", "Running", "Stopping"}
    /\ posted \in Seq(Requests)
    /\ queue \in Seq([req : Requests,
                      status : {"pending", "complete", "cancelled"}])
    /\ pipe \in {"idle", "deliver", "post", "stopped", "unplug"}
    /\ fault \in {"none", "fatal", "terminate"}

\* While frames flow every request is somewhere, once: to be queued, posted,
\* with the pipeline handler, or free. (A request in none of them is a buffer
\* that never gets a frame again.) And at any time what the pipeline handler
\* holds exists and has its own buffers: requests_ is not cleared under it, and
\* no buffers are queued twice.
RequestsConserved ==
    /\ pc \in {"queueing", "top", "wait", "frame"} /\ ~unplugged =>
         /\ unqueued \cup InPipe \cup Elements(free) = Requests
         /\ Cardinality(unqueued) + Len(posted) + Len(queue) + Len(free)
              = Cardinality(Requests)
    /\ \A r \in InPipe : alive /\ buffers[r] = r

\* The free requests are those of the messages, in the same order: a message
\* always finds a free request ("could not make request!" is never printed),
\* and gives it back the buffers it came with.
FreeMatchesMessages ==
    LET one(b) == IF b = NoBuffers THEN << >> ELSE <<b>>
    IN free = one(inHand) \o msgs \o one(current)

\* A control set while the loop runs is given to the camera, unless the loop is
\* told to stop, or the camera is unplugged.
ControlsApplied ==
    \A c \in Controls, v \in 1 .. MaxSets :
      started /\ setting[c] = v ~> applied[c] >= v \/ ~run \/ unplugged

\* A loop told to stop ends, and gives the camera back, while there is one.
LoopEnds ==
    ~run /\ pc # "closed" ~> pc = "closed" \/ unplugged

\* "Disconnected cameras are still able to complete requests." (camera.cpp:1103)
CompletesUnplugged == fault # "fatal"
=============================================================================
