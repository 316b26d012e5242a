---------------------------- MODULE RPiPipeline ----------------------------
(* The Raspberry Pi pipeline handler as kcamera drives it: a raw and a      *)
(* video stream, so the Unicam image, the Unicam embedded data and ISP      *)
(* output 0 are external streams, and output 1 and the statistics internal  *)
(* ones. Its handlers run in the pipeline handler's thread; around it are   *)
(* the application's thread, the IPA's thread, the sensor and the ISP.      *)
(*                                                                          *)
(* An image is its frame stamp; a request of the application is also the    *)
(* name of its buffer on each stream it has one for (image and output 0),   *)
(* and the buffers a stream allocated for itself are all `Internal'.        *)
EXTENDS Naturals, Sequences, FiniteSets

CONSTANTS
    Requests,       \* the application's requests
    BufferCount,    \* bufferCount of the configured streams
    DropCounts,     \* what the IPA may answer for dropFrameCount at a start
    MaxQueued,      \* bound: requests queued between a start and a stop
    Internal,       \* a buffer a stream allocated for itself
    Null            \* nullptr

ASSUME RPiAssumption ==
    /\ BufferCount \in Nat \ {0}
    /\ DropCounts \subseteq Nat
    /\ MaxQueued \in Nat
    /\ Internal \notin Requests
    /\ Null \notin Requests \cup {Internal}
    /\ Null \notin [buf : Requests \cup {Internal}, frame : Nat]

VARIABLES
    running,    \* the application's camera is in CameraRunning
    queued,     \* requests queued since the start, at most MaxQueued
    request,    \* of every request: status, pending streams, frames it got
    data,       \* RPiCameraData
    stream,     \* RPi::Stream and its device, for all but the ISP's input
    jobs,       \* the ISP input's device queue: [buf, frame]
    finished,   \* streams the ISP has finished of the first job
    done,       \* per stream, buffers the driver has finished, not dequeued
    ready,      \* streams the current pass of the poll loop has yet to serve
    posted,     \* requests the application has posted to the handler's thread
    messages,   \* what the IPA has posted to it
    toIpa,      \* posted to the IPA's thread
    ipaFrame,   \* the frame whose metadata the IPA holds
    frame       \* number of the sensor's last frame

vars == <<running, queued, request, data, stream, jobs, finished, done, ready,
          posted, messages, toIpa, ipaFrame, frame>>

External == {"Image", "Embedded", "Output0"}
IspOutputs == {"Output0", "Output1", "Stats"}
IspStreams == IspOutputs \cup {"Input"}
Streams == {"Image", "Embedded"} \cup IspStreams
Queued == Streams \ {"Input"}

\* The external streams a request brings a buffer for.
Requested == {"Image", "Output0"}

Buffers == Requests \cup {Internal}
NoFrame == 0

-----------------------------------------------------------------------------
(* RPi::Stream. A stream is [available, waiting, device]: availableBuffers_, *)
(* requestBuffers_ (Null stands for a buffer to be chosen later) and what    *)
(* the device holds.                                                         *)

QueueBuffer(st, b) ==
    IF b = Null /\ st.available = << >>
      THEN [st EXCEPT !.waiting = Append(@, Null)]
      ELSE LET taken == b = Null
               buf == IF taken THEN Head(st.available) ELSE b
               left == IF taken THEN Tail(st.available) ELSE st.available
           IN IF st.waiting = << >>
                THEN [st EXCEPT !.available = left, !.device = Append(@, buf)]
                ELSE [st EXCEPT !.available = left, !.waiting = Append(@, buf)]

\* How many buffers a list of waiting ones asks of the available ones.
Nulls(w, n) == Cardinality({i \in 1 .. n : w[i] = Null})

\* Variant: the buffers that wait for an available one are forgotten.
ReturnBufferOnly(st, b) == [st EXCEPT !.available = Append(@, b)]

\* returnBuffer: the buffer becomes available, and the list of waiting ones is
\* sent to the device up to the first that would still need an available one.
ReturnBuffer(st, b) ==
    LET w == st.waiting
        have == Append(st.available, b)
        sent == CHOOSE n \in 0 .. Len(w) :
                  /\ Nulls(w, n) <= Len(have)
                  /\ n = Len(w) \/ Nulls(w, n + 1) > Len(have)
    IN [available |-> SubSeq(have, Nulls(w, sent) + 1, Len(have)),
        waiting |-> SubSeq(w, sent + 1, Len(w)),
        device |-> st.device \o [i \in 1 .. sent |->
                       IF w[i] = Null THEN have[Nulls(w, i)] ELSE w[i]]]

Copies(n) == [i \in 1 .. n |-> Internal]

\* A started stream: prepareBuffers has exported BufferCount buffers.
\* queueAllBuffers gives them all to the device of an internal stream, and
\* queues `drop' times a nullptr on an external one.
StartedStream(s, drop) ==
    LET now == IF drop < BufferCount THEN drop ELSE BufferCount
    IN IF s \in External
         THEN [available |-> Copies(BufferCount - now),
               waiting |-> [i \in 1 .. drop - now |-> Null],
               device |-> Copies(now)]
         ELSE [available |-> << >>, waiting |-> << >>,
               device |-> Copies(BufferCount)]

StoppedStream == [available |-> << >>, waiting |-> << >>, device |-> << >>]
StoppedData ==
    [state |-> "Stopped", requestQueue |-> << >>, bayerQueue |-> << >>,
     embeddedQueue |-> << >>, dropFrameCount |-> 0, ispOutputCount |-> 0]
FreshRequest ==
    [status |-> "app", pending |-> {}, got |-> [s \in Requested |-> NoFrame],
     metadata |-> NoFrame]

-----------------------------------------------------------------------------
(* The state machine. `d' and `rq' are data and request as the handler has   *)
(* left them when it calls handleState.                                      *)

HasPending(d, rq) == rq[Head(d.requestQueue)].pending # {}

\* Variant: the metadata are not waited for.
CompletesEarly(d, rq) ==
    d.state \in {"Busy", "IpaComplete"} /\ d.dropFrameCount = 0
      /\ ~HasPending(d, rq)

\* checkRequestCompleted completes the first request; with frames to drop it
\* only waits for the three outputs of the ISP.
Completes(d, rq) ==
    d.state = "IpaComplete" /\ d.dropFrameCount = 0 /\ ~HasPending(d, rq)

Drops(d) ==
    d.state = "IpaComplete" /\ d.dropFrameCount # 0 /\ d.ispOutputCount = 3

\* Variant: the completed request is not taken off the queue.
CheckedDataKeeps(d, rq) ==
    IF Completes(d, rq)
      THEN [d EXCEPT !.state = "Idle"]
      ELSE IF Drops(d)
             THEN [d EXCEPT !.state = "Idle", !.dropFrameCount = @ - 1]
             ELSE d

CheckedData(d, rq) ==
    IF Completes(d, rq)
      THEN [d EXCEPT !.state = "Idle", !.requestQueue = Tail(@)]
      ELSE IF Drops(d)
             THEN [d EXCEPT !.state = "Idle", !.dropFrameCount = @ - 1]
             ELSE d

CheckedRequests(d, rq) ==
    IF Completes(d, rq)
      THEN [rq EXCEPT ![Head(d.requestQueue)].status = "complete"]
      ELSE rq

\* Variant: the request is not waited for.
CanRunAlone(d) ==
    /\ d.state = "Idle"
    /\ d.bayerQueue # << >>
    /\ d.embeddedQueue # << >>

\* tryRunPipeline with findMatchingBuffers: the embedded data stream is
\* external, so its first buffer is taken whatever its timestamp.
CanRun(d) ==
    /\ d.state = "Idle"
    /\ d.requestQueue # << >>
    /\ d.bayerQueue # << >>
    /\ d.embeddedQueue # << >>

TryRunPipeline(d) ==
    IF CanRun(d)
      THEN [d EXCEPT !.state = "Busy", !.bayerQueue = Tail(@),
                     !.embeddedQueue = Tail(@)]
      ELSE d

IspPrepare(d) ==
    [type |-> "signalIspPrepare", bayer |-> Head(d.bayerQueue),
     embedded |-> Head(d.embeddedQueue)]

HandleState(d, rq, toIpaSoFar) ==
    LET checked == CheckedData(d, rq)
    IN /\ data' = TryRunPipeline(checked)
       /\ request' = CheckedRequests(d, rq)
       /\ toIpa' = IF CanRun(checked)
                     THEN Append(toIpaSoFar, IspPrepare(checked))
                     ELSE toIpaSoFar

\* handleStreamBuffer for an external stream: the buffer is the first request's
\* and goes to it, or it goes back to the stream.
IsForRequest(s, b) ==
    /\ data.dropFrameCount = 0
    /\ data.requestQueue # << >>
    /\ s \in Requested
    /\ b = Head(data.requestQueue)

Completed(s, b, f) ==
    IF IsForRequest(s, b)
      THEN [request EXCEPT ![b].pending = @ \ {s}, ![b].got[s] = f]
      ELSE request

\* Variant: the buffer goes back to the stream in any case.
HandledStreamAlways(s, b) == [stream EXCEPT ![s] = ReturnBuffer(@, b)]

HandledStream(s, b) ==
    IF IsForRequest(s, b)
      THEN stream
      ELSE [stream EXCEPT ![s] = ReturnBuffer(@, b)]

-----------------------------------------------------------------------------
Init ==
    /\ running = FALSE
    /\ queued = 0
    /\ request = [r \in Requests |-> FreshRequest]
    /\ data = StoppedData
    /\ stream = [s \in Queued |-> StoppedStream]
    /\ jobs = << >>
    /\ finished = {}
    /\ done = [s \in Streams |-> << >>]
    /\ ready = {}
    /\ posted = << >>
    /\ messages = << >>
    /\ toIpa = << >>
    /\ ipaFrame = NoFrame
    /\ frame = 0

(* Capture starts, with streams freshly configured. When allocating, queueing *)
(* or starting a stream fails, start() calls stop() and leaves all as it was. *)
Start ==
    /\ data.state = "Stopped"
    /\ ~running
    /\ \E drop \in DropCounts :
         /\ stream' = [s \in Queued |-> StartedStream(s, drop)]
         /\ data' = [StoppedData EXCEPT !.state = "Idle",
                                        !.dropFrameCount = drop]
    /\ running' = TRUE
    /\ queued' = 0
    /\ request' = [r \in Requests |-> FreshRequest]
    /\ frame' = 0
    /\ UNCHANGED <<jobs, finished, done, ready, posted, messages, toIpa,
                   ipaFrame>>

\* The application queues a request it owns, reused with its buffers.
QueueRequest(r) ==
    /\ running
    /\ queued < MaxQueued
    /\ request[r].status # "queued"
    /\ queued' = queued + 1
    /\ request' = [request EXCEPT ![r] =
                     [FreshRequest EXCEPT !.status = "queued",
                                          !.pending = Requested]]
    /\ posted' = Append(posted, r)
    /\ UNCHANGED <<running, data, stream, jobs, finished, done, ready, messages,
                   toIpa, ipaFrame, frame>>

\* The application stops the camera: a blocking call, posted like its requests
\* and therefore served after them.
CallStop ==
    /\ running
    /\ running' = FALSE
    /\ UNCHANGED <<queued, request, data, stream, jobs, finished, done, ready,
                   posted, messages, toIpa, ipaFrame, frame>>

-----------------------------------------------------------------------------
(* The pipeline handler's thread dispatches its messages, then polls, and    *)
(* serves every stream the poll found ready once, by file descriptor: they   *)
(* are opened in the order of the streams. What two threads post may come in *)
(* any order, so each has a queue of its own.                                *)

StopCalled == ~running /\ data.state # "Stopped"

Message(type) ==
    /\ ready = {}
    /\ messages # << >>
    /\ Head(messages).type = type
    /\ messages' = Tail(messages)

QueueRequestDevice ==
    /\ ready = {}
    /\ posted # << >>
    /\ data.state # "Stopped"
    /\ posted' = Tail(posted)
    /\ LET r == Head(posted)
       IN /\ stream' = [s \in Queued |->
                          IF s \in External
                            THEN QueueBuffer(stream[s], IF s \in Requested
                                                          THEN r ELSE Null)
                            ELSE stream[s]]
          /\ HandleState([data EXCEPT !.requestQueue = Append(@, r)],
                         request, toIpa)
    /\ UNCHANGED <<running, queued, jobs, finished, done, ready, messages,
                   ipaFrame, frame>>

\* embeddedComplete: the IPA has read the embedded data.
EmbeddedComplete ==
    /\ Message("embeddedComplete")
    /\ LET e == Head(messages).embedded
       IN stream' = HandledStream("Embedded", e.buf)
    /\ HandleState(data, request, toIpa)
    /\ UNCHANGED <<running, queued, jobs, finished, done, ready, posted,
                   ipaFrame, frame>>

RunIsp ==
    /\ Message("runIsp")
    /\ jobs' = Append(jobs, Head(messages).bayer)
    /\ HandleState([data EXCEPT !.ispOutputCount = 0], request, toIpa)
    /\ UNCHANGED <<running, queued, stream, finished, done, ready, posted,
                   ipaFrame, frame>>

\* statsMetadataComplete: the statistics buffer goes back to its device and the
\* first request gets the metadata.
StatsMetadataComplete ==
    /\ Message("statsMetadataComplete")
    /\ stream' = [stream EXCEPT !["Stats"].device = Append(@, Internal)]
    /\ HandleState([data EXCEPT !.state = "IpaComplete"],
                   [request EXCEPT ![Head(data.requestQueue)].metadata =
                      Head(messages).metadata], toIpa)
    /\ UNCHANGED <<running, queued, jobs, finished, done, ready, posted,
                   ipaFrame, frame>>

\* A message posted while the last handler ran may wait for the next pass.
Poll ==
    /\ ready = {}
    /\ ready' = {s \in Streams : done[s] # << >>}
    /\ ready' # {}
    /\ UNCHANGED <<running, queued, request, data, stream, jobs, finished, done,
                   posted, messages, toIpa, ipaFrame, frame>>

Descriptor == [Image |-> 1, Embedded |-> 2, Input |-> 3,
               Output0 |-> 4, Output1 |-> 5, Stats |-> 6]

\* V4L2VideoDevice::bufferAvailable dequeues one buffer of the stream.
Dequeue(s) ==
    /\ s \in ready
    /\ \A z \in ready : Descriptor[s] <= Descriptor[z]
    /\ ready' = ready \ {s}
    /\ done' = [done EXCEPT ![s] = Tail(@)]

UnicamBufferDequeue(s) ==
    /\ Dequeue(s)
    /\ LET b == Head(done[s])
       IN HandleState(IF s = "Image"
                        THEN [data EXCEPT !.bayerQueue = Append(@, b)]
                        ELSE [data EXCEPT !.embeddedQueue = Append(@, b)],
                      request, toIpa)
    /\ UNCHANGED <<running, queued, stream, jobs, finished, posted, messages,
                   ipaFrame, frame>>

\* The ISP has consumed an image: its buffer is complete on the image stream.
IspInputDequeue ==
    /\ Dequeue("Input")
    /\ LET b == Head(done["Input"])
       IN /\ stream' = HandledStream("Image", b.buf)
          /\ HandleState(data, Completed("Image", b.buf, b.frame), toIpa)
    /\ UNCHANGED <<running, queued, jobs, finished, posted, messages, ipaFrame,
                   frame>>

IspOutputDequeue(s) ==
    /\ Dequeue(s)
    /\ LET b == Head(done[s])
       IN /\ stream' = CASE s = "Output0" -> HandledStream(s, b.buf)
                         [] s = "Output1" ->
                              [stream EXCEPT ![s].device = Append(@, b.buf)]
                         [] OTHER -> stream
          /\ HandleState([data EXCEPT !.ispOutputCount = @ + 1],
                         IF s = "Output0" THEN Completed(s, b.buf, b.frame)
                                          ELSE request,
                         IF s = "Stats"
                           THEN Append(toIpa, [type |-> "signalStatReady"])
                           ELSE toIpa)
    /\ UNCHANGED <<running, queued, jobs, finished, posted, messages, ipaFrame,
                   frame>>

(* clearIncompleteRequests requeues the buffers of the queued requests, so    *)
(* that streamOff, which marks what the devices hold, marks them cancelled:   *)
(* that reaches a buffer unless its stream has others waiting. Such a buffer  *)
(* was not used since it was allocated and its status is not initialised.     *)
Marked(s, r) ==
    \/ stream[s].waiting = << >>
    \/ \E i \in DOMAIN stream[s].device : stream[s].device[i] = r
    \/ \E i \in DOMAIN done[s] : done[s][i].buf = r

\* stop(): the IPA's thread is stopped and its last messages are dispatched, in
\* the state Stopped in which every handler returns at once.
Stop ==
    /\ ready = {}
    /\ posted = << >>
    /\ StopCalled
    /\ messages' = << >>
    /\ data' = StoppedData
    /\ \E unset \in SUBSET Requests :
         request' = [r \in Requests |->
           IF request[r].status # "queued" THEN request[r]
           ELSE [request[r] EXCEPT
                   !.pending = {},
                   !.status = IF \E s \in request[r].pending :
                                      Marked(s, r) \/ r \in unset
                                THEN "cancelled" ELSE "complete"]]
    /\ stream' = [s \in Queued |-> StoppedStream]
    /\ jobs' = << >>
    /\ finished' = {}
    /\ done' = [s \in Streams |-> << >>]
    /\ toIpa' = << >>
    /\ UNCHANGED <<running, queued, ready, posted, ipaFrame, frame>>

-----------------------------------------------------------------------------
(* The IPA's thread takes its messages in order. Of what it posts back, the  *)
(* messages that only end in handleState (setIspControls, setDelayedControls)*)
(* are left out: see Settled.                                                *)

Reply(msg) == messages' = Append(messages, msg)

IpaEmbedded ==
    /\ toIpa # << >>
    /\ Head(toIpa).type = "signalIspPrepare"
    /\ Head(toIpa).embedded # Null
    /\ Reply([type |-> "embeddedComplete", embedded |-> Head(toIpa).embedded])
    /\ toIpa' = [toIpa EXCEPT ![1].embedded = Null]
    /\ ipaFrame' = Head(toIpa).bayer.frame
    /\ UNCHANGED <<running, queued, request, data, stream, jobs, finished, done,
                   ready, posted, frame>>

IpaPrepared ==
    /\ toIpa # << >>
    /\ Head(toIpa).type = "signalIspPrepare"
    /\ Head(toIpa).embedded = Null
    /\ Reply([type |-> "runIsp", bayer |-> Head(toIpa).bayer])
    /\ toIpa' = Tail(toIpa)
    /\ UNCHANGED <<running, queued, request, data, stream, jobs, finished, done,
                   ready, posted, ipaFrame, frame>>

IpaStatReady ==
    /\ toIpa # << >>
    /\ Head(toIpa).type = "signalStatReady"
    /\ Reply([type |-> "statsMetadataComplete", metadata |-> ipaFrame])
    /\ toIpa' = Tail(toIpa)
    /\ UNCHANGED <<running, queued, request, data, stream, jobs, finished, done,
                   ready, posted, ipaFrame, frame>>

-----------------------------------------------------------------------------
(* The hardware. A frame of the sensor fills the first buffer of the image   *)
(* device and of the embedded data device, or is lost on the one that has no *)
(* buffer. The ISP takes one image at a time, fills one buffer of each       *)
(* output, and has given back the image by the time the last one is full.    *)

Filled(s) == [buf |-> Head(stream[s].device), frame |-> frame + 1]

SensorFrame ==
    LET taking == {s \in {"Image", "Embedded"} : stream[s].device # << >>}
    IN /\ taking # {}
       /\ frame' = frame + 1
       /\ done' = [s \in Streams |-> IF s \in taking
                                       THEN Append(done[s], Filled(s))
                                       ELSE done[s]]
       /\ stream' = [s \in Queued |-> IF s \in taking
                        THEN [stream[s] EXCEPT !.device = Tail(@)]
                        ELSE stream[s]]
       /\ UNCHANGED <<running, queued, request, data, jobs, finished, ready,
                      posted, messages, toIpa, ipaFrame>>

JobStep(s) ==
    IF finished \cup {s} = IspStreams
      THEN finished' = {} /\ jobs' = Tail(jobs)
      ELSE finished' = finished \cup {s} /\ jobs' = jobs

IspFinish(s) ==
    /\ jobs # << >>
    /\ s \notin finished
    /\ s # "Input" => stream[s].device # << >>
    /\ finished \cup {s} # IspOutputs   \* the image before the last output
    /\ JobStep(s)
    /\ done' = [done EXCEPT ![s] = Append(@,
                  [buf |-> IF s = "Input" THEN Head(jobs).buf
                                          ELSE Head(stream[s].device),
                   frame |-> Head(jobs).frame])]
    /\ stream' = IF s = "Input" THEN stream
                               ELSE [stream EXCEPT ![s].device = Tail(@)]
    /\ UNCHANGED <<running, queued, request, data, ready, posted, messages,
                   toIpa, ipaFrame, frame>>

-----------------------------------------------------------------------------
Messages ==
    \/ QueueRequestDevice \/ Stop
    \/ EmbeddedComplete \/ RunIsp \/ StatsMetadataComplete

Handlers ==
    \/ Messages
    \/ Poll
    \/ \E s \in {"Image", "Embedded"} : UnicamBufferDequeue(s)
    \/ IspInputDequeue
    \/ \E s \in IspOutputs : IspOutputDequeue(s)

Ipa == IpaEmbedded \/ IpaPrepared \/ IpaStatReady

Isp == \E s \in IspStreams : IspFinish(s)

Next ==
    \/ Start
    \/ \E r \in Requests : QueueRequest(r)
    \/ CallStop
    \/ Handlers
    \/ Ipa
    \/ SensorFrame
    \/ Isp

Spec == Init /\ [][Next]_vars

\* The threads run, the handler's dispatches the messages it was posted between
\* any two polls, and the sensor and the ISP do their work; what the
\* application does is up to it.
Fairness ==
    /\ WF_vars(Handlers)
    /\ SF_vars(Messages)
    /\ WF_vars(Ipa)
    /\ WF_vars(SensorFrame)
    /\ WF_vars(Isp)

LiveSpec == Spec /\ Fairness

-----------------------------------------------------------------------------
(* Properties.                                                              *)

TypeOK ==
    /\ running \in BOOLEAN
    /\ queued \in 0 .. MaxQueued
    /\ request \in [Requests -> [status : {"app", "queued", "complete",
                                          "cancelled"},
                                 pending : SUBSET Requested,
                                 got : [Requested -> Nat], metadata : Nat]]
    /\ data \in [state : {"Stopped", "Idle", "Busy", "IpaComplete"},
                  requestQueue : Seq(Requests),
                  bayerQueue : Seq([buf : Buffers, frame : Nat]),
                  embeddedQueue : Seq([buf : Buffers, frame : Nat]),
                  dropFrameCount : Nat, ispOutputCount : Nat]
    /\ stream \in [Queued -> [available : Seq(Buffers),
                              waiting : Seq(Buffers \cup {Null}),
                              device : Seq(Buffers)]]
    /\ jobs \in Seq([buf : Buffers, frame : Nat])
    /\ finished \in SUBSET IspStreams
    /\ done \in [Streams -> Seq([buf : Buffers, frame : Nat])]
    /\ ready \in SUBSET Streams
    /\ posted \in Seq(Requests)
    /\ ipaFrame \in Nat
    /\ frame \in Nat

Count(seq, b) == Cardinality({i \in DOMAIN seq : seq[i] = b})
CountBuf(seq, b) == Cardinality({i \in DOMAIN seq : seq[i].buf = b})
AtIpa(field, type, b) ==
    Cardinality({i \in DOMAIN toIpa :
        toIpa[i].type = "signalIspPrepare"
          /\ toIpa[i][field] # Null /\ toIpa[i][field].buf = b})
    + Cardinality({i \in DOMAIN messages :
        messages[i].type = type /\ messages[i][field].buf = b})

Places(s, b) ==
    Count(stream[s].available, b) + Count(stream[s].waiting, b)
    + Count(stream[s].device, b) + CountBuf(done[s], b)
    + (CASE s = "Image" ->
              CountBuf(data.bayerQueue, b) + AtIpa("bayer", "runIsp", b)
              + (IF "Input" \in finished THEN CountBuf(Tail(jobs), b)
                                         ELSE CountBuf(jobs, b))
              + CountBuf(done["Input"], b)
         [] s = "Embedded" ->
              CountBuf(data.embeddedQueue, b)
              + AtIpa("embedded", "embeddedComplete", b)
         [] OTHER -> 0)

\* The ISP's input imports BufferCount buffers: one more not dequeued, and
\* runIsp would drop the image, unseen, and wait for it forever.
InputFits ==
    Len(jobs) - (IF "Input" \in finished THEN 1 ELSE 0) + Len(done["Input"])
      <= BufferCount

\* Every buffer of an external stream is in one place: the pool, the list of
\* waiting ones, the device, a queue of the handler, the IPA or the ISP. A
\* request's buffer is in one of them exactly while the request waits for it,
\* and never in the pool the streams drop frames into.
BuffersConserved ==
    /\ InputFits
    /\ data.state # "Stopped" =>
      \A s \in External :
        /\ Places(s, Internal) = BufferCount
        /\ \A r \in Requests :
             /\ Count(stream[s].available, r) = 0
             /\ r \in {data.requestQueue[i] : i \in DOMAIN data.requestQueue} =>
                  Places(s, r) = (IF s \in request[r].pending THEN 1 ELSE 0)

\* A completed request holds one frame of the sensor: the raw image, the image
\* the ISP made and the metadata come from the same one.
OneFrame ==
    data.state # "Stopped" =>
      \A r \in Requests : request[r].status = "complete" =>
        /\ request[r].metadata # NoFrame
        /\ \A s \in Requested : request[r].got[s] = request[r].metadata

\* handleState has nothing left to do whenever no handler runs: no event that
\* lets the pipeline go on is taken without looking at the state again.
Settled ==
    data.state # "Stopped" =>
      /\ ~CanRun(data)
      /\ data.state = "IpaComplete" => ~Completes(data, request) /\ ~Drops(data)

\* Outside Stopped and Idle there is a first request, which
\* checkRequestCompleted and statsMetadataComplete use unchecked.
FirstRequestExists ==
    data.state \in {"Busy", "IpaComplete"} => data.requestQueue # << >>

\* The handler is a pipe of requests.
Pipe == INSTANCE RequestPipe WITH
    started <- data.state # "Stopped",
    queue <- data.requestQueue \o posted,
    outcome <- [r \in Requests |-> request[r].status]

PipeSpec == Pipe!Spec

\* Every request is eventually completed, whatever the number of frames the
\* start wants dropped.
RequestsComplete ==
    \A r \in Requests :
      request[r].status = "queued" ~> request[r].status # "queued"

\* "we must set both Unicam streams as external ... This is because we match
\* timestamps on both streams to synchronise buffers" (raspberrypi.cpp:765): an
\* image goes to the IPA with the embedded data of its own frame.
EmbeddedMatches ==
    \A i \in DOMAIN toIpa :
      toIpa[i].type = "signalIspPrepare" /\ toIpa[i].embedded # Null =>
        toIpa[i].embedded.frame = toIpa[i].bayer.frame

\* "All pending requests are cancelled and complete synchronously in an error
\* state" (camera.cpp:1061).
StopCancels ==
    [][data.state # "Stopped" /\ data'.state = "Stopped" =>
         \A r \in Requests : request[r].status = "queued" =>
                              request'[r].status = "cancelled"]_vars
=============================================================================
