# A verification project for kcamera

kcamera is a Python extension for the Raspberry Pi camera: a `Camera` object,
live and recorded streams, and (in `kencoder/`) an H.264 encoder. It drives the
camera through a vendored copy of libcamera. This directory holds TLA+ models of
kcamera's own code and of the parts of libcamera that a running camera goes
through, the TLC runs that check them, and TLAPS proofs about them.
`PROJECT.json` maps every definition to the source lines it stands for.

## The system

    Python threads                      video thread (one per kcStart)
    kcameramodule.c  Camera             run.cpp      kcStartCameraLoop, event_loop
    streamer.c       Streamer              |             LibcameraApp (libcamera_app.hpp)
         |  (GIL)                          |  kcFrameData, kcStopped
         v                                 v
    kcamera.c   g_state: m_run, m_stopping, m_frame, m_record, m_cond,
                m_frameMutex, m_paramsMutex
         |
    framelist.c FrameList: nodes, m_readNode, m_readIndex, m_mutex

| component | state | operations | what makes it correct |
|---|---|---|---|
| frame list, `framelist.c` | linked list, the reader's link and index, phase, shift, duration | init, clear, append, next, seek, end, time | well formed; reads in order, without loss; no freed node followed; ends on the duration |
| capture core, `kcamera.c` | `g_state` | start, stop, frame data, waits, start and stop of a recording, progress, parameter update | one loop; no deadlock; waits end; no freed list reached; no stale frame |
| camera loop, `run.cpp` | `run`, `app`, controls | loop start, loop stop, event loop, setting controls | starts and stops as told; gives the camera back |
| Streamer, `streamer.c` | record or none, index | frame, seek, start, stop, progress, time, save, load, end | owns its record alone; answers |
| Camera, `kcameramodule.c` | parameters, the one live stream | stream, record, load, attributes, end | at most one; restart applies parameters |
| camera application, `libcamera_app.hpp` | requests, free requests, messages, controls | open, start, stop, complete, queue | requests and buffers circulate without loss |
| encoder, `kencoder/` | codec buffers, free input buffers, output queue | encode, poll thread, output done | buffers circulate; output belongs to input |
| libcamera: camera, requests | state of the camera, pending buffers, queued requests | start, stop, queue, complete, disconnect | requests complete in order, once |
| libcamera: threads | message lists, dispatchers, exit flags, semaphores | post, dispatch, poll, exit, wait, invoke | no wake-up lost; a stop is synchronous |
| libcamera: Raspberry Pi pipeline | requests, buffers of seven streams, a small state machine | handlers of buffers and of the IPA's signals | buffers circulate; one frame per request; requests complete |
| libcamera: the rest | | | not modelled |

How they interact: a Python call enters under the GIL and, except for the wait
of `kcNextStreamFrame`, keeps it until it returns. `kcStart` creates a video
thread, which runs the camera and calls `kcFrameData` for every frame; that
function appends to the record, or offers a frame to a live stream, and may stop
the recording or the camera from inside the video thread. The two sides share
`g_state` under two mutexes, but `m_run`, `m_stopping`, `m_record` and `run` are
also read or written without them. What is hard: two locks, a join and a
condition variable that all readers share; a thread that stops itself; flags
that another thread resets; exceptions of the camera; and a list whose reader
holds a pointer into a node. `hazards` in `PROJECT.json` lists each at its line.

## Modules

* `Playback`: what a recording promises its reader: a log that only grows and a
  cursor. Abstract, nothing of the code in it.
* `FrameList`: the list of `framelist.c` with its callers, one action per
  operation (each runs under the list's mutex). `Capture` is `kcFrameData` with
  `flistAppend`, and the `kcStopRecord` that follows a negative result. Nodes are
  numbers in the order they are appended; `live` is the set of allocated ones;
  `m_readNode` is `HeadSlot` for `&list->m_front`, or the node whose `m_next` it
  points to. A read through a freed node is a choice among what the old memory
  may do. `Log!` instantiates `Playback` with `log <- pts`, `pos <- m_readIndex`.
* `KCamera`: the threads. Python threads have a place `pc` inside a `call`, video
  threads a place `vpc`; the places are the points where the code takes a lock,
  waits, or reads a shared flag. A section under `m_frameMutex` is one action,
  since nobody blocks in it but in `pthread_cond_wait`, which gives the mutex up;
  `m_paramsMutex` is the variable `params`, being held across a join. Where the
  code dies (NULL dereference, abort, terminate) `fault` says how, and nothing
  more happens. Of a recording only what the threads wait for is here: whether
  it has a frame, an unread frame, and whether it records.
* `Streamer`: the Python objects and the memory they share. A call is one step,
  since it holds the GIL; only `record()` is two, because the video thread may end
  the recording before `createStream` looks at it. Objects and lists are places
  in memory that are used again. `discipline` is what a program takes care of, so
  that one run tells what holds for all programs from what holds for careful ones.
* `CameraApp`: `event_loop` with its `LibcameraApp` on one thread, libcamera's
  completion of requests with `requestComplete` on another, and the callers of
  `kcSet...` and `kcStopCameraLoop`. A request has the name of the buffers it was
  made with, so a mixed-up buffer can be seen. A control is a version number.
  The pipeline handler is abstract here: it completes what it has in any order,
  and `completeRequest` hands over in the order of the queue, as the code does.
* `RequestPipe`: what a pipeline handler promises: requests complete in order,
  each once, and a stop leaves none behind. Abstract.
* `RPiPipeline`: the Raspberry Pi pipeline handler, the streams of `rpi_stream.cpp`
  and `handleState`, which every handler ends with, so each handler is one action
  that contains it. The IPA is a thread that answers in order; the sensor and the
  ISP are external. `Pipe!` instantiates `RequestPipe` with the handler's own queue
  followed by what is still posted to its thread.
* `Dispatch`: the message loops of libcamera for the three threads that a camera
  uses. A message list is a `std::list`, so an iterator is the number of a node;
  posting and interrupting are two steps, as in `Thread::postMessage`.
* `Encoder`: `encode()` and the other calls of `kencoder` under the GIL, the poll
  thread, and the codec. Buffers are counted; frames carry the number of their
  call and the stamp they were given.
* `RecordFile`: `save()` and `streamer_load` over one file. A frame is its number
  and three items in the file: magic number, size, frame; `items` of them are there
  as a whole, and `part` of one more. Each turn of the loop of `save()` is an action,
  since it has the list's mutex, and `FlistAppend` of the video thread comes between.
  A write may be cut short, the process may be killed at any step (`Kill`), and the
  file may have been written by something else (`ForeignFile`).
* `MCFrameList`: constants for TLC. The other modules need none.
* `FrameListProofs`, `KCameraProofs`, `StreamerProofs`, `EncoderProofs`,
  `RPiPipelineProofs`, `RecordFileProofs`, `CameraAppProofs`, `DispatchProofs`: the
  proofs.

How they fit: `FrameList` is what `KCamera` and `RecordFile` abstract of a list, `KCamera` is
what `CameraApp` and `Streamer` abstract of the threads, `RPiPipeline` is what
`CameraApp` abstracts as its pipeline, and `Dispatch` is how the threads of
`RPiPipeline` call each other.

Operators marked "Variant" are not part of a specification. Each is a definition
of the model with one plausible mistake, against which a property is tried.

Correspondence of `KCamera`: `StartLock`, `StartInit`, `StartThread` are `kcStart`;
`StopCheck`, `StopLock`, `StopClear`, `StopJoin` are `kcStopInternal(1, ..)` and
`SelfStop...` is `kcStopInternal(0, 1)`; `NextStream`, `TakeFirst`, `TakeLoop`,
`RestoreThread` are `kcNextStreamFrame`; `WaitNext`, `WaitLast` the two waits for a
recording; `FrameTimeout`, `FrameStreamed`, `FrameRecorded`, `FrameStopRecord` are
`kcFrameData`; `Begin`, `SetApp`, `Open`, `LoopTop`, `StopCamera`, `KcStopped`,
`ClearApp`, `CloseCamera`, `CloseFails` the way of `kcStartCameraLoop`, which an
exception cuts short (`Failed`). The record
Python holds is `held`; `CallDrop` and `FlistClear` are its deallocation.

Correspondence of the newer modules: an action has the name of the function it
models (`QueueRequestDevice`, `UnicamBufferDequeue`, `HandleState`, `GetOutput`),
or of the place in it where it starts. In `CameraApp`, `Complete`, `Deliver` and
`PostMessage` are `completeRequest` and the two locked sections of
`requestComplete`; `Unplug` and `Unplugged` are the two steps of `disconnect`. In
`Encoder`, `Encode` is the first half of `encode()`, `GetOutput`, `WaitOutput` and
`GetAborted` the loop of `GetOutput`, `Raise` and `Return` the second half;
`Abort`, `Joined`, `Resized` and `Deallocated` are `keExit` and `keUpdateParams`.
In `Dispatch`, `HandleStop`, `StopThread` and `ThreadStopped` are the body of a
proxy's `stop()`, and `Take` and `Finish` are one turn of `dispatchMessages`.

## Runs that pass

| run | shows |
|---|---|
| `FrameListPlain` | without a start shift the list implements `Playback` (`PlaybackSpec`), and `CursorSound`, whatever is assigned to its attributes |
| `FrameListShift` | with both kinds of shift, durations, restarts and failing `malloc`: `ListShape`, `NoOvershoot`, `KeepsOneFrame`, `PrerollWindow`, `StartedKeepsCursor` |
| `KCameraCalls` | two Python threads, all calls, timeouts, lack of memory and every failure of the camera: `LocksExclusive`, `RunHasLoop`, `StoppingHasOwner`, `StoppingMeansIdle`, `RecordPointerValid`, `NoStrandedFrame`, `NoneMeansFinished`, and the type invariant |
| `KCameraLive` | one thread that streams and stops, a video thread that may stop itself: `frame()` and `stop()` return, `m_stopping` is reset |
| `Streamer` | objects made, copied and dropped in any order: `NoFreedMemory`, `OneOwner`, `LostOnlyInRecord` |
| `CameraApp` | requests, messages and controls with failures and an unplugged camera: `RequestsConserved`, `FreeMatchesMessages`, `ControlsApplied`, `LoopEnds` |
| `RPiPipeline` | the pipeline handler implements `RequestPipe` (`PipeSpec`); `BuffersConserved`, `OneFrame`, `FirstRequestExists`, and `RequestsComplete` |
| `Dispatch` | `WakeupKept`, `StopIsSynchronous`, `CameraDeleted`, and blocking calls return |
| `Encoder` | `BuffersConserved`, `WaitersServed`, `PacketsInOrder`, and `encode()` returns unless every capture buffer was lost |
| `RecordFile` | a load returns a prefix of what was saved, all of it from a complete file (`RoundTrip`); a save that returns has taken every frame of the list (`SaveTakesAll`) |

The type invariants of all modules but `KCamera`, whose run checks it, are proved
for all constants, so no run repeats them.

Bounds of the frame list and the threads. `MaxFrames` (4 or 5) frames per list:
one frame, the one after it, one
that is trimmed, and a pair on either side of the reader are all there; gaps of 1
and 2 against shifts -2 and 3 and durations 2 and 3 make frames fall on, before
and after each limit. `TimeMod` is 64 in place of 2^32, more than the longest
span of a run but for the restarts of the camera, where stamps go backwards and
`flistTime` wraps as in the code. `MaxVids` is 2 video threads in a
behaviour (3 in `KCameraLive`): enough for a stop and a start to overlap, which
is where the difficulties are, and for two loops at once. `InBudget` and the same guard of
`CallRecord` (a record must be left) keep a call from being made that the bound
could not finish. Two Python threads are enough for one to hold a lock or to
wait while the other acts. These runs allow the system to stop
(`CHECK_DEADLOCK FALSE`): a process that has died takes no step, and one that has
used its `MaxVids` threads may have none to take.

Bounds of the others. `Streamer`: three objects, three lists and two references
to each let an object be made where another was while two more exist. `CameraApp`:
two requests, so that one can be in a message or free while the other is in the
pipe, and two controls of up to two versions each. `RPiPipeline`: two requests,
two buffers in each stream, no or two frames dropped at the start, and two
requests queued between a start and a stop; a request that completed may be
queued again, and starts and stops are not bounded. `Dispatch`: `MaxCalls` = 6
calls and device events: open, start, work, an event, stop and close, or a second
start. `Encoder`: two input and two capture buffers, two threads, `MaxCalls` = 5
calls and one change of resolution: each buffer is used more than once, and both
capture buffers can be lost with calls to spare. `RecordFile`: five frames in all
recordings, enough for a recording that is trimmed, read and appended to during a
save, and for another one saved over its file. `Dispatch` and `Encoder` allow
the system to stop for the same two reasons; `CameraApp` says in `Ended` when it
may, and in `RPiPipeline` something can always happen.

Fairness (`FairSpec`): a thread that can take a step does at last, which is what
the scheduler and a camera that delivers frames give (video threads run under
`SCHED_RR`), and a thread that keeps asking for the GIL gets it (strong fairness
of `RestoreThread`), which CPython's forced switching gives. No call has to be
made, no wakeup without a signal, no failure and no frame timeout has to happen.
`KCameraLive` is confined to what the code can promise: one thread, and no
failures of the camera. What happens beyond that is among the findings. It is
small because `MaxVids` bounds it; it includes every interleaving of the reader
with three video threads in turn.

In `CameraApp` the two threads run (`WF` of each), and a camera that is there
completes its requests; nobody has to call anything. In `RPiPipeline` the
handler's thread, the IPA, the sensor and the ISP run, and messages are handled
between any two polls (`SF` of `Messages`: the code dispatches them before each
poll). In `Dispatch` each thread runs, and neither calls nor devices are forced.
In `Encoder` the poll thread, the codec and the calls inside `GetOutput` run, and a
call that asks for the GIL again gets it (`SF`, as for `KCamera`).

## Findings

Each is a run of its own in which TLC shows that the code does not do what its
own comments or documentation say (details in `PROJECT.json`).

| run | what happens |
|---|---|
| `KCameraDeadlock` | a `stop()` and the video thread's own stop wait for each other |
| `KCameraTwoLoops` | record, stop, record starts a second loop: two camera managers |

### Further deviations

The models show more of the kind, which have no run of their own. Each is seen by
checking the formula given, with the constants given, in the same module.

Frame list, threads and camera loop (`PyThreads = {p1}`, `Records = {r1}`,
`MaxVids = 2` unless said otherwise):

* A frame read while the list waits for a negative start shift leaves the reader's
  link in a node that the trimming (`src/framelist.c:100`) frees: `CursorLive` of
  `FrameList` with `StartShifts <- ShiftPast`, `Durations = {0}`, `Gaps = {1, 2}`.
* A loop is started after `kcStopped` but before the old loop has given up `app`
  and the camera manager (`src/run.cpp:76`), although `kcStart` waits: "if we're
  stopping we need to stop first before starting again" (`src/kcamera.c:140`):
  `StartsAfterStopped` with `Ops = {"frame"}`, `Failures = {"timeout"}`.
* A stop that comes before the new thread sets `run` (`src/run.cpp:82`) is
  overwritten, and the join never ends: `JoinEnds` under `FairSpec` with
  `Ops = {"record", "mode"}`.
* `frame()` of a live stream during a recording dereferences a record, or copies a
  frame, that is not there (`src/streamer.c:182`): `LastFrameExists` with
  `Ops = {"record", "frame"}`, `Failures = {"reserve"}`.
* A camera that does not open leaves `frame()` waiting for ever: `FrameReturns`
  with `Ops = {"frame"}`, `Failures = {"open"}`.
* A stop, or a frame, wakes one of two waiting readers (`src/kcamera.c:192`):
  `FrameReturns` with two threads and `Ops = {"frame"}`.
* A stop joins a thread that was never created, or that was joined before:
  `fault \notin {"no thread to join", "joined twice"}` with `Ops = {"frame", "stop"}`.
* `progress()` dereferences the first node before there is one:
  `fault # "null frame"` with `Ops = {"record", "progress"}`.
* `recording()` (`src/streamer.c:462`) stays 1 after a stop of the camera:
  `gil = None => \A r \in held : r \in recording => r = m_record` with
  `Ops = {"record", "stop"}`.
* Changing `start_shift` from negative to positive during the pre-roll leads to
  "Error: more than 1 frame!" (`src/framelist.c:67`): `KeepsOneFrame` with a
  negative `StartShifts` and a positive `NewShifts`.
* The duration ends a recording that still waits for `start()`:
  `[][Len(pts') > Len(pts) /\ m_startShift < 0 /\ ~attached' => m_recording # -1]_vars`
  with a negative `StartShifts` and a nonzero `Durations`.
* `Camera.duration` is documented in milliseconds (`src/kcameramodule.c:298`) and
  compared with microseconds (`src/framelist.c:109`).

Objects:

* `record()` followed by the first `stream()`: the live stream object gets the
  record (`src/kcameramodule.c:99`, `src/streamer.c:125`), though `stream()` is to
  "get live streamer object" (`src/kcameramodule.c:319`), and frees it a second
  time: `StreamIsLive` in `Streamer`; "stream first" is the rule that avoids it.
* A live stream that is used or dropped after the `Camera` object: `kcStart` and
  `kcStop` write to the freed `g_params`. "camera last" is the rule that avoids it.
* `record()` whose recording has ended before `createStream`: the list is lost and
  the program gets a live stream. `LostOnlyInRecord` says it happens only there.

Files (`RecordFile`, `MaxFrames = 5`):

* `save()` does not look at the result of `fclose` (`src/streamer.c:390`), which
  writes the end of the last frame: `answer = "saved" => Complete`.
* `streamer_load` does not look at the result of `flistAppend`
  (`src/streamer.c:110`): a frame is missing in the middle of what was loaded:
  `answer = "loaded" => ~lost`.
* A file that ends inside a magic number, or is shorter than one, loads without an
  error (`src/streamer.c:72`): `answer = "loaded" /\ ~foreign => ~part`.
* A save during the pre-roll of a negative shift keeps its place in a node that the
  trimming frees before the next turn: `~fault`.
* `recording()` of a loaded file is 1, as `flistInit` leaves it.

Camera application and libcamera:

* An unplugged camera is in the state Configured, in which completing a request is
  fatal, though "disconnected cameras are still able to complete requests"
  (`src/libcamera/src/libcamera/camera.cpp:1103`): `CompletesUnplugged`.
* A stop leaves a request "complete" though "all pending requests are cancelled"
  (`camera.cpp:1061`), when its buffers never reached a device: `StopCancels`.
* With an odd number of dropped frames the IPA gets an image with the embedded data
  of another frame (`pipeline/raspberrypi/raspberrypi.cpp:765` says they are
  matched): `EmbeddedMatches` with `DropCounts = {3}`, `BufferCount = 2`.
* `dispatchMessages` of a proxy's `stop()` runs inside the `dispatchMessages` that
  handles the stop, and erases the node the outer one goes on with (documented
  without that limit at `thread.cpp:543`): `NoDanglingIterator`.

Encoder:

* The error returns of `encode()` skip `keEncodeOutDone`
  (`src/kencoder/kencodermodule.c:103-112`): each loses a capture buffer, and when
  none is left `encode()` waits for ever. `EncodeReturns` has the exception.
* Two threads that encode may get each other's packets: both frames have the stamp
  `m_count`. One of the two is refused as stale. `PacketsInOrder` still holds.
* A change of the resolution destroys the encoder while another thread is in
  `GetOutput`, and a resolution the codec refuses leaves none: `fault`.

## Proofs

For every value of the constants that satisfies the assumption of the
module, and for any number of steps.

`FrameListProofs`. `ListInv` strengthens `TypeOK`, `ListShape` and `CursorSound`
to an inductive invariant: the nodes from `m_front` to `m_back` are the allocated
ones, a list that has lost no node has `m_front = 1` and numbers its nodes as the
reader counts them, and outside the waiting phase the reader's link is behind
`m_back`. It is needed because `ListShape` alone says nothing of the node that
the next append links, and `CursorSound` nothing of lists that were trimmed. The
trimming loop is the operator `FirstKept`, a `CHOOSE` of the least node the loop
stops at; `LeastOfInterval` shows that it exists by well-foundedness of strict
inclusion on finite sets. `AppendEffect` says what an append does, and the step
lemmas use only that. From `ListInv` follow
`TypeAndShape`, `CursorSafety` and `StartedSafety`; `Implements` shows, for
recordings that start without a shift (`StartShifts = {0}`), that `Spec` implies
`PlaybackSpec`, step by step with `PlainInv`, which adds that no node is freed.
`KeepsOne` assumes that the shift is not assigned under way (`NewShifts = {}`: a
list that waits for a negative shift may hold several frames when it is made
positive). `DurationKept` assumes that the duration is not assigned and the camera
not restarted under way, and that a duration and a gap together are below
`TimeMod`, else `flistTime` may wrap below the duration. `OvershootInv` adds that
stamps are in order and that a list that still records has not reached its
duration. `PrerollKept` needs neither: it follows from `ListInv` and `AppendTrims`.

`KCameraProofs`. `KInv` is the conjunction of `TypeOK`, `ParamsExclusive`,
`GilExclusive`, `RecordInv`, `StoppingInv`, `LoopInv` and `FrameInv`. `RecordInv` adds `RecordCalls` to
`RecordPointerValid`: what is about to be freed is neither held nor current, and
the thread that frees it is inside the extension, so by `GilExclusive` no other
call is about the same record. `StoppingInv` adds `StopMarkIdle` to
`StoppingMeansIdle`: between its `m_run = 0` and its `m_stopping = 1` the video
thread holds `m_paramsMutex`, so by `ParamsExclusive` no `kcStart` is between its
wait for `m_stopping` and the creation of its thread. `TypeStep` goes group by
group of the type invariant, because the solvers do not take all of it at once.
`LockSafety` is the two lock invariants together, as the run states them. `LoopInv`
adds to `RunHasLoop` and `StoppingHasOwner` that a caller that joins has left `m_run`
at 0, so that the thread it joins may go, and that video threads are created in
order, so that a new one takes no other's place; `VidMoves` is what all steps of a
video thread have in common for it. `FrameInv` adds to `NoStrandedFrame` that there
is a recording without `m_run` only inside a restart or a `record()` (`RecordRuns`),
and that a reader past its wait has a frame or reads what is no longer recorded
(`ReadOver`). The two lean on each other and on the GIL: a reader ends its wait
without a frame when `m_run` is 0, and holds the GIL, so that by `GilExclusive` no
call is in the middle of a restart and the recording is over. `ReadSafety` is the
action property, from the same invariant.

`StreamerProofs`. `SInv` adds to `TypeOK` that the list recorded to is allocated,
and, for a program that keeps the two rules, `Kept`: while a Streamer exists so
does the Camera, the stream object the Camera knows exists and is live, and every
list that is owned is allocated and has one owner, and so has the current one,
unless `record()` has yet to make it. `OneOwner` alone is not inductive: it needs
to know that a list that is free has no owner left. `LossSafety` is the action
property, from the same invariant.

`EncoderProofs`. `EInv` has four groups: places of threads and queues (`Base`),
the two sums that make `BuffersConserved` (over the number of calls that hold a
mapped packet, for which `HoldersEffect` gives each step's effect on that set),
`WaitersMatch`, which counts a packet for every waiting call, and `InOrder`: a
frame or packet under way that has the stamp `m_count` is newer than all that was
returned. The sums need `InputsMatch`: the codec and the poll thread between them
have as many input buffers as frames and packets.

`RPiPipelineProofs`. `PipelineInv` adds to the types, messages included, that a
device found ready has a buffer to dequeue, what each phase implies (`Phases`) and
`OneFlight`: while the handler is busy exactly one thing is under way among the
IPA's messages, the handler's, the ISP's jobs and the statistics buffers, otherwise
none. `FirstRequestExists` is not inductive without it, since the message that ends
a frame says nothing of the state the handler is in. `Implements` shows that
every handler, `HandleState` at its end included, completes the oldest request of
the queue or none at all, that a queued request joins the queue's end, and that a
stop empties it. `FrameSafety` needs a second invariant, `FramesInv`. What ties the
image, output 0 and the metadata of a request together is that the handler is idle
only when the ISP owes it no input and no output 0 (`Owed` counts per stream what is
to be sent to the ISP, in it, or finished and not dequeued; `Paid`): no other frame
goes to the IPA before, so that all there is of those streams, and all the first
request has, is of the frame whose metadata the IPA holds (`Stamped`, `InIpa`,
`FirstHas`). A request has its image and its output for an input and an output 0 that
are no longer owed. A frame to be dropped has no request to wait for; there it is the
count of the three outputs that stands for them, and it says nothing of the input:
`Dropping` needs that the ISP gives the input back before its last output, and that
`poll` serves descriptors in the order they were opened. The invariant also says that
requests that wait are distinct and untouched (`Waiting`) and that a stop leaves
nothing on the devices (`Resting`). `Paid` gives `InputSafety` as well, the part of
`BuffersConserved` about the ISP's input. `BufferSafety`, the rest of it, has a third
invariant, `PoolInv`, because counts are not inductive: whether a buffer that comes
back is the first request's depends on the order in which the stream gave them out.
What a stream has of buffers outside its pool is one queue, its `Chain`: the places
between its device and the handler's last step on them (`Ahead`), then the device,
then the requests that wait. Sensor, ISP, IPA and most handlers move a buffer from the
end of one part to the next and leave the chain as it is; a request adds to its end,
and the handler takes from its front. `InOrder` says what is in it, entry by entry: one
buffer of the stream's own, or one not chosen yet, for each frame to be dropped, then
that of each request, in the order of the queue; when the frame worked on has had its
buffer (`Had`), the first is missing. So the buffer a dropped frame gives back is the
stream's own, and goes to the first in the list of waiting ones that has none
(`ReturnBuffer`, `Refilled`), and the one a request gets is its own. `Pooled` has the
pool hold only buffers of the stream's own, all that are not in the chain. `PoolInv`
rests on `FramesInv`: `Paid` for a frame that has had its buffer once, `Waiting` for
requests that are distinct. The theorem adds up the places of a buffer
(`PlacesChain`) and counts a request in its chain (`OnceInOrder`). The model's
constants are assumed to keep a null pointer apart from a frame.

`RecordFileProofs`. `FileInv` adds to `RoundTrip` where a call under way is: the
frames a save has written end at the node the reader is in and start at one that
was the front (`Saving`), so that nothing left means nothing missed; and a load has
read as many whole frames as it has appended (`Loading`). `SavesAll` follows,
because only `SaveClose` answers "saved".

`CameraAppProofs`. `AppInv` adds to the types where the loop's thread and the
pipeline handler may be at once (`Places`), that a request is in one of unqueued,
posted, queued and free, once (`OnePlace`), that it keeps its buffers until it is
free (`Buffered`), the equation of `FreeMatchesMessages` (`Matched`) and, while frames
flow, that the four places have all requests between them (`Counted`).
`RequestsConserved` is not inductive: which requests a stop may leave depends on
whether the handler has stopped, and a full count does not say that nothing is
there twice. `Cancels` is what `Deliver` needs: a request that is handed over while frames
flow was not cancelled, so `requestComplete` does not drop it. The number of requests
is whatever `StartCamera` allocates, which the module assumes to be finite. A request
that is asked for must be free for the loop to reuse it: `Matched` gives
`QueueRequest` one for every message, with that message's buffers. All of it holds
when the camera is unplugged at any step, though not that the requests come back.

`DispatchProofs`. `DispatchInv` says of each thread where a `dispatchMessages` can be
(`FramesPlaced`; one may be inside another only in the camera manager's thread,
while it stops the proxy), that lists are in the order of posting and an iterator
is at the first message or the end (`ItersFirst`), so that no message is skipped;
`Waking`, the invariant form of `WakeupKept`, which has to speak of the time between
the end of the dispatching and `poll()`; and for the proxy that at most one of start
and stop is under way (`Protocol`), that a blocking call is the last message in the
IPA's list (`IpaCalls`), and hence that the list is empty when the thread is joined
(`Signals`). `StopIsSynchronous` needs all of these: that no signal is left after the
nested `dispatchMessages` relies on the IPA's thread having ended, which relies on
`exit()` being seen, which is `WakeupKept`'s side of it. The theorems hold up to the
fault found by `NoDanglingIterator` and after it, when nothing happens any more.

Only model-checked: all liveness (`RequestsComplete`, `ControlsApplied`, `LoopEnds`,
`CallsReturn`, `EncodeReturns` and the three of `KCameraLive`), which is out of the
prover's reach. Every safety invariant and every action or refinement property of the
runs that pass is a theorem.

## Not modelled

* The values of parameters and controls, frame rates and the measured rate.
* What is in a frame, on the way to a file and back.
* `kcInit` of a second `Camera` object, which initialises the mutexes again.
* The bitrate and the mode of the encoder. (`keInit` does not apply the bitrate,
  nor does a restart.)
* Of the Raspberry Pi pipeline: configuration, `DelayedControls`, buffers that are
  exported by the application, the matching of embedded data by time stamp (with
  the raw stream kcamera asks for, the first buffer is taken), a second start
  without a new configuration.
* Of libcamera's threads: timers, `removeMessages` and the moving of objects.
* The rest of libcamera: other pipelines, the Android layer, IPC, the tuning
  algorithms, the kernel's headers. It is most of the source files that the
  repository holds, is vendored, and hardly any of it runs under kcamera.
* Memory that is only lost (a thread never joined, a frame never freed).
* `flistVerify`, which nobody calls; printing; the numpy side of `frame()`.

## Plan

Done: frame list, threads, objects, files, camera application, encoder, libcamera's
requests, threads and Raspberry Pi pipeline, and the proofs of their safety. Next, in
this order:

1. `DelayedControls`, and with it the way of a control from `RPiPipeline` to a frame.
2. Configuration and the buffers' ids over several starts.
