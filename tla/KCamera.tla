------------------------------ MODULE KCamera -------------------------------
(***************************************************************************)
(* The capture core of kcamera.c with its two kinds of threads: Python     *)
(* threads that call into the extension under the GIL, and the video       *)
(* threads of run.cpp that kcStart creates.  They share g_state, the       *)
(* record list and the camera application object of run.cpp.               *)
(*                                                                         *)
(* A section under m_frameMutex is one action (nobody blocks inside one    *)
(* except in pthread_cond_wait, which gives the mutex up); m_paramsMutex   *)
(* is a variable, because it is held across pthread_join and across the    *)
(* wait for m_stopping.  fault names the way the process died; then        *)
(* nothing happens any more.  The state of one recording is here only what *)
(* the threads wait for; FrameList has the rest.                           *)
(***************************************************************************)
EXTENDS Integers, FiniteSets

CONSTANTS
  PyThreads,  (* the Python threads                                        *)
  Records,    (* the FrameList objects that malloc can hand out            *)
  MaxVids,    (* bound: video threads created in a behaviour               *)
  Ops,        (* the calls the program makes                               *)
  Failures,   (* what may go wrong: see FailureKinds                       *)
  None        (* no thread, no record, no object                           *)

FailureKinds == {"timeout", "memory", "reserve", "open", "camera", "stopcamera"}

Calls == {"frame", "stop", "record", "stopRecord", "read", "drop", "mode", "progress"}

Vids == 1..MaxVids

ASSUME ConstantsAssumption ==
  /\ MaxVids \in Nat
  /\ Ops \subseteq Calls
  /\ Failures \subseteq FailureKinds
  /\ None \notin PyThreads \cup Records \cup Vids
  /\ PyThreads \cap Vids = {}

VARIABLES
  gil,           \* the Python thread that holds the interpreter lock
  params,        \* the thread that holds m_paramsMutex
  waiting,       \* the Python threads blocked in pthread_cond_wait(m_cond)
  m_run, m_stopping,
  m_thread,      \* 0 before the first pthread_create, then the newest video thread
  m_frame,       \* whether a frame for streaming is there
  m_frameTimer,  \* whether the 5 s timer is set
  m_record,
  run, app,      \* run.cpp: the loop's flag; the thread whose LibcameraRaw app points to
  manager,       \* the thread whose CameraManager exists
  alloc,         \* records that are allocated
  held,          \* records that a Streamer object owns
  recording,     \* records whose m_recording is not 0
  back,          \* records with a frame (m_back is not NULL)
  unread,        \* records with a frame behind the reader's place
  pc, call, arg, \* per Python thread: where it is, in which call, on which record
  vpc,           \* per video thread: where it is
  stop,          \* per video thread: kcFrameData's local of that name
  fault          \* how the process died, or "none"

sync == <<gil, params, waiting>>
lists == <<alloc, held, recording, back, unread>>
loop == <<run, app, manager>>
state == <<m_run, m_stopping, m_thread, m_frame, m_frameTimer, m_record>>
python == <<pc, call, arg>>
video == <<vpc, stop>>
vars == <<sync, state, loop, lists, python, video, fault>>

Init ==
  /\ gil = None /\ params = None /\ waiting = {}
  /\ m_run = FALSE /\ m_stopping = FALSE /\ m_thread = 0
  /\ m_frame = FALSE /\ m_frameTimer = FALSE /\ m_record = None
  /\ run = FALSE /\ app = None /\ manager = None
  /\ alloc = {} /\ held = {} /\ recording = {} /\ back = {} /\ unread = {}
  /\ pc = [t \in PyThreads |-> "idle"]
  /\ call = [t \in PyThreads |-> "none"]
  /\ arg = [t \in PyThreads |-> None]
  /\ vpc = [v \in Vids |-> "unborn"]
  /\ stop = [v \in Vids |-> FALSE]
  /\ fault = "none"

-----------------------------------------------------------------------------
(* Control of the Python threads.  A call holds the GIL until it returns;  *)
(* only frame() gives it up, while it waits for a streamed frame.          *)
At(t, where) == pc[t] = where /\ fault = "none"

Goto(t, where) == pc' = [pc EXCEPT ![t] = where] /\ UNCHANGED <<gil, call, arg>>

\* MaxVids is a bound of the model: a call that may create a video thread is
\* made only when there is one left for it and for the calls under way.
MayStart == {"frame", "record", "mode"}
Started == {"takeFirst", "takeLoop", "restoreThread", "createStream"}
InBudget(op) ==
  op \in MayStart =>
    m_thread + Cardinality({u \in PyThreads : call[u] \in MayStart /\ pc[u] \notin Started})
      < MaxVids

Enter(t, op, r, where) ==
  /\ At(t, "idle") /\ gil = None
  /\ op \in Ops /\ InBudget(op)
  /\ gil' = t
  /\ pc' = [pc EXCEPT ![t] = where]
  /\ call' = [call EXCEPT ![t] = op]
  /\ arg' = [arg EXCEPT ![t] = r]

Return(t) ==
  /\ gil' = (IF gil = t THEN None ELSE gil)
  /\ pc' = [pc EXCEPT ![t] = "idle"]
  /\ call' = [call EXCEPT ![t] = "none"]
  /\ arg' = [arg EXCEPT ![t] = None]

Die(how) == fault' = how

\* Variant: the signal is forgotten.
SignalForgotten == UNCHANGED waiting

(* pthread_cond_signal wakes one of the waiting threads, if there is one.  *)
Signal ==
  \/ waiting = {} /\ UNCHANGED waiting
  \/ \E t \in waiting : waiting' = waiting \ {t}

(* pthread_cond_wait may return without a signal. *)
SpuriousWakeup(t) ==
  /\ fault = "none"
  /\ t \in waiting
  /\ waiting' = waiting \ {t}
  /\ UNCHANGED <<gil, params, state, loop, lists, python, video, fault>>

(* kcStopRecord, one section under m_frameMutex. *)
KcStopRecord ==
  /\ recording' = recording \ {m_record}
  /\ m_record' = None
  /\ UNCHANGED <<m_run, m_stopping, m_thread, m_frame, m_frameTimer>>
  /\ UNCHANGED <<alloc, held, back, unread>>

-----------------------------------------------------------------------------
(* streamer_frame of a live stream: while something records it copies the  *)
(* newest recorded frame, otherwise it takes the next streamed one.        *)
CallFrame(t) ==
  /\ Enter(t, "frame", m_record, IF m_record # None THEN "lastFirst" ELSE "nextStream")
  /\ UNCHANGED <<params, waiting, state, loop, lists, video, fault>>

(* kcWaitLastRecordFrame tests m_record once, before its loop. *)
WaitLast(t) ==
  /\ At(t, "lastFirst") \/ At(t, "lastLoop")
  /\ t \notin waiting
  /\ IF m_record = None /\ pc[t] = "lastLoop"
     THEN Die("null record") /\ UNCHANGED <<sync, python>>
     ELSE IF m_record # None /\ m_record \notin back /\ m_run
     THEN /\ waiting' = waiting \cup {t}
          /\ Goto(t, "lastLoop")
          /\ UNCHANGED <<params, fault>>
     ELSE /\ Goto(t, "copyLast")
          /\ UNCHANGED <<params, waiting, fault>>
  /\ UNCHANGED <<state, loop, lists, video>>

(* kcCopyFrame of the record's last frame; without one it copies NULL. *)
CopyLast(t) ==
  /\ At(t, "copyLast")
  /\ IF arg[t] \in back
     THEN Return(t) /\ UNCHANGED fault
     ELSE Die("null frame") /\ UNCHANGED <<gil, python>>
  /\ UNCHANGED <<params, waiting, state, loop, lists, video>>

(* kcNextStreamFrame reads m_run without a lock. *)
NextStream(t) ==
  /\ At(t, "nextStream")
  /\ Goto(t, IF m_run THEN "takeFirst" ELSE "startLock")
  /\ UNCHANGED <<params, waiting, state, loop, lists, video, fault>>

\* Variant: the GIL is kept during the wait.
TakeFirstKeepsGil(t) ==
  /\ At(t, "takeFirst")
  /\ m_frameTimer' = TRUE
  /\ m_frame' = FALSE
  /\ IF ~m_frame /\ m_run
     THEN waiting' = waiting \cup {t} /\ Goto(t, "takeLoop")
     ELSE Return(t) /\ UNCHANGED waiting
  /\ UNCHANGED <<params, m_run, m_stopping, m_thread, m_record, loop, lists, video, fault>>

(* The section of kcNextStreamFrame under m_frameMutex, up to its wait.    *)
(* The GIL is given up only when there is something to wait for.           *)
TakeFirst(t) ==
  /\ At(t, "takeFirst")
  /\ m_frameTimer' = TRUE
  /\ m_frame' = FALSE
  /\ IF ~m_frame /\ m_run
     THEN /\ waiting' = waiting \cup {t}
          /\ gil' = None
          /\ pc' = [pc EXCEPT ![t] = "takeLoop"]
          /\ UNCHANGED <<call, arg>>
     ELSE Return(t) /\ UNCHANGED waiting
  /\ UNCHANGED <<params, m_run, m_stopping, m_thread, m_record, loop, lists, video, fault>>

TakeLoop(t) ==
  /\ At(t, "takeLoop") /\ t \notin waiting
  /\ m_frame' = FALSE
  /\ IF ~m_frame /\ m_run
     THEN waiting' = waiting \cup {t} /\ UNCHANGED <<gil, python>>
     ELSE Goto(t, "restoreThread") /\ UNCHANGED waiting
  /\ UNCHANGED <<params, m_run, m_stopping, m_thread, m_frameTimer, m_record>>
  /\ UNCHANGED <<loop, lists, video, fault>>

(* PyEval_RestoreThread, and the return to Python. *)
RestoreThread(t) ==
  /\ At(t, "restoreThread") /\ gil = None
  /\ Return(t)
  /\ UNCHANGED <<params, waiting, state, loop, lists, video, fault>>

-----------------------------------------------------------------------------
(* kcStart: lock, wait until a stop that is under way has ended, reset the *)
(* state, create the thread, unlock.                                       *)
StartLock(t) ==
  /\ At(t, "startLock") /\ params = None
  /\ params' = t
  /\ Goto(t, "startInit")
  /\ UNCHANGED <<waiting, state, loop, lists, video, fault>>

\* Variant: a stop that is under way is not waited for.
StartInitNoWait(t) ==
  /\ At(t, "startInit")
  /\ m_run' = TRUE /\ m_frame' = FALSE /\ m_frameTimer' = FALSE
  /\ Goto(t, "startThread")
  /\ UNCHANGED <<params, waiting, m_stopping, m_thread, m_record, loop, lists, video, fault>>

\* Variant: m_paramsMutex is unlocked before the thread is created.
StartInitUnlocks(t) ==
  /\ At(t, "startInit") /\ ~m_stopping
  /\ m_run' = TRUE /\ m_frame' = FALSE /\ m_frameTimer' = FALSE
  /\ params' = None
  /\ Goto(t, "startThread")
  /\ UNCHANGED <<waiting, m_stopping, m_thread, m_record, loop, lists, video, fault>>

StartInit(t) ==
  /\ At(t, "startInit") /\ ~m_stopping
  /\ m_run' = TRUE /\ m_frame' = FALSE /\ m_frameTimer' = FALSE
  /\ Goto(t, "startThread")
  /\ UNCHANGED <<params, waiting, m_stopping, m_thread, m_record, loop, lists, video, fault>>

StartThread(t) ==
  /\ At(t, "startThread") /\ m_thread < MaxVids
  /\ m_thread' = m_thread + 1
  /\ vpc' = [vpc EXCEPT ![m_thread + 1] = "begin"]
  /\ params' = None
  /\ \/ call[t] = "frame" /\ Goto(t, "takeFirst")
     \/ call[t] = "record" /\ Goto(t, "createStream")
     \/ call[t] = "mode" /\ Return(t)
  /\ UNCHANGED <<waiting, m_run, m_stopping, m_frame, m_frameTimer, m_record>>
  /\ UNCHANGED <<loop, lists, stop, fault>>

-----------------------------------------------------------------------------
(* kcStop, for stop() of a live stream, the end of its object and of the   *)
(* Camera object: kcStopInternal(1, 1).  A mode change restarts a running  *)
(* camera with kcStopInternal(1, 0) and kcStart.                           *)
CallStop(t) ==
  /\ Enter(t, "stop", None, "stopCheck")
  /\ UNCHANGED <<params, waiting, state, loop, lists, video, fault>>

AfterStop(t) == IF call[t] = "mode" THEN Goto(t, "startLock") ELSE Return(t)

StopCheck(t) ==
  /\ At(t, "stopCheck")
  /\ IF m_stopping THEN AfterStop(t) ELSE Goto(t, "stopLock")
  /\ UNCHANGED <<params, waiting, state, loop, lists, video, fault>>

StopLock(t) ==
  /\ At(t, "stopLock") /\ params = None
  /\ params' = t
  /\ run' = FALSE
  /\ Goto(t, "stopClear")
  /\ UNCHANGED <<waiting, state, app, manager, lists, video, fault>>

\* Variant: a signalled stop leaves the recording current.
StopStateKeepsRecord(signal) ==
  /\ m_run' = FALSE
  /\ IF signal THEN m_frame' = FALSE /\ Signal ELSE UNCHANGED <<m_frame, waiting>>
  /\ UNCHANGED <<m_stopping, m_thread, m_frameTimer, m_record, lists>>

(* The section of kcStopInternal under m_frameMutex. *)
StopState(signal) ==
  /\ m_run' = FALSE
  /\ IF signal
     THEN m_frame' = FALSE /\ m_record' = None /\ Signal
     ELSE UNCHANGED <<m_frame, m_record, waiting>>
  /\ UNCHANGED <<m_stopping, m_thread, m_frameTimer, lists>>

StopClear(t) ==
  /\ At(t, "stopClear")
  /\ StopState(call[t] # "mode")
  /\ Goto(t, "stopJoin")
  /\ UNCHANGED <<params, loop, video, fault>>

(* A video thread that has ended, or that an exception ends.               *)
Ended == {"exited", "joined", "failed", "failedJoined"}
Failed(v) == vpc[v] \in {"thrown", "failed", "failedJoined"}

(* pthread_join(m_thread).  Joining nothing dereferences a null pthread_t; *)
(* joining a second time is undefined: it returns, or the process dies.    *)
StopJoin(t) ==
  /\ At(t, "stopJoin")
  /\ \/ /\ m_thread = 0
        /\ Die("no thread to join")
        /\ UNCHANGED <<gil, params, python, vpc>>
     \/ /\ m_thread # 0 /\ vpc[m_thread] \in {"joined", "failedJoined"}
        /\ Die("joined twice")
        /\ UNCHANGED <<gil, params, python, vpc>>
     \/ /\ m_thread # 0 /\ vpc[m_thread] \in Ended
        /\ vpc' = [vpc EXCEPT ![m_thread] = IF Failed(m_thread) THEN "failedJoined" ELSE "joined"]
        /\ params' = None
        /\ AfterStop(t)
        /\ UNCHANGED fault
  /\ UNCHANGED <<waiting, state, loop, lists, stop>>

-----------------------------------------------------------------------------
(* camera_record: end the current recording, make a new list, start the    *)
(* camera, and wrap whatever m_record is by then in a Streamer.            *)
CallRecord(t) ==
  /\ Enter(t, "record", None, "startRecord")
  /\ Records \ alloc # {}  \* bound of the model, as in InBudget
  /\ KcStopRecord
  /\ UNCHANGED <<params, waiting, loop, video, fault>>

(* kcStartRecord; only a holder of the GIL sets m_record, so its test of   *)
(* m_record (return -1) cannot fail here.                                  *)
StartRecord(t) ==
  /\ At(t, "startRecord") /\ m_record = None
  /\ \E r \in Records \ alloc :
       /\ alloc' = alloc \cup {r}
       /\ recording' = recording \cup {r}
       /\ m_record' = r
  /\ Goto(t, "startLock")
  /\ UNCHANGED <<params, waiting, m_run, m_stopping, m_thread, m_frame, m_frameTimer>>
  /\ UNCHANGED <<loop, held, back, unread, video, fault>>

\* Variant: m_record is taken for a recording without a test for NULL.
CreateStreamUntested(t) ==
  /\ At(t, "createStream")
  /\ held' = held \cup {m_record}
  /\ Return(t)
  /\ UNCHANGED <<params, waiting, state, loop, alloc, recording, back, unread, video, fault>>

CreateStream(t) ==
  /\ At(t, "createStream")
  /\ held' = held \cup ({m_record} \ {None})
  /\ Return(t)
  /\ UNCHANGED <<params, waiting, state, loop, alloc, recording, back, unread, video, fault>>

(* streamer_stop of a recording ends the recording that is on, whichever.  *)
CallStopRecord(t) ==
  /\ At(t, "idle") /\ gil = None /\ "stopRecord" \in Ops
  /\ held # {}
  /\ KcStopRecord
  /\ UNCHANGED <<sync, python, loop, video, fault>>

(* streamer_frame of a recording: kcWaitNextRecordFrame keeps the GIL. *)
CallRead(t) ==
  /\ \E r \in held : Enter(t, "read", r, "waitNext")
  /\ UNCHANGED <<params, waiting, state, loop, lists, video, fault>>

WaitNext(t) ==
  /\ At(t, "waitNext") /\ t \notin waiting
  /\ IF arg[t] \notin unread /\ m_run /\ arg[t] = m_record
     THEN waiting' = waiting \cup {t} /\ UNCHANGED <<gil, python>>
     ELSE Goto(t, "flistNext") /\ UNCHANGED waiting
  /\ UNCHANGED <<params, state, loop, lists, video, fault>>

\* One frame further; FrameList tells whether another one follows.
ReadNext(t) ==
  /\ At(t, "flistNext")
  /\ unread' \in {unread, unread \ {arg[t]}}
  /\ Return(t)
  /\ UNCHANGED <<params, waiting, state, loop, alloc, held, recording, back, video, fault>>

\* Variant: a recording that is on is freed without being stopped.
CallDropNoStop(t) ==
  /\ \E r \in held :
       /\ Enter(t, "drop", r, "flistClear")
       /\ held' = held \ {r}
  /\ UNCHANGED <<params, waiting, state, loop, alloc, recording, back, unread, video, fault>>

(* streamer_dealloc of a recording: stop it if it is the one that is on,   *)
(* then free it.                                                           *)
CallDrop(t) ==
  /\ \E r \in held :
       /\ Enter(t, "drop", r, "flistClear")
       /\ held' = held \ {r}
       /\ IF r = m_record
          THEN /\ recording' = recording \ {r}
               /\ m_record' = None
          ELSE UNCHANGED <<recording, m_record>>
  /\ UNCHANGED <<params, waiting, m_run, m_stopping, m_thread, m_frame, m_frameTimer>>
  /\ UNCHANGED <<loop, alloc, back, unread, video, fault>>

FlistClear(t) ==
  /\ At(t, "flistClear")
  /\ alloc' = alloc \ {arg[t]}
  /\ recording' = recording \ {arg[t]}
  /\ back' = back \ {arg[t]}
  /\ unread' = unread \ {arg[t]}
  /\ Return(t)
  /\ UNCHANGED <<params, waiting, state, loop, held, video, fault>>

(* kcRecordProgress reads m_record without a lock, again after the free    *)
(* memory was read from a file, and flistTime needs a first frame.         *)
CallProgress(t) ==
  /\ m_run /\ m_record # None
  /\ Enter(t, "progress", None, "flistTime")
  /\ UNCHANGED <<params, waiting, state, loop, lists, video, fault>>

ProgressTime(t) ==
  /\ At(t, "flistTime")
  /\ IF m_record = None
     THEN Die("null record") /\ UNCHANGED <<gil, python>>
     ELSE \/ Return(t) /\ UNCHANGED fault
          \/ /\ m_record \notin back
             /\ Die("null frame") /\ UNCHANGED <<gil, python>>
  /\ UNCHANGED <<params, waiting, state, loop, lists, video>>

(* An attribute that needs a restart: camera_setAttr and kcUpdateParams.   *)
CallMode(t) ==
  /\ Enter(t, "mode", None, "updateParams")
  /\ UNCHANGED <<params, waiting, state, loop, lists, video, fault>>

UpdateParams(t) ==
  /\ At(t, "updateParams") /\ params = None
  /\ Goto(t, "restartCheck")
  /\ UNCHANGED <<params, waiting, state, loop, lists, video, fault>>

RestartCheck(t) ==
  /\ At(t, "restartCheck")
  /\ Goto(t, IF m_run THEN "stopCheck" ELSE "copyParams")
  /\ UNCHANGED <<params, waiting, state, loop, lists, video, fault>>

CopyParams(t) ==
  /\ At(t, "copyParams") /\ params = None
  /\ Return(t)
  /\ UNCHANGED <<params, waiting, state, loop, lists, video, fault>>

-----------------------------------------------------------------------------
(* Control of a video thread: kcStartCameraLoop and event_loop of run.cpp. *)
VidAt(v, where) == vpc[v] = where /\ fault = "none"

VidGoto(v, where) == vpc' = [vpc EXCEPT ![v] = where]

\* Variant: run keeps the value the last stop gave it.
BeginKeepsRun(v) ==
  /\ VidAt(v, "begin")
  /\ VidGoto(v, "setApp")
  /\ UNCHANGED <<sync, state, loop, lists, python, stop, fault>>

Begin(v) ==
  /\ VidAt(v, "begin")
  /\ run' = TRUE
  /\ VidGoto(v, "setApp")
  /\ UNCHANGED <<sync, state, app, manager, lists, python, stop, fault>>

SetApp(v) ==
  /\ VidAt(v, "setApp")
  /\ app' = v
  /\ VidGoto(v, "open")
  /\ UNCHANGED <<sync, state, run, manager, lists, python, stop, fault>>

(* event_loop reaches the camera through the global app: with another      *)
(* thread's object, or none, there it dies.                                *)
LosesApp(v) ==
  /\ vpc[v] \in {"open", "loop", "wait", "stopCamera"} /\ fault = "none"
  /\ app # v
  /\ Die("wrong app")
  /\ UNCHANGED <<sync, state, loop, lists, python, video>>

(* OpenCamera, ConfigureVideo and StartCamera.  A second CameraManager     *)
(* aborts the process; a camera that does not open is an exception, which  *)
(* leaves app pointing to the object that goes away.                       *)
Open(v) ==
  /\ VidAt(v, "open") /\ app = v
  /\ IF manager # None
     THEN Die("second camera manager") /\ UNCHANGED <<manager, vpc>>
     ELSE /\ manager' = v
          /\ \/ VidGoto(v, "loop")
             \/ "open" \in Failures /\ VidGoto(v, "thrown")
          /\ UNCHANGED fault
  /\ UNCHANGED <<sync, state, run, app, lists, python, stop>>

\* Variant: the loop does not look at run.
LoopTopEndless(v) ==
  /\ VidAt(v, "loop") /\ app = v
  /\ VidGoto(v, "wait")
  /\ UNCHANGED <<sync, state, loop, lists, python, stop, fault>>

LoopTop(v) ==
  /\ VidAt(v, "loop") /\ app = v
  /\ VidGoto(v, IF run THEN "wait" ELSE "stopCamera")
  /\ UNCHANGED <<sync, state, loop, lists, python, stop, fault>>

(* A message that is no completed request, or no buffer, is an exception.  *)
CameraFails(v) ==
  /\ "camera" \in Failures
  /\ VidAt(v, "wait") /\ app = v
  /\ VidGoto(v, "thrown")
  /\ UNCHANGED <<sync, state, loop, lists, python, stop, fault>>

-----------------------------------------------------------------------------
(* kcFrameData: one section under m_frameMutex, then kcStopRecord and      *)
(* kcStopInternal as its locals ask for.                                   *)
AfterFrame(v, stopRecord, stopping) ==
  /\ VidGoto(v, IF stopRecord THEN "stopRecord" ELSE IF stopping THEN "stopCheck" ELSE "loop")
  /\ stop' = [stop EXCEPT ![v] = stopping]

(* Nobody took a frame for five seconds. *)
FrameTimeout(v) ==
  /\ "timeout" \in Failures
  /\ VidAt(v, "wait") /\ app = v
  /\ m_record = None /\ m_frameTimer
  /\ AfterFrame(v, FALSE, TRUE)
  /\ UNCHANGED <<sync, state, loop, lists, python, fault>>

\* Whether a frame is stored at all; variant: m_run is not looked at.
StoringAnyway == TRUE
Storing == m_run

(* A frame to stream: one that is older than m_maxLatency makes room.      *)
FrameStreamed(v) ==
  /\ VidAt(v, "wait") /\ app = v
  /\ m_record = None
  /\ \E expired \in BOOLEAN :
       IF Storing /\ (m_frame => expired)
       THEN \/ m_frame' = TRUE /\ Signal /\ AfterFrame(v, FALSE, FALSE)
            \/ /\ "memory" \in Failures
               /\ m_frame' = FALSE
               /\ AfterFrame(v, TRUE, TRUE)
               /\ UNCHANGED waiting
       ELSE /\ m_frame' = (m_frame /\ ~expired)
            /\ AfterFrame(v, FALSE, FALSE)
            /\ UNCHANGED waiting
  /\ UNCHANGED <<gil, params, m_run, m_stopping, m_thread, m_frameTimer, m_record>>
  /\ UNCHANGED <<loop, lists, python, fault>>

(* A frame to record.  flistAppend tosses it when m_recording is 0, and    *)
(* reports the frame that reaches the duration; the memory reserve ends a  *)
(* recording too.  Memory may lack for the frame (the first disjunct) or   *)
(* for its node in flistAppend (the third).                                *)
FrameRecorded(v) ==
  /\ VidAt(v, "wait") /\ app = v
  /\ m_record # None
  /\ \/ /\ "memory" \in Failures /\ m_run
        /\ AfterFrame(v, TRUE, TRUE)
        /\ UNCHANGED <<waiting, recording, back, unread>>
     \/ /\ m_run
        /\ \E last \in BOOLEAN, low \in BOOLEAN :
             /\ last => m_record \in recording
             /\ low => "reserve" \in Failures
             /\ recording' = (IF last THEN recording \ {m_record} ELSE recording)
             /\ AfterFrame(v, last \/ low, FALSE)
        /\ IF m_record \in recording
           THEN back' = back \cup {m_record} /\ unread' = unread \cup {m_record}
           ELSE UNCHANGED <<back, unread>>
        /\ Signal
     \/ /\ "memory" \in Failures /\ m_run /\ m_record \in recording
        /\ AfterFrame(v, TRUE, FALSE)
        /\ Signal
        /\ UNCHANGED <<recording, back, unread>>
     \/ /\ ~m_run
        /\ \E low \in BOOLEAN :
             /\ low => "reserve" \in Failures
             /\ AfterFrame(v, low, FALSE)
        /\ UNCHANGED <<waiting, recording, back, unread>>
  /\ UNCHANGED <<gil, params, state, loop, alloc, held, python, fault>>

FrameStopRecord(v) ==
  /\ VidAt(v, "stopRecord")
  /\ KcStopRecord
  /\ VidGoto(v, IF stop[v] THEN "stopCheck" ELSE "loop")
  /\ UNCHANGED <<sync, loop, python, stop, fault>>

(* kcStopInternal(0, 1), in the video thread itself. *)
SelfStopCheck(v) ==
  /\ VidAt(v, "stopCheck")
  /\ VidGoto(v, IF m_stopping THEN "loop" ELSE "stopLock")
  /\ UNCHANGED <<sync, state, loop, lists, python, stop, fault>>

SelfStopLock(v) ==
  /\ VidAt(v, "stopLock") /\ params = None
  /\ params' = v
  /\ run' = FALSE
  /\ VidGoto(v, "stopClear")
  /\ UNCHANGED <<gil, waiting, state, app, manager, lists, python, stop, fault>>

SelfStopClear(v) ==
  /\ VidAt(v, "stopClear")
  /\ StopState(TRUE)
  /\ VidGoto(v, "stopMark")
  /\ UNCHANGED <<gil, params, loop, python, stop, fault>>

SelfStopMark(v) ==
  /\ VidAt(v, "stopMark")
  /\ m_stopping' = TRUE
  /\ params' = None
  /\ VidGoto(v, "loop")
  /\ UNCHANGED <<gil, waiting, m_run, m_thread, m_frame, m_frameTimer, m_record>>
  /\ UNCHANGED <<loop, lists, python, stop, fault>>

-----------------------------------------------------------------------------
(* The end of event_loop and of kcStartCameraLoop. *)
StopCamera(v) ==
  /\ VidAt(v, "stopCamera") /\ app = v
  /\ \/ VidGoto(v, "stopped")
     \/ "stopcamera" \in Failures /\ VidGoto(v, "thrown")
  /\ UNCHANGED <<sync, state, loop, lists, python, stop, fault>>

\* Variant: m_stopping is not reset.
KcStoppedForgets(v) ==
  /\ VidAt(v, "stopped")
  /\ VidGoto(v, "clearApp")
  /\ UNCHANGED <<sync, state, loop, lists, python, stop, fault>>

KcStopped(v) ==
  /\ VidAt(v, "stopped")
  /\ m_stopping' = FALSE
  /\ VidGoto(v, "clearApp")
  /\ UNCHANGED <<sync, m_run, m_thread, m_frame, m_frameTimer, m_record>>
  /\ UNCHANGED <<loop, lists, python, stop, fault>>

ClearApp(v) ==
  /\ VidAt(v, "clearApp")
  /\ app' = None
  /\ VidGoto(v, "unwind")
  /\ UNCHANGED <<sync, state, run, manager, lists, python, stop, fault>>

(* The destructor of LibcameraRaw; the thread's function returns.  After   *)
(* an exception the destructor has the camera to stop, and an exception    *)
(* out of it ends the process.                                             *)
CloseCamera(v) ==
  /\ VidAt(v, "unwind") \/ VidAt(v, "thrown")
  /\ manager' = (IF manager = v THEN None ELSE manager)
  /\ VidGoto(v, IF Failed(v) THEN "failed" ELSE "exited")
  /\ UNCHANGED <<sync, state, run, app, lists, python, stop, fault>>

CloseFails(v) ==
  /\ "stopcamera" \in Failures
  /\ VidAt(v, "thrown")
  /\ Die("terminate")
  /\ UNCHANGED <<sync, state, loop, lists, python, video>>

-----------------------------------------------------------------------------
PyCall(t) ==
  \/ CallFrame(t) \/ CallStop(t) \/ CallRecord(t) \/ CallStopRecord(t)
  \/ CallRead(t) \/ CallDrop(t) \/ CallProgress(t) \/ CallMode(t)

PyStep(t) ==
  \/ WaitLast(t) \/ CopyLast(t) \/ NextStream(t) \/ TakeFirst(t) \/ TakeLoop(t)
  \/ RestoreThread(t)
  \/ StartLock(t) \/ StartInit(t) \/ StartThread(t)
  \/ StopCheck(t) \/ StopLock(t) \/ StopClear(t) \/ StopJoin(t)
  \/ StartRecord(t) \/ CreateStream(t)
  \/ WaitNext(t) \/ ReadNext(t) \/ FlistClear(t) \/ ProgressTime(t)
  \/ UpdateParams(t) \/ RestartCheck(t) \/ CopyParams(t)

VidStep(v) ==
  \/ Begin(v) \/ SetApp(v) \/ Open(v) \/ LosesApp(v) \/ LoopTop(v) \/ CameraFails(v)
  \/ FrameTimeout(v) \/ FrameStreamed(v) \/ FrameRecorded(v) \/ FrameStopRecord(v)
  \/ SelfStopCheck(v) \/ SelfStopLock(v) \/ SelfStopClear(v) \/ SelfStopMark(v)
  \/ StopCamera(v) \/ KcStopped(v) \/ ClearApp(v) \/ CloseCamera(v)
  \/ CloseFails(v)

Next ==
  \/ \E t \in PyThreads : PyCall(t) \/ PyStep(t) \/ SpuriousWakeup(t)
  \/ \E v \in Vids : VidStep(v)

Spec == Init /\ [][Next]_vars

(* Threads keep running, the camera keeps delivering, and CPython hands    *)
(* the GIL to a thread that keeps asking for it.  No call need be made.    *)
Fairness ==
  /\ \A t \in PyThreads : WF_vars(PyStep(t)) /\ SF_vars(RestoreThread(t))
  /\ \A v \in Vids : WF_vars(VidStep(v))

FairSpec == Spec /\ Fairness
-----------------------------------------------------------------------------
PyPlaces ==
  {"idle", "lastFirst", "lastLoop", "copyLast", "nextStream", "takeFirst", "takeLoop",
   "restoreThread", "startLock", "startInit", "startThread", "stopCheck", "stopLock",
   "stopClear", "stopJoin", "startRecord", "createStream", "waitNext", "flistNext",
   "flistClear", "flistTime", "updateParams", "restartCheck", "copyParams"}

VidPlaces ==
  {"unborn", "begin", "setApp", "open", "loop", "wait", "stopRecord", "stopCheck",
   "stopLock", "stopClear", "stopMark", "stopCamera", "stopped", "clearApp", "unwind",
   "thrown", "exited", "joined", "failed", "failedJoined"}

(* Type invariant, by groups of variables. *)
SyncType ==
  /\ gil \in PyThreads \cup {None}
  /\ params \in PyThreads \cup Vids \cup {None}
  /\ waiting \subseteq PyThreads

StateType ==
  /\ m_run \in BOOLEAN /\ m_stopping \in BOOLEAN
  /\ m_thread \in 0..MaxVids
  /\ m_frame \in BOOLEAN /\ m_frameTimer \in BOOLEAN
  /\ m_record \in Records \cup {None}

LoopType ==
  /\ run \in BOOLEAN
  /\ app \in Vids \cup {None} /\ manager \in Vids \cup {None}

ListType ==
  /\ alloc \subseteq Records /\ held \subseteq Records
  /\ recording \subseteq Records /\ back \subseteq Records /\ unread \subseteq Records

PythonType ==
  /\ pc \in [PyThreads -> PyPlaces]
  /\ call \in [PyThreads -> Calls \cup {"none"}]
  /\ arg \in [PyThreads -> Records \cup {None}]

VideoType ==
  /\ vpc \in [Vids -> VidPlaces]
  /\ stop \in [Vids -> BOOLEAN]

FaultType ==
  fault \in {"none", "null record", "null frame", "wrong app", "second camera manager",
            "no thread to join", "joined twice", "terminate"}

TypeOK ==
  /\ SyncType /\ StateType /\ LoopType /\ ListType
  /\ PythonType /\ VideoType /\ FaultType

(* m_paramsMutex excludes: whoever is between its lock and its unlock owns *)
(* it, so no two threads are inside kcStart or kcStopInternal at once.     *)
PyInParams == {"startInit", "startThread", "stopClear", "stopJoin"}
VidInParams == {"stopClear", "stopMark"}
ParamsExclusive ==
  fault = "none" =>
    /\ \A t \in PyThreads : pc[t] \in PyInParams <=> params = t
    /\ \A v \in Vids : vpc[v] \in VidInParams <=> params = v

(* While a thread is inside the extension no other one is, except threads  *)
(* that wait for a streamed frame with the GIL given up.                   *)
GilExclusive ==
  fault = "none" =>
    \A t \in PyThreads : pc[t] \notin {"idle", "takeLoop", "restoreThread"} <=> gil = t

(* The two locks that serialise the callers do exclude.                    *)
LocksExclusive == ParamsExclusive /\ GilExclusive

(* The list that the video thread appends to, and every list a Streamer or *)
(* a call is about, is allocated: neither the end of a Streamer nor a new  *)
(* recording frees one that a thread still reaches (streamer_dealloc's     *)
(* note: otherwise "the call to flistAppend() will segfault").             *)
RecordPointerValid ==
  /\ m_record # None => m_record \in alloc
  /\ held \subseteq alloc
  /\ \A t \in PyThreads : call[t] \in {"read", "drop"} => arg[t] \in alloc

(* The "stranded frame" of kcFrameData's comment: no frame stays in        *)
(* m_frame once capture has stopped, except across a restart, which drops  *)
(* it in kcStart.                                                          *)
NoStrandedFrame ==
  ~m_run /\ m_frame =>
    \E t \in PyThreads : call[t] = "mode" /\ pc[t] \in {"stopJoin", "startLock", "startInit"}

(* What a reader that blocks while m_run relies on: outside kcStart and    *)
(* kcStopInternal, a set m_run means that the newest video thread is       *)
(* capturing and that nobody has told it to stop, or that it failed.       *)
Capturing == {"begin", "setApp", "open", "loop", "wait", "stopRecord", "stopCheck", "stopLock"}
RunHasLoop ==
  m_run /\ params = None =>
    /\ m_thread # 0
    /\ \/ vpc[m_thread] \in Capturing /\ (vpc[m_thread] # "begin" => run)
       \/ Failed(m_thread)

(* m_stopping, which kcStart spins on while it holds m_paramsMutex, is     *)
(* only ever set while the thread that will call kcStopped is on its way,  *)
(* or after an exception has kept it from that.                            *)
StoppingHasOwner ==
  m_stopping =>
    \E v \in Vids :
      \/ vpc[v] \in {"loop", "wait", "stopRecord", "stopCheck", "stopCamera", "stopped"}
      \/ Failed(v)

(* A stop that is under way and a start exclude each other: m_run stays 0  *)
(* until the old loop has called kcStopped.                                *)
StoppingMeansIdle == m_stopping => ~m_run

(* A read that returns nothing says that the recording is over: it is not  *)
(* the current one, so no frame will be added (kcWaitNextRecordFrame).     *)
NoneMeansFinished ==
  [][\A t \in PyThreads :
       pc[t] = "flistNext" /\ pc'[t] = "idle" /\ arg[t] \notin unread => arg[t] # m_record]_vars

(* A thread joins a video thread that has begun to stop itself and waits   *)
(* for m_paramsMutex: a deadlock, with the GIL held.                       *)
JoinsWaiter(t) == pc[t] = "stopJoin" /\ m_thread # 0 /\ vpc[m_thread] = "stopLock"
Deadlocked == \E t \in PyThreads : JoinsWaiter(t)

(* frame() of a live stream answers, with a frame or, when the camera has  *)
(* stopped, without one, unless the process dies first or deadlocks.       *)
FrameReturns ==
  \A t \in PyThreads :
    call[t] = "frame" ~> call[t] # "frame" \/ fault # "none" \/ Deadlocked

(* So does stop(): that deadlock is the only way not to return.            *)
StopReturns ==
  \A t \in PyThreads :
    call[t] = "stop" ~> call[t] # "stop" \/ fault # "none" \/ Deadlocked

(* A stop that the video thread begins for itself ends: kcStart's wait for *)
(* m_stopping to be reset is finite.                                       *)
StoppingEnds == m_stopping ~> ~m_stopping \/ fault # "none"

-----------------------------------------------------------------------------
(* "We don't want to wait for thread to end -- this will cause deadlock",  *)
(* says kcFrameData: no thread is joined while it waits for the mutex that *)
(* the joining thread holds.                                               *)
NoJoinDeadlock == fault = "none" => ~Deadlocked

(* "Only a single instance of the camera manager may exist at a time", and *)
(* streamer.c's note has record() follow record(): starting never finds    *)
(* another loop at work.                                                   *)
AtMostOneLoop ==
  Cardinality({v \in Vids : vpc[v] \in Capturing}) <= 1

(* "if we're stopping we need to stop first before starting again": a loop *)
(* is not started before the one that stopped itself has let the camera go *)
StartsAfterStopped ==
  [][m_thread' # m_thread =>
       \A v \in Vids : vpc[v] \notin {"clearApp", "unwind", "thrown"}]_vars

(* "wait for thread to exit (join)": the wait ends. *)
JoinEnds ==
  \A t \in PyThreads : pc[t] = "stopJoin" ~> pc[t] # "stopJoin" \/ fault # "none"

(* "if we're recording, send the most recently recorded frame": there is   *)
(* such a frame when kcWaitLastRecordFrame returns.                        *)
LastFrameExists == fault \notin {"null record", "null frame"}
=============================================================================
