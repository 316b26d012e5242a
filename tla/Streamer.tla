------------------------------ MODULE Streamer ------------------------------
(* The Python objects of kcamera and the memory they share: Streamer objects *)
(* (live streams, recordings, loaded files), the one Camera object, the      *)
(* frame lists, and the two pointers of the capture core that refer to them: *)
(* g_state.m_record and g_params, which is the Camera object's memory.       *)
(* A call is one step under the GIL; only record() has the video thread      *)
(* between its two halves. Threads and mutexes are in KCamera.               *)
EXTENDS Naturals, FiniteSets

CONSTANTS
    Objects,    \* places where a Streamer object can be
    Lists,      \* places where a FrameList can be
    MaxRefs,    \* bound: references of the program to one object
    None        \* no object, no list

\* What a program may take care of. "camera last": it drops its Camera object
\* after all the Streamers.
\* "stream first": it does not call stream() for the first time while recording.
Disciplines == {"camera last", "stream first"}

ASSUME StreamerAssumption ==
    /\ None \notin Objects \cup Lists
    /\ MaxRefs \in Nat \ {0}

VARIABLES
    discipline,     \* what this program takes care of
    camera,         \* the Camera object exists
    streamerObject, \* its m_streamerObject
    refs,           \* references to a Streamer object; 0 if there is none
    m_record,       \* of a Streamer object; None for a live stream
    record,         \* g_state.m_record
    running,        \* g_state.m_run
    alloc,          \* the frame lists that are allocated
    recording,      \* record() has started the camera and has yet to return
    fault           \* freed memory was used

vars == <<discipline, camera, streamerObject, refs, m_record, record, running,
          alloc, recording, fault>>

Init ==
    /\ discipline \in SUBSET Disciplines
    /\ camera = FALSE
    /\ streamerObject = None
    /\ refs = [o \in Objects |-> 0]
    /\ m_record = [o \in Objects |-> None]
    /\ record = None
    /\ running = FALSE
    /\ alloc = {}
    /\ recording = FALSE
    /\ fault = "none"

-----------------------------------------------------------------------------
Idle == fault = "none" /\ ~recording

Exists(o) == refs[o] > 0

Fails(how) ==
    /\ fault' = how
    /\ UNCHANGED <<camera, streamerObject, refs, m_record, record, running,
                   alloc, recording, discipline>>

\* A new Streamer object at o for list l.
NewStreamer(o, l) ==
    /\ ~Exists(o)
    /\ refs' = [refs EXCEPT ![o] = 1]
    /\ m_record' = [m_record EXCEPT ![o] = l]

\* kcStart and kcStop write to g_params.
Starts == running' = TRUE
Stops == running' = FALSE /\ record' = None

\* Camera(): a second one is refused.
NewCamera ==
    /\ Idle
    /\ ~camera
    /\ camera' = TRUE
    /\ streamerObject' = None
    /\ record' = None
    /\ UNCHANGED <<refs, m_record, running, alloc, recording, fault,
                   discipline>>

\* camera_dealloc with kcExit.
DropCamera ==
    /\ Idle
    /\ camera
    /\ "camera last" \in discipline => \A o \in Objects : ~Exists(o)
    /\ Stops
    /\ camera' = FALSE
    /\ UNCHANGED <<streamerObject, refs, m_record, alloc, recording, fault,
                   discipline>>

\* stream(): the one live stream is made, or handed out again.
Stream ==
    /\ Idle
    /\ camera
    /\ streamerObject = None
    /\ "stream first" \in discipline => record = None
    /\ \E o \in Objects : NewStreamer(o, record) /\ streamerObject' = o
    /\ UNCHANGED <<camera, record, running, alloc, recording, fault,
                   discipline>>

StreamAgain ==
    /\ Idle
    /\ camera
    /\ streamerObject # None
    /\ IF Exists(streamerObject)
         THEN /\ refs[streamerObject] < MaxRefs
              /\ refs' = [refs EXCEPT ![streamerObject] = @ + 1]
              /\ UNCHANGED <<camera, streamerObject, m_record, record,
                             running, alloc, recording, fault, discipline>>
         ELSE Fails("stream object")

\* record(), up to kcStart: a recording that is on ends, a new list is current.
Record ==
    /\ Idle
    /\ camera
    /\ \E l \in Lists \ alloc : alloc' = alloc \cup {l} /\ record' = l
    /\ Starts
    /\ recording' = TRUE
    /\ UNCHANGED <<camera, streamerObject, refs, m_record, fault, discipline>>

\* createStream(""): the new object is about the recording that is on now.
RecordReturns ==
    /\ recording
    /\ fault = "none"
    /\ \E o \in Objects : NewStreamer(o, record)
    /\ recording' = FALSE
    /\ UNCHANGED <<camera, streamerObject, record, running, alloc, fault,
                   discipline>>

\* Variant: the recording that is on is taken although there is a file to load.
LoadTakesRecord ==
    /\ Idle
    /\ camera
    /\ \E o \in Objects, l \in Lists \ alloc :
         /\ NewStreamer(o, IF record = None THEN l ELSE record)
         /\ alloc' = alloc \cup {l}
    /\ UNCHANGED <<camera, streamerObject, record, running, recording, fault,
                   discipline>>

\* load(): an object with a list of its own. If the file cannot be read, object
\* and list are freed again.
Load ==
    /\ Idle
    /\ camera
    /\ \E o \in Objects, l \in Lists \ alloc :
         NewStreamer(o, l) /\ alloc' = alloc \cup {l}
    /\ UNCHANGED <<camera, streamerObject, record, running, recording, fault,
                   discipline>>

\* The program copies a reference, or drops one that is not the last.
Copy(o) ==
    /\ Idle
    /\ Exists(o)
    /\ refs[o] < MaxRefs
    /\ refs' = [refs EXCEPT ![o] = @ + 1]
    /\ UNCHANGED <<camera, streamerObject, m_record, record, running, alloc,
                   recording, fault, discipline>>

Forget(o) ==
    /\ Idle
    /\ refs[o] > 1
    /\ refs' = [refs EXCEPT ![o] = @ - 1]
    /\ UNCHANGED <<camera, streamerObject, m_record, record, running, alloc,
                   recording, fault, discipline>>

\* Variant: the list is freed and stays current.
DropRecordingNoStop(o) ==
    /\ Idle
    /\ refs[o] = 1 /\ m_record[o] \in alloc
    /\ alloc' = alloc \ {m_record[o]}
    /\ refs' = [refs EXCEPT ![o] = 0]
    /\ UNCHANGED <<camera, streamerObject, m_record, record, running,
                   recording, fault, discipline>>

\* Variant: the list is not freed.
DropRecordingLeaks(o) ==
    /\ Idle
    /\ refs[o] = 1 /\ m_record[o] \in alloc
    /\ record' = IF record = m_record[o] THEN None ELSE record
    /\ refs' = [refs EXCEPT ![o] = 0]
    /\ UNCHANGED <<camera, streamerObject, m_record, running, alloc,
                   recording, fault, discipline>>

\* streamer_dealloc of a recording: the list is freed, and is no longer current.
DropRecording(o) ==
    /\ Idle
    /\ refs[o] = 1 /\ m_record[o] # None
    /\ IF m_record[o] \in alloc
         THEN /\ alloc' = alloc \ {m_record[o]}
              /\ record' = IF record = m_record[o] THEN None ELSE record
              /\ refs' = [refs EXCEPT ![o] = 0]
              /\ UNCHANGED <<camera, streamerObject, m_record, running,
                             recording, fault, discipline>>
         ELSE Fails("frame list")

\* streamer_dealloc of a live stream: the camera stops, and the Camera object is
\* told if it is the stream that it knows.
DropLive(o) ==
    /\ Idle
    /\ refs[o] = 1 /\ m_record[o] = None
    /\ IF camera
         THEN /\ Stops
              /\ streamerObject' = IF streamerObject = o THEN None
                                                         ELSE streamerObject
              /\ refs' = [refs EXCEPT ![o] = 0]
              /\ UNCHANGED <<camera, m_record, alloc, recording, fault,
                             discipline>>
         ELSE Fails("parameters")

\* frame() of a live stream starts a camera that does not run.
FrameLive(o) ==
    /\ Idle
    /\ Exists(o) /\ m_record[o] = None
    /\ record = None /\ ~running
    /\ IF camera
         THEN /\ Starts
              /\ UNCHANGED <<camera, streamerObject, refs, m_record, record,
                             alloc, recording, fault, discipline>>
         ELSE Fails("parameters")

\* frame(), and every other call that looks into the list of a recording.
UseFreed(o) ==
    /\ Idle
    /\ Exists(o) /\ m_record[o] \notin alloc \cup {None}
    /\ Fails("frame list")

\* stop() of a recording ends the one that is on, of a live stream the capture.
StopRecording(o) ==
    /\ Idle
    /\ Exists(o) /\ m_record[o] # None
    /\ record' = None
    /\ UNCHANGED <<camera, streamerObject, refs, m_record, running, alloc,
                   recording, fault, discipline>>

StopLive(o) ==
    /\ Idle
    /\ Exists(o) /\ m_record[o] = None
    /\ IF camera
         THEN /\ Stops
              /\ UNCHANGED <<camera, streamerObject, refs, m_record, alloc,
                             recording, fault, discipline>>
         ELSE Fails("parameters")

-----------------------------------------------------------------------------
(* The video thread, whatever the program is doing.                         *)

EndsRecording ==
    /\ running
    /\ fault = "none"
    /\ record' = None
    /\ UNCHANGED <<camera, streamerObject, refs, m_record, running, alloc,
                   recording, fault, discipline>>

\* Nobody takes frames, or there is no memory for one.
StopsItself ==
    /\ running
    /\ fault = "none"
    /\ Stops
    /\ UNCHANGED <<camera, streamerObject, refs, m_record, alloc, recording,
                   fault, discipline>>

-----------------------------------------------------------------------------
Program ==
    \/ NewCamera \/ DropCamera
    \/ Stream \/ StreamAgain \/ Record \/ RecordReturns \/ Load
    \/ \E o \in Objects :
         \/ Copy(o) \/ Forget(o) \/ DropRecording(o) \/ DropLive(o)
         \/ FrameLive(o) \/ UseFreed(o) \/ StopRecording(o) \/ StopLive(o)

VideoThread == EndsRecording \/ StopsItself

Next == Program \/ VideoThread

Spec == Init /\ [][Next]_vars

-----------------------------------------------------------------------------
(* Properties.                                                              *)

TypeOK ==
    /\ discipline \subseteq Disciplines
    /\ camera \in BOOLEAN
    /\ streamerObject \in Objects \cup {None}
    /\ refs \in [Objects -> 0 .. MaxRefs]
    /\ m_record \in [Objects -> Lists \cup {None}]
    /\ record \in Lists \cup {None}
    /\ running \in BOOLEAN
    /\ alloc \subseteq Lists
    /\ recording \in BOOLEAN
    /\ fault \in {"none", "stream object", "frame list", "parameters"}

\* The list the video thread appends to is allocated, whatever the program does;
\* and a program that takes care of everything never makes the extension use
\* freed memory: lists, stream object and parameters outlive their uses
\* (streamer_dealloc, streamCallback, kcStop).
Disciplined == discipline = Disciplines
NoFreedMemory ==
    /\ record \in alloc \cup {None}
    /\ Disciplined => fault = "none"

\* "get live streamer object" (kcameramodule.c:319): what stream() hands out is a
\* live stream.
StreamIsLive ==
    camera /\ streamerObject # None => m_record[streamerObject] = None

\* A list has one owner, so it is freed once, and the stream object is a live
\* stream: createStream makes the object of a recording for record() only. The
\* code leaves it to the program that no first stream() comes in between.
Owned == {m_record[o] : o \in {p \in Objects : Exists(p)}}
OneOwner ==
    Disciplined =>
      /\ \A o, p \in Objects :
           Exists(o) /\ Exists(p) /\ m_record[o] = m_record[p] =>
             o = p \/ m_record[o] = None
      /\ StreamIsLive

\* A list loses its last holder, and is lost, only while a record() is under
\* way: its recording ended before record() made the object that would own it.
LostOnlyInRecord ==
    [][Disciplined =>
         \A l \in alloc \cap alloc' :
           l \in Owned \cup {record} /\ l \notin Owned' \cup {record'} =>
             recording]_vars
=============================================================================
