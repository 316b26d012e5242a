----------------------------- MODULE FrameList ------------------------------
(***************************************************************************)
(* The frame list of a recording (framelist.c): a singly linked list that  *)
(* the capture thread appends to and one reader walks.  The reader's place *)
(* is m_readNode, a pointer to the LINK that leads to the next frame: the  *)
(* list's own m_front field, or the m_next field of the last node read.    *)
(*                                                                         *)
(* Nodes are numbered 1, 2, ... in the order they are appended; node n's   *)
(* m_next is n + 1 unless n is m_back.  Every operation runs under the     *)
(* list's m_mutex, so each is one action.  Time stamps are integers in the *)
(* unit of m_pts.                                                          *)
(***************************************************************************)
EXTENDS Integers, Sequences

CONSTANTS
  StartShifts,  (* the m_startShift values a recording is started with     *)
  Durations,    (* the m_duration values a recording is started with       *)
  NewShifts,    (* values assigned to .start_shift while the list exists   *)
  NewDurations, (* values assigned to .duration while the list exists      *)
  Gaps,         (* time between two captured frames                        *)
  SeekTargets,  (* arguments of seek()                                     *)
  MaxFrames,    (* bound: frames appended to one list                      *)
  TimeMod,      (* 2^32 in the code: flistTime returns an unsigned         *)
  Restarts,     (* whether the camera loop restarts during the recording   *)
  NodeAllocFails (* whether malloc of a FrameNode may fail                 *)

ASSUME ConstantsAssumption ==
  /\ StartShifts \subseteq Int /\ NewShifts \subseteq Int
  /\ Durations \subseteq Nat /\ NewDurations \subseteq Nat
  /\ Gaps \subseteq Nat
  /\ SeekTargets \subseteq Nat
  /\ MaxFrames \in Nat
  /\ TimeMod \in Nat \ {0}
  /\ Restarts \in BOOLEAN /\ NodeAllocFails \in BOOLEAN

Null == 0       \* the NULL node pointer
HeadSlot == 0   \* m_readNode = &list->m_front
NoFrame == -1   \* the NULL frame

VARIABLES
  m_recording,  \* 1 recording, 0 not, -1 waiting for the shifted start
  m_front, m_back, m_len,
  m_readNode,   \* HeadSlot, or the node whose m_next field it points to
  m_readIndex,
  m_t0, m_startShift, m_duration,
  live,         \* the nodes that are allocated
  pts,          \* pts[n] is the time stamp of node n
  attached,     \* the list is g_state.m_record
  clock,        \* time stamp of the last captured frame, -1 when m_ptsOffset is unset
  out,          \* the frame the last flistNext returned
  crashed       \* freed memory was used and the process died of it

list == <<m_front, m_back, m_len, live, pts>>
cursor == <<m_readNode, m_readIndex>>
setup == <<m_startShift, m_duration>>
vars == <<m_recording, list, cursor, m_t0, setup, attached, clock, out, crashed>>

-----------------------------------------------------------------------------
(* flistInit: the fields of a fresh list. *)
FlistInit(s, d) ==
  /\ m_recording = (IF s = 0 THEN 1 ELSE -1)
  /\ m_front = Null /\ m_back = Null /\ m_len = 0
  /\ m_readNode = HeadSlot /\ m_readIndex = 0
  /\ m_t0 = -1
  /\ m_startShift = s
  /\ m_duration = d
  /\ live = {} /\ pts = << >>

(* The same, of a list that takes the place of this one. *)
FlistReset(s, d) ==
  /\ m_recording' = (IF s = 0 THEN 1 ELSE -1)
  /\ m_front' = Null /\ m_back' = Null /\ m_len' = 0
  /\ m_readNode' = HeadSlot /\ m_readIndex' = 0
  /\ m_t0' = -1
  /\ m_startShift' = s
  /\ m_duration' = d
  /\ live' = {} /\ pts' = << >>

(* kcStartRecord makes the list g_state.m_record; kcStart, which follows,  *)
(* unsets m_ptsOffset, so the first frame has time stamp 0.                *)
Init ==
  /\ \E s \in StartShifts, d \in Durations : FlistInit(s, d)
  /\ attached = TRUE
  /\ clock = -1
  /\ out = NoFrame
  /\ crashed = FALSE

-----------------------------------------------------------------------------
(* *m_readNode: the node flistNext would return, Null at the end. *)
Target ==
  IF m_readNode = HeadSlot THEN m_front
  ELSE IF m_readNode = m_back THEN Null ELSE m_readNode + 1

(* The memory that a walk from m_readNode touches is still allocated. *)
CursorUsable ==
  /\ m_readNode \in live \cup {HeadSlot}
  /\ Target \in live \cup {Null}

FlistTime(front, back, stamps) == (stamps[back] - stamps[front]) % TimeMod

\* Whether the frames from front to back reach the duration; variant: exceed it.
DurationExceeded(front, back, stamps) ==
  m_duration # 0 /\ FlistTime(front, back, stamps) > m_duration

DurationReached(front, back, stamps) ==
  m_duration # 0 /\ FlistTime(front, back, stamps) >= m_duration

\* Variant: a node exactly at t is given up too.
FirstNewer(lo, hi, stamps, t) ==
  CHOOSE k \in lo..hi :
    /\ k = hi \/ stamps[k] > t
    /\ \A j \in lo..(k - 1) : stamps[j] <= t

(* The first node of lo..hi that the trimming loop keeps: it stops at a    *)
(* node that is not older than t, and at the back of the list.             *)
FirstKept(lo, hi, stamps, t) ==
  CHOOSE k \in lo..hi :
    /\ k = hi \/ stamps[k] >= t
    /\ \A j \in lo..(k - 1) : stamps[j] < t

(* The first part of flistAppend, up to the allocation of the node.        *)
StillShifting(f, t0) ==
  /\ m_startShift > 0 /\ m_recording = -1
  /\ f >= t0 /\ f - t0 < m_startShift

T0(f) == IF m_t0 < 0 THEN f ELSE m_t0

RecordingAfterShift(f) ==
  IF m_startShift > 0 /\ m_recording = -1 /\ ~StillShifting(f, T0(f))
  THEN 1 ELSE m_recording

(* Positive shift: the one frame kept for streaming is replaced; variant:  *)
(* it is kept.                                                             *)
DropsNothing(f) == FALSE
DropsOnly(f) == StillShifting(f, T0(f)) /\ m_len = 1

(* Negative shift: frames older than the shift are given up while the      *)
(* start is awaited; variant: also when recording has started.             *)
TrimsAlways(rec) == m_startShift < 0
Trims(rec) == m_startShift < 0 /\ rec = -1

(* flistAppend of a frame with time stamp f, and what kcFrameData does     *)
(* with a negative result: kcStopRecord.                                   *)
FlistAppend(f) ==
  IF m_recording = 0
  THEN UNCHANGED <<m_recording, list, m_t0, attached>>
  ELSE
    LET new    == Len(pts) + 1
        stamps == Append(pts, f)
        len    == IF DropsOnly(f) THEN 0 ELSE m_len
        kept   == IF DropsOnly(f) THEN live \ {m_front} ELSE live
        first  == IF len = 0 THEN new ELSE m_front
        rec    == RecordingAfterShift(f)
        front  == IF Trims(rec)
                  THEN FirstKept(first, new, stamps, f + m_startShift)
                  ELSE first
        ends   == DurationReached(front, new, stamps)
    IN /\ m_t0' = T0(f)
       /\ pts' = stamps
       /\ m_front' = front
       /\ m_back' = new
       /\ m_len' = len + 1 - (front - first)
       /\ live' = (kept \cup {new}) \ (first..(front - 1))
       /\ m_recording' = (IF ends THEN 0 ELSE rec)
       /\ attached' = ~ends

(* The next captured frame, g after the one before. *)
Stamp(g) == IF clock < 0 THEN 0 ELSE clock + g

Capture(g) ==
  /\ ~crashed /\ attached
  /\ Len(pts) < MaxFrames
  /\ FlistAppend(Stamp(g))
  /\ clock' = Stamp(g)
  /\ UNCHANGED <<cursor, setup, out, crashed>>

\* Variant: the length keeps counting the frame that was given up.
CaptureNoNodeCounted(g) ==
  /\ NodeAllocFails
  /\ ~crashed /\ attached
  /\ m_t0' = T0(Stamp(g))
  /\ live' = (IF DropsOnly(Stamp(g)) THEN live \ {m_front} ELSE live)
  /\ m_recording' = 0
  /\ attached' = FALSE
  /\ clock' = Stamp(g)
  /\ UNCHANGED <<m_front, m_back, m_len, pts, cursor, setup, out, crashed>>

(* malloc of the node fails: flistAppend returns -2 with the frame that    *)
(* was kept for streaming already freed, and kcFrameData stops recording.  *)
CaptureNoNode(g) ==
  /\ NodeAllocFails
  /\ ~crashed /\ attached
  /\ m_t0' = T0(Stamp(g))
  /\ m_len' = (IF DropsOnly(Stamp(g)) THEN 0 ELSE m_len)
  /\ live' = (IF DropsOnly(Stamp(g)) THEN live \ {m_front} ELSE live)
  /\ m_recording' = 0
  /\ attached' = FALSE
  /\ clock' = Stamp(g)
  /\ UNCHANGED <<m_front, m_back, pts, cursor, setup, out, crashed>>

(* kcStart while the recording is on (a mode change): time restarts at 0.  *)
Restart ==
  /\ Restarts
  /\ ~crashed /\ attached
  /\ clock' = -1
  /\ UNCHANGED <<m_recording, list, cursor, m_t0, setup, attached, out, crashed>>

(* kcStopRecord. *)
StopRecord ==
  /\ ~crashed /\ attached
  /\ m_recording' = 0
  /\ attached' = FALSE
  /\ UNCHANGED <<list, cursor, m_t0, setup, clock, out, crashed>>

(* streamer_start. *)
StartRecording ==
  /\ ~crashed
  /\ m_recording' = 1
  /\ UNCHANGED <<list, cursor, m_t0, setup, attached, clock, out, crashed>>

\* Variant: the index is not counted up.
FlistNextUncounted ==
  /\ ~crashed
  /\ CursorUsable
  /\ IF Target = Null
     THEN out' = NoFrame /\ UNCHANGED cursor
     ELSE out' = pts[Target] /\ m_readNode' = Target /\ UNCHANGED m_readIndex
  /\ UNCHANGED <<m_recording, list, m_t0, setup, attached, clock, crashed>>

(* flistNext. *)
FlistNext ==
  /\ ~crashed
  /\ CursorUsable
  /\ IF Target = Null
     THEN /\ out' = NoFrame
          /\ UNCHANGED cursor
     ELSE /\ out' = pts[Target]
          /\ m_readNode' = Target
          /\ m_readIndex' = m_readIndex + 1
  /\ UNCHANGED <<m_recording, list, m_t0, setup, attached, clock, crashed>>

(* flistNext through a freed node: the stale link still reads as NULL or   *)
(* as the node that used to follow, or the process dies.                   *)
FlistNextFreed ==
  /\ ~crashed
  /\ ~CursorUsable
  /\ \/ crashed' = TRUE /\ UNCHANGED <<cursor, out>>
     \/ crashed' = FALSE /\ out' = NoFrame /\ UNCHANGED cursor
     \/ /\ crashed' = FALSE
        /\ m_readNode + 1 \in live
        /\ out' = pts[m_readNode + 1]
        /\ m_readNode' = m_readNode + 1
        /\ m_readIndex' = m_readIndex + 1
  /\ UNCHANGED <<m_recording, list, m_t0, setup, attached, clock>>

\* Variant: the position one past the last frame is let through.
FlistSeekEnd(n) ==
  /\ ~crashed
  /\ n <= m_len
  /\ m_readIndex' = n
  /\ m_readNode' = (IF n = 0 THEN HeadSlot ELSE m_front + n - 1)
  /\ UNCHANGED <<m_recording, list, m_t0, setup, attached, clock, out, crashed>>

(* flistSeek: a position the list does not have is refused. *)
FlistSeek(n) ==
  /\ ~crashed
  /\ n < m_len
  /\ m_readIndex' = n
  /\ m_readNode' = (IF n = 0 THEN HeadSlot ELSE m_front + n - 1)
  /\ UNCHANGED <<m_recording, list, m_t0, setup, attached, clock, out, crashed>>

(* streamer_setAttr. *)
SetStartShift(s) ==
  /\ ~crashed
  /\ m_startShift' = s
  /\ UNCHANGED <<m_recording, list, cursor, m_t0, m_duration, attached, clock, out, crashed>>

SetDuration(d) ==
  /\ ~crashed
  /\ m_duration' = d
  /\ UNCHANGED <<m_recording, list, cursor, m_t0, m_startShift, attached, clock, out, crashed>>

(* streamer_dealloc of the recording (kcStopRecord if it still records,    *)
(* flistClear) and kcStartRecord of the next one.  flistClear walks from   *)
(* m_front, so it needs that node to be allocated.                         *)
Renew(s, d) ==
  /\ ~crashed
  /\ IF m_front \in live \cup {Null}
     THEN /\ FlistReset(s, d)
          /\ attached' = TRUE
          /\ clock' = -1
          /\ out' = NoFrame
          /\ crashed' = FALSE
     ELSE /\ crashed' = TRUE
          /\ UNCHANGED <<m_recording, list, cursor, m_t0, setup, attached, clock, out>>

Next ==
  \/ \E g \in Gaps : Capture(g) \/ CaptureNoNode(g)
  \/ Restart
  \/ StopRecord
  \/ StartRecording
  \/ FlistNext
  \/ FlistNextFreed
  \/ \E n \in SeekTargets : FlistSeek(n)
  \/ \E s \in NewShifts : SetStartShift(s)
  \/ \E d \in NewDurations : SetDuration(d)
  \/ \E s \in StartShifts, d \in Durations : Renew(s, d)

Spec == Init /\ [][Next]_vars
-----------------------------------------------------------------------------
(* Type invariant: every field of FrameList has the values its C type and  *)
(* the operations of framelist.c allow.                                    *)
TypeOK ==
  /\ m_recording \in {-1, 0, 1}
  /\ m_front \in Nat /\ m_back \in Nat /\ m_len \in Nat
  /\ m_readNode \in Nat /\ m_readIndex \in Nat
  /\ m_t0 \in Int /\ m_startShift \in Int /\ m_duration \in Nat
  /\ live \subseteq Nat \ {0}
  /\ pts \in Seq(Nat)
  /\ attached \in BOOLEAN /\ crashed \in BOOLEAN
  /\ clock \in Int /\ out \in Int

(* The hand-maintained fields agree: m_len counts the allocated nodes,     *)
(* which are those from m_front to m_back, and m_back is the last one      *)
(* appended.  flistAppend updates them on four paths (first node, later    *)
(* node, frame kept for streaming, trimming of the past).                  *)
ListShape ==
  /\ m_len = 0 => live = {}
  /\ m_len > 0 =>
       /\ m_front \in 1..m_back
       /\ m_back = Len(pts)
       /\ live = m_front..m_back
       /\ m_len = m_back + 1 - m_front

(* As long as no node of the list has been freed, the reader's pointer and *)
(* the reader's index say the same, and the pointer can be followed: no    *)
(* interleaving of appends, reads, seeks and attribute changes separates   *)
(* m_readNode from m_readIndex (flistNext, flistSeek, flistAppend).        *)
CursorSound ==
  m_len = Len(pts) =>
    /\ m_readNode = m_readIndex
    /\ m_readIndex <= m_len
    /\ CursorUsable

(* Once recording has started (m_recording is not -1) nothing that happens *)
(* to the list frees the memory the reader's m_readNode leads through.     *)
StartedKeepsCursor ==
  [][CursorUsable /\ m_recording # -1 => CursorUsable']_vars

(* A recording is never extended past the first frame that reaches         *)
(* m_duration: all frames but the last lie within it (flistAppend's last   *)
(* test, after the trimming of the past moved m_front).                    *)
NoOvershoot ==
  m_duration # 0 /\ m_len > 0 =>
    \A n \in live \ {m_back} : pts[n] - pts[m_front] < m_duration

(* While it waits for a negative start shift, each append leaves exactly   *)
(* the frames that are not older than the shift, if the stamps kept do not *)
(* run backwards: neither a frame that a start now would need is freed,    *)
(* nor one too old kept.                                                   *)
PrerollWindow ==
  [][/\ Len(pts') = Len(pts) + 1
     /\ m_startShift < 0 /\ m_recording = -1
     /\ \A n \in live : \A k \in live \cup {Len(pts')} : n <= k => pts'[n] <= pts'[k]
     => live' = {n \in live \cup {Len(pts')} : pts'[n] >= pts'[Len(pts')] + m_startShift}
    ]_vars

(* While it waits for a positive start shift the list holds the one frame  *)
(* that is kept for streaming; flistAppend reports anything else with      *)
(* "Error: more than 1 frame!".                                            *)
KeepsOneFrame ==
  m_recording = -1 /\ m_startShift > 0 => m_len <= 1

(* The recording, as its reader sees it, is the log and cursor of Playback *)
Log == INSTANCE Playback WITH
  Frames <- Nat, log <- pts, pos <- m_readIndex

PlaybackSpec == Log!Spec

-----------------------------------------------------------------------------
(* The link a read follows is always allocated: frame() is documented as   *)
(* "get next frame" for every recording, one that waits for its shifted    *)
(* start included.                                                         *)
CursorLive == CursorUsable
=============================================================================
