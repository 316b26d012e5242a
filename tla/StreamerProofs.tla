--------------------------- MODULE StreamerProofs ---------------------------
(* Ownership of the frame lists and of the stream object, for any number of   *)
(* objects, lists and references: no list is used after it was freed, each    *)
(* has one owner, and none is lost but inside record().                       *)
EXTENDS Streamer, TLAPS

\* The list the video thread appends to is allocated.
RecordAllocated == record \in alloc \cup {None}

\* What exists while the Camera object exists, in a program that drops it last.
CameraKept ==
    /\ fault = "none"
    /\ recording => camera
    /\ \A o \in Objects : Exists(o) => camera

\* The stream object that the Camera object knows exists, and is a live stream.
StreamKept ==
    camera /\ streamerObject # None =>
      Exists(streamerObject) /\ m_record[streamerObject] = None

\* Lists and their owners.
ListsKept ==
    /\ \A o \in Objects : Exists(o) => m_record[o] \in alloc \cup {None}
    /\ \A o, p \in Objects :
         Exists(o) /\ Exists(p) /\ m_record[o] = m_record[p] =>
           o = p \/ m_record[o] = None
    /\ recording /\ record # None =>
         \A o \in Objects : Exists(o) => m_record[o] # record
    /\ ~recording /\ record # None =>
         \E o \in Objects : Exists(o) /\ m_record[o] = record

Kept == Disciplined => CameraKept /\ StreamKept /\ ListsKept

SInv == TypeOK /\ RecordAllocated /\ Kept

-----------------------------------------------------------------------------
\* MaxRefs is at least 1.
LEMMA SomeRefs == 0 \in 0 .. MaxRefs /\ 1 \in 0 .. MaxRefs
BY StreamerAssumption DEF StreamerAssumption

\* The types of a new object at o for list l.
LEMMA NewStreamerType ==
    ASSUME TypeOK, NEW o \in Objects, NEW l \in Lists \cup {None}, NewStreamer(o, l)
    PROVE  /\ refs' \in [Objects -> 0 .. MaxRefs]
           /\ m_record' \in [Objects -> Lists \cup {None}]
BY SomeRefs DEF TypeOK, NewStreamer

\* Every step keeps the types.
LEMMA TypeStep == TypeOK /\ [Next]_vars => TypeOK'
<1> SUFFICES ASSUME TypeOK, [Next]_vars PROVE TypeOK'
  OBVIOUS
<1> USE StreamerAssumption DEF StreamerAssumption, TypeOK, Exists, Idle, Fails,
      NewStreamer, Starts, Stops
<1>1. CASE NewCamera
  BY <1>1 DEF NewCamera
<1>2. CASE DropCamera
  BY <1>2 DEF DropCamera
<1>3. CASE Stream
  BY <1>3, NewStreamerType DEF Stream
<1>4. CASE StreamAgain
  <2>1. CASE Exists(streamerObject)
    <3>1. streamerObject \in Objects
      BY <1>4 DEF StreamAgain
    <3>2. refs[streamerObject] + 1 \in 0 .. MaxRefs
      BY <1>4, <2>1, <3>1 DEF StreamAgain
    <3> QED
      BY <1>4, <2>1, <3>1, <3>2 DEF StreamAgain
  <2>2. CASE ~Exists(streamerObject)
    BY <1>4, <2>2 DEF StreamAgain
  <2> QED
    BY <2>1, <2>2
<1>5. CASE Record
  BY <1>5 DEF Record
<1>6. CASE RecordReturns
  BY <1>6, NewStreamerType DEF RecordReturns
<1>7. CASE Load
  BY <1>7, NewStreamerType DEF Load
<1>8. ASSUME NEW o \in Objects,
             \/ Copy(o) \/ Forget(o) \/ DropRecording(o) \/ DropLive(o)
             \/ FrameLive(o) \/ UseFreed(o) \/ StopRecording(o) \/ StopLive(o)
      PROVE  TypeOK'
  <2>1. refs[o] \in 0 .. MaxRefs
    OBVIOUS
  <2>0. [refs EXCEPT ![o] = 0] \in [Objects -> 0 .. MaxRefs]
    BY SomeRefs
  <2>2. CASE Copy(o)
    <3>1. refs[o] + 1 \in 0 .. MaxRefs
      BY <2>1, <2>2 DEF Copy
    <3> QED
      BY <2>2, <3>1 DEF Copy
  <2>3. CASE Forget(o)
    <3>1. refs[o] - 1 \in 0 .. MaxRefs
      BY <2>1, <2>3 DEF Forget
    <3> QED
      BY <2>3, <3>1 DEF Forget
  <2>4. CASE DropRecording(o)
    BY <2>4, <2>0 DEF DropRecording
  <2>5. CASE DropLive(o)
    BY <2>5, <2>0 DEF DropLive
  <2>6. CASE FrameLive(o)
    BY <2>6 DEF FrameLive
  <2>7. CASE UseFreed(o)
    BY <2>7 DEF UseFreed
  <2>8. CASE StopRecording(o)
    BY <2>8 DEF StopRecording
  <2>9. CASE StopLive(o)
    BY <2>9 DEF StopLive
  <2> QED
    BY <1>8, <2>2, <2>3, <2>4, <2>5, <2>6, <2>7, <2>8, <2>9
<1>9. CASE VideoThread
  BY <1>9 DEF VideoThread, EndsRecording, StopsItself
<1>10. CASE UNCHANGED vars
  BY <1>10 DEF vars
<1> QED
  BY <1>1, <1>2, <1>3, <1>4, <1>5, <1>6, <1>7, <1>8, <1>9, <1>10 DEF Next, Program

\* No step frees the list that is current: streamer_dealloc ends the recording.
LEMMA RecordStep ==
    TypeOK /\ RecordAllocated /\ [Next]_vars => RecordAllocated'
<1> SUFFICES ASSUME TypeOK, RecordAllocated, [Next]_vars PROVE RecordAllocated'
  OBVIOUS
<1> USE DEF RecordAllocated, Fails, NewStreamer, Starts, Stops
<1>1. CASE NewCamera \/ DropCamera \/ Stream \/ StreamAgain \/ Record
           \/ RecordReturns \/ Load
  BY <1>1 DEF NewCamera, DropCamera, Stream, StreamAgain, Record, RecordReturns, Load
<1>2. ASSUME NEW o \in Objects,
             \/ Copy(o) \/ Forget(o) \/ DropRecording(o) \/ DropLive(o)
             \/ FrameLive(o) \/ UseFreed(o) \/ StopRecording(o) \/ StopLive(o)
      PROVE  RecordAllocated'
  BY <1>2 DEF Copy, Forget, DropRecording, DropLive, FrameLive, UseFreed,
              StopRecording, StopLive
<1>3. CASE VideoThread
  BY <1>3 DEF VideoThread, EndsRecording, StopsItself
<1>4. CASE UNCHANGED vars
  BY <1>4 DEF vars
<1> QED
  BY <1>1, <1>2, <1>3, <1>4 DEF Next, Program

\* What a new object at o for list l changes.
LEMMA NewStreamerEffect ==
    ASSUME TypeOK, NEW o \in Objects, NEW l, NewStreamer(o, l)
    PROVE  /\ refs[o] = 0 /\ refs'[o] = 1 /\ m_record'[o] = l
           /\ \A p \in Objects \ {o} : refs'[p] = refs[p] /\ m_record'[p] = m_record[p]
<1>1. refs[o] \in 0 .. MaxRefs /\ ~(refs[o] > 0)
  BY DEF TypeOK, NewStreamer, Exists
<1>2. refs[o] = 0
  BY <1>1, StreamerAssumption DEF StreamerAssumption
<1> QED
  BY <1>2 DEF TypeOK, NewStreamer

-----------------------------------------------------------------------------
\* The steps of a disciplined program, one lemma for each kind of step.
Good == TypeOK /\ RecordAllocated /\ CameraKept /\ StreamKept /\ ListsKept
Parts == CameraKept /\ StreamKept /\ ListsKept

LEMMA MakerStep ==
    ASSUME Good, Disciplined,
           NewCamera \/ Stream \/ Record \/ RecordReturns \/ Load
    PROVE  Parts'
<1> USE StreamerAssumption DEF StreamerAssumption, Good, Parts, CameraKept,
      StreamKept, ListsKept, Exists
<1>1. CASE NewCamera
  BY <1>1 DEF NewCamera, Idle
<1>2. CASE Stream
  <2>1. PICK o \in Objects : NewStreamer(o, record) /\ streamerObject' = o
    BY <1>2 DEF Stream
  <2>2. record = None /\ camera /\ fault = "none" /\ ~recording
    BY <1>2 DEF Stream, Idle, Disciplined, Disciplines
  <2>3. /\ refs[o] = 0 /\ refs'[o] = 1 /\ m_record'[o] = None
        /\ \A p \in Objects \ {o} : refs'[p] = refs[p] /\ m_record'[p] = m_record[p]
    BY <2>1, <2>2, NewStreamerEffect
  <2> QED
    BY <1>2, <2>1, <2>2, <2>3 DEF Stream
<1>3. CASE Record
  BY <1>3 DEF Record, Idle, Starts, TypeOK
<1>4. CASE RecordReturns
  <2>1. PICK o \in Objects : NewStreamer(o, record)
    BY <1>4 DEF RecordReturns
  <2>2. /\ refs[o] = 0 /\ refs'[o] = 1 /\ m_record'[o] = record
        /\ \A p \in Objects \ {o} : refs'[p] = refs[p] /\ m_record'[p] = m_record[p]
    BY <2>1, NewStreamerEffect
  <2>3. camera /\ recording
    BY <1>4 DEF RecordReturns
  <2>4. CameraKept' /\ StreamKept'
    BY <1>4, <2>2, <2>3 DEF RecordReturns, TypeOK
  <2>5. ListsKept'
    BY <1>4, <2>2, <2>3 DEF RecordReturns, RecordAllocated
  <2> QED
    BY <2>4, <2>5
<1>5. CASE Load
  <2>1. PICK o \in Objects, l \in Lists \ alloc :
          NewStreamer(o, l) /\ alloc' = alloc \cup {l}
    BY <1>5 DEF Load
  <2>2. /\ refs[o] = 0 /\ refs'[o] = 1 /\ m_record'[o] = l
        /\ \A p \in Objects \ {o} : refs'[p] = refs[p] /\ m_record'[p] = m_record[p]
    BY <2>1, NewStreamerEffect
  <2>3. CameraKept' /\ StreamKept'
    BY <1>5, <2>2 DEF Load, Idle, TypeOK
  <2>4. ListsKept'
    BY <1>5, <2>1, <2>2 DEF Load, Idle
  <2> QED
    BY <2>3, <2>4
<1> QED
  BY <1>1, <1>2, <1>3, <1>4, <1>5

\* References go and lists are freed.
LEMMA ReferenceStep ==
    ASSUME Good, Disciplined, NEW o \in Objects,
           Copy(o) \/ Forget(o) \/ DropRecording(o) \/ DropLive(o)
    PROVE  Parts'
<1> USE StreamerAssumption DEF StreamerAssumption, Good, Parts, CameraKept,
      StreamKept, ListsKept, Exists
<1>0. \A p \in Objects : refs[p] \in Nat /\ m_record[p] \in Lists \cup {None}
  BY DEF TypeOK
<1>1. CASE Copy(o)
  <2>1. /\ refs[o] > 0 /\ refs'[o] > 0
        /\ \A p \in Objects \ {o} : refs'[p] = refs[p]
    BY <1>1, <1>0 DEF Copy, TypeOK
  <2> QED
    BY <1>1, <2>1, <1>0 DEF Copy, TypeOK, Idle
<1>2. CASE Forget(o)
  <2>1. /\ refs[o] > 0 /\ refs'[o] > 0
        /\ \A p \in Objects \ {o} : refs'[p] = refs[p]
    BY <1>2, <1>0 DEF Forget, TypeOK
  <2> QED
    BY <1>2, <2>1, <1>0 DEF Forget, TypeOK, Idle
<1>3. CASE DropRecording(o)
  <2>1. m_record[o] \in alloc /\ refs[o] = 1
    <3>1. refs[o] = 1 /\ m_record[o] # None
      BY <1>3 DEF DropRecording
    <3>2. refs[o] > 0
      BY <3>1
    <3> QED
      BY <3>1, <3>2
  <2>2. /\ refs'[o] = 0
        /\ \A p \in Objects \ {o} : refs'[p] = refs[p]
    BY <1>3, <2>1 DEF DropRecording, TypeOK
  <2>3. CameraKept' /\ StreamKept'
    BY <1>3, <1>0, <2>1, <2>2 DEF DropRecording, Idle, TypeOK
  <2>4. ListsKept'
    BY <1>3, <1>0, <2>1, <2>2 DEF DropRecording, Idle, RecordAllocated
  <2> QED
    BY <2>3, <2>4
<1>4. CASE DropLive(o)
  <2>1. camera /\ refs[o] = 1
    BY <1>4, <1>0 DEF DropLive
  <2>2. /\ refs'[o] = 0
        /\ \A p \in Objects \ {o} : refs'[p] = refs[p]
    BY <1>4, <2>1 DEF DropLive, TypeOK
  <2> QED
    BY <1>4, <1>0, <2>1, <2>2 DEF DropLive, Idle, Stops, TypeOK
<1> QED
  BY <1>1, <1>2, <1>3, <1>4

\* Every other step leaves objects and lists alone.
LEMMA OtherStep ==
    ASSUME Good, Disciplined,
           \/ DropCamera \/ StreamAgain \/ VideoThread \/ UNCHANGED vars
           \/ \E o \in Objects :
                FrameLive(o) \/ UseFreed(o) \/ StopRecording(o) \/ StopLive(o)
    PROVE  Parts'
<1> USE StreamerAssumption DEF StreamerAssumption, Good, Parts, CameraKept,
      StreamKept, ListsKept, Exists
<1>1. CASE DropCamera
  BY <1>1 DEF DropCamera, Idle, Stops, Disciplined, Disciplines
<1>2. CASE StreamAgain
  <2>1. Exists(streamerObject) /\ streamerObject \in Objects
    BY <1>2 DEF StreamAgain, TypeOK
  <2>2. /\ refs'[streamerObject] > 0
        /\ \A p \in Objects \ {streamerObject} : refs'[p] = refs[p]
    BY <1>2, <2>1 DEF StreamAgain, TypeOK
  <2> QED
    BY <1>2, <2>1, <2>2 DEF StreamAgain, Idle
<1>3. CASE VideoThread
  BY <1>3 DEF VideoThread, EndsRecording, StopsItself, Stops
<1>4. CASE UNCHANGED vars
  BY <1>4 DEF vars
<1>5. ASSUME NEW o \in Objects,
             FrameLive(o) \/ UseFreed(o) \/ StopRecording(o) \/ StopLive(o)
      PROVE  Parts'
  BY <1>5 DEF FrameLive, UseFreed, StopRecording, StopLive, Starts, Stops, Idle
<1> QED
  BY <1>1, <1>2, <1>3, <1>4, <1>5

LEMMA KeptStep == SInv /\ [Next]_vars => Kept'
<1> SUFFICES ASSUME SInv, [Next]_vars, Disciplined' PROVE Parts'
  BY DEF Kept, Parts
<1>1. discipline' = discipline
  BY DEF Next, Program, VideoThread, NewCamera, DropCamera, Stream, StreamAgain,
     Record, RecordReturns, Load, Copy, Forget, DropRecording, DropLive, FrameLive,
     UseFreed, StopRecording, StopLive, EndsRecording, StopsItself, Fails, vars
<1>2. Good /\ Disciplined
  BY <1>1 DEF SInv, Kept, Good, Disciplined
<1> QED
  BY <1>2, MakerStep, ReferenceStep, OtherStep DEF Next, Program

LEMMA InitInv == Init => SInv
<1> SUFFICES ASSUME Init PROVE SInv
  OBVIOUS
<1>1. TypeOK
  BY SomeRefs DEF Init, TypeOK
<1>2. RecordAllocated
  BY DEF Init, RecordAllocated
<1>3. \A o \in Objects : ~Exists(o)
  BY DEF Init, Exists
<1>4. CameraKept /\ StreamKept /\ ListsKept
  BY <1>3 DEF Init, CameraKept, StreamKept, ListsKept
<1> QED
  BY <1>1, <1>2, <1>4 DEF SInv, Kept

THEOREM Invariance == Spec => []SInv
<1>1. SInv /\ [Next]_vars => SInv'
  BY TypeStep, RecordStep, KeptStep DEF SInv
<1> QED
  BY InitInv, <1>1, PTL DEF Spec

\* Every variable keeps its type, for any number of objects, lists, references.
THEOREM TypeCorrect == Spec => []TypeOK
<1>1. SInv => TypeOK
  BY DEF SInv
<1> QED
  BY Invariance, <1>1, PTL

\* The video thread never appends to a freed list, and a program that takes care
\* never makes the extension use freed memory.
THEOREM MemorySafety == Spec => []NoFreedMemory
<1>1. SInv => NoFreedMemory
  BY DEF SInv, RecordAllocated, Kept, CameraKept, NoFreedMemory
<1> QED
  BY Invariance, <1>1, PTL

\* A list has one owner, so streamer_dealloc frees it once; the stream object is
\* a live stream.
THEOREM Ownership == Spec => []OneOwner
<1>1. SInv => OneOwner
  BY DEF SInv, Kept, StreamKept, ListsKept, OneOwner, StreamIsLive
<1> QED
  BY Invariance, <1>1, PTL

-----------------------------------------------------------------------------
\* A list that stays allocated and had an owner keeps it.
LEMMA OwnedKept ==
    ASSUME Good, Disciplined, [Next]_vars, ~recording,
           NEW l \in alloc \cap alloc', l \in Owned
    PROVE  l \in Owned'
<1>1. PICK o \in Objects : Exists(o) /\ m_record[o] = l
  BY DEF Owned
<1>2. l # None
  BY StreamerAssumption DEF StreamerAssumption, Good, TypeOK
<1> SUFFICES Exists(o)' /\ m_record'[o] = l
  BY <1>1 DEF Owned
<1> USE <1>1, <1>2 DEF Exists
<1>0. refs \in [Objects -> 0 .. MaxRefs] /\ MaxRefs \in Nat
  BY StreamerAssumption DEF StreamerAssumption, Good, TypeOK
<1>3. ASSUME NEW p \in Objects, NEW k, NewStreamer(p, k)
      PROVE  Exists(o)' /\ m_record'[o] = l
  <2>1. /\ refs[p] = 0
        /\ \A q \in Objects \ {p} : refs'[q] = refs[q] /\ m_record'[q] = m_record[q]
    BY <1>3, NewStreamerEffect DEF Good
  <2>2. o # p
    BY <2>1
  <2> QED
    BY <2>1, <2>2
<1>4. CASE Stream \/ RecordReturns \/ Load
  BY <1>3, <1>4 DEF Stream, RecordReturns, Load
<1>5. CASE NewCamera \/ DropCamera \/ Record \/ VideoThread \/ UNCHANGED vars
  BY <1>5 DEF NewCamera, DropCamera, Record, VideoThread, EndsRecording,
              StopsItself, vars
<1>6. CASE StreamAgain
  <2>1. m_record' = m_record
    BY <1>6 DEF StreamAgain, Fails
  <2>2. refs'[o] > 0
    <3>1. CASE refs' = refs
      BY <3>1
    <3>2. CASE refs' = [refs EXCEPT ![streamerObject] = @ + 1]
      BY <1>0, <3>2
    <3> QED
      BY <1>6, <3>1, <3>2 DEF StreamAgain, Fails
  <2> QED
    BY <2>1, <2>2
<1>7. ASSUME NEW p \in Objects,
             \/ Copy(p) \/ Forget(p) \/ DropRecording(p) \/ DropLive(p)
             \/ FrameLive(p) \/ UseFreed(p) \/ StopRecording(p) \/ StopLive(p)
      PROVE  Exists(o)' /\ m_record'[o] = l
  <2>1. refs[p] \in Nat
    BY <1>0
  <2>2. CASE Copy(p) \/ Forget(p)
    <3>1. /\ m_record' = m_record
          /\ \/ refs' = [refs EXCEPT ![p] = @ + 1]
             \/ refs[p] > 1 /\ refs' = [refs EXCEPT ![p] = @ - 1]
      BY <2>2 DEF Copy, Forget
    <3> QED
      BY <1>0, <2>1, <3>1
  <2>3. CASE DropRecording(p)
    BY <2>3 DEF DropRecording, Fails, Good, TypeOK
  <2>4. CASE DropLive(p)
    BY <2>4 DEF DropLive, Fails, Good, TypeOK
  <2>5. CASE FrameLive(p) \/ UseFreed(p) \/ StopRecording(p) \/ StopLive(p)
    BY <2>5 DEF FrameLive, UseFreed, StopRecording, StopLive, Fails
  <2> QED
    BY <1>7, <2>2, <2>3, <2>4, <2>5
<1> QED
  BY <1>4, <1>5, <1>6, <1>7 DEF Next, Program

\* A list is lost only while a record() is under way.
THEOREM LossSafety == Spec => LostOnlyInRecord
<1>1. ASSUME SInv, [Next]_vars, Disciplined, ~recording,
             NEW l \in alloc \cap alloc', l \in Owned \cup {record}
      PROVE  l \in Owned'
  <2>1. Good
    BY <1>1 DEF SInv, Kept, Good
  <2>2. l # None
    BY <2>1, StreamerAssumption DEF StreamerAssumption, Good, TypeOK
  <2>3. l \in Owned
    BY <1>1, <2>1, <2>2 DEF Good, ListsKept, Owned
  <2> QED
    BY <1>1, <2>1, <2>3, OwnedKept
<1>2. SInv /\ [Next]_vars =>
        [Disciplined =>
           \A l \in alloc \cap alloc' :
             l \in Owned \cup {record} /\ l \notin Owned' \cup {record'} =>
               recording]_vars
  BY <1>1
<1> QED
  BY Invariance, <1>2, PTL DEF Spec, LostOnlyInRecord
=============================================================================
