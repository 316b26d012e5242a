--------------------------- MODULE FrameListProofs --------------------------
(***************************************************************************)
(* Proofs about FrameList for every choice of its constants: the inductive *)
(* invariant ListInv, the reader's safety StartedKeepsCursor, for a        *)
(* recording that starts without a shift the refinement of Playback, and   *)
(* what the start shift and the duration promise.                          *)
(***************************************************************************)
EXTENDS FrameList, FiniteSetTheorems, WellFoundedInduction, TLAPS

-----------------------------------------------------------------------------
(* A non-empty set of integers of an interval has a least element.  The    *)
(* library's induction principles take an operator; this one uses that     *)
(* strict inclusion is well-founded on the subsets of a finite set.        *)
LEMMA LeastOfInterval ==
  ASSUME NEW lo \in Int, NEW hi \in Int, NEW T, T \subseteq lo..hi, T # {}
  PROVE  \E x \in T : \A y \in T : x <= y
<1> DEFINE Below == {lo..k : k \in T}
           R == StrictSubsetOrdering(lo..hi)
<1>1. IsWellFoundedOn(R, SUBSET (lo..hi))
  <2>1. IsFiniteSet(lo..hi)
    BY FS_Interval
  <2> QED BY <2>1, FS_FiniteSubsetsOfFinite, FS_StrictSubsetOrderingWellFounded
<1>2. Below \subseteq SUBSET (lo..hi)
  <2>1. \A k \in T : lo..k \subseteq lo..hi
    OBVIOUS
  <2> QED BY <2>1
<1>3. Below # {}
  OBVIOUS
<1>4. PICK B \in Below : \A C \in Below : ~ (<<C, B>> \in R)
  <2> HIDE DEF R, Below
  <2> QED BY <1>1, <1>2, <1>3, WFMin
<1>5. PICK x \in T : B = lo..x
  OBVIOUS
<1>6. ASSUME NEW y \in T, y < x
      PROVE  FALSE
  <2>1. x \in lo..x /\ x \notin lo..y
    BY <1>6
  <2>2. lo..y \subseteq lo..x /\ lo..y # lo..x
    BY <1>6, <2>1
  <2>3. <<lo..y, lo..x>> \in R
    BY <2>2, <1>2, <1>5 DEF StrictSubsetOrdering
  <2> QED BY <2>3, <1>4, <1>5
<1> QED BY <1>6

(* The trimming loop of flistAppend ends, on a node of the list, and every *)
(* node it has passed is older than t.                                     *)
LEMMA FirstKeptIsFirst ==
  ASSUME NEW lo \in Nat, NEW hi \in Nat, lo <= hi,
         NEW stamps, \A k \in lo..hi : stamps[k] \in Int, NEW t \in Int
  PROVE  LET k == FirstKept(lo, hi, stamps, t)
         IN  /\ k \in lo..hi
             /\ k = hi \/ stamps[k] >= t
             /\ \A j \in lo..(k - 1) : stamps[j] < t
<1> DEFINE T == {k \in lo..hi : k = hi \/ stamps[k] >= t}
           First(k) == /\ k = hi \/ stamps[k] >= t
                       /\ \A j \in lo..(k - 1) : stamps[j] < t
<1>1. T \subseteq lo..hi /\ hi \in T /\ T # {}
  OBVIOUS
<1>2. PICK x \in T : \A y \in T : x <= y
  <2> HIDE DEF T
  <2>1. lo \in Int /\ hi \in Int
    OBVIOUS
  <2> QED BY <1>1, <2>1, LeastOfInterval
<1>3. \A j \in lo..(x - 1) : stamps[j] < t
  BY <1>2
<1>4. \E k \in lo..hi : First(k)
  BY <1>2, <1>3
<1> QED BY <1>4 DEF FirstKept

-----------------------------------------------------------------------------
(* The inductive invariant.  ListShape says which nodes are allocated, the *)
(* third conjunct that an empty history leaves the fields as flistInit     *)
(* made them; with m_len <= Len(pts) that makes CursorSound inductive.     *)
ListInv ==
  /\ TypeOK
  /\ ListShape
  /\ CursorSound
  /\ m_len <= Len(pts)
  /\ pts = << >> => m_front = Null /\ m_back = Null /\ m_readNode = HeadSlot
  /\ clock >= -1

(* The stamp of a captured frame is a natural number. *)
LEMMA StampNat ==
  ASSUME TypeOK, clock >= -1, NEW g \in Gaps
  PROVE  Stamp(g) \in Nat /\ T0(Stamp(g)) \in Int
BY ConstantsAssumption DEF TypeOK, Stamp, T0, ConstantsAssumption

(* What an append does to the list: the new node becomes m_back, a suffix  *)
(* of the nodes stays, and nothing is freed once recording has started.    *)
LEMMA AppendEffect ==
  ASSUME ListInv, NEW f \in Nat, T0(f) \in Int, m_recording # 0, FlistAppend(f)
  PROVE  /\ pts' = Append(pts, f) /\ pts' \in Seq(Nat) /\ Len(pts') = Len(pts) + 1
         /\ m_t0' = T0(f)
         /\ m_back' = Len(pts')
         /\ m_front' \in 1..m_back'
         /\ live' = m_front'..m_back'
         /\ m_len' = m_back' + 1 - m_front'
         /\ m_recording' \in {-1, 0, 1}
         /\ m_recording # -1 => m_recording' # -1
         /\ attached' \in BOOLEAN
         /\ m_recording # -1 /\ m_len > 0 => m_front' = m_front
         /\ m_front' = 1 => m_len = Len(pts)
         /\ m_front' = m_back' \/ (m_len > 0 /\ m_front' >= m_front)
         /\ attached' = ~DurationReached(m_front', m_back', pts')
         /\ attached' => m_recording' # 0
         /\ m_startShift > 0 /\ m_recording' = -1 =>
              m_recording = -1 /\ (m_len <= 1 => m_len' = 1)
<1> DEFINE new    == Len(pts) + 1
           stamps == Append(pts, f)
           len    == IF DropsOnly(f) THEN 0 ELSE m_len
           kept   == IF DropsOnly(f) THEN live \ {m_front} ELSE live
           first  == IF len = 0 THEN new ELSE m_front
           rec    == RecordingAfterShift(f)
           front  == IF Trims(rec)
                     THEN FirstKept(first, new, stamps, f + m_startShift)
                     ELSE first
           ends   == DurationReached(front, new, stamps)
<1>1. /\ m_t0' = T0(f)
      /\ pts' = stamps
      /\ m_front' = front
      /\ m_back' = new
      /\ m_len' = len + 1 - (front - first)
      /\ live' = (kept \cup {new}) \ (first..(front - 1))
      /\ m_recording' = (IF ends THEN 0 ELSE rec)
      /\ attached' = ~ends
  BY DEF FlistAppend
<1>2. /\ stamps \in Seq(Nat) /\ Len(stamps) = new /\ new \in Nat
      /\ \A k \in 1..new : stamps[k] \in Nat
  BY DEF ListInv, TypeOK
<1>3. rec \in {-1, 0, 1} /\ (m_recording # -1 => rec = m_recording)
  BY DEF ListInv, TypeOK, RecordingAfterShift
<1>4. /\ first \in 1..new
      /\ kept = first..(new - 1)
      /\ len = new - first
  <2>1. CASE DropsOnly(f)
    <3>1. m_len = 1
      BY <2>1 DEF DropsOnly
    <3>2. live = {m_front}
      BY <3>1 DEF ListInv, ListShape, TypeOK
    <3>3. kept = {} /\ len = 0 /\ first = new
      BY <2>1, <3>2
    <3> HIDE DEF kept, len, first
    <3> QED BY <3>3, <1>2
  <2>2. CASE ~DropsOnly(f) /\ m_len = 0
    <3>1. kept = {} /\ len = 0 /\ first = new
      BY <2>2 DEF ListInv, ListShape
    <3> HIDE DEF kept, len, first
    <3> QED BY <3>1, <1>2
  <2>3. CASE ~DropsOnly(f) /\ m_len # 0
    <3>1. /\ kept = live /\ len = m_len /\ first = m_front
      BY <2>3
    <3>2. /\ m_front \in 1..m_back /\ m_back = Len(pts)
          /\ live = m_front..m_back /\ m_len = m_back + 1 - m_front
      BY <2>3 DEF ListInv, ListShape, TypeOK
    <3> HIDE DEF kept, len, first
    <3> QED BY <3>1, <3>2, <1>2
  <2> QED BY <2>1, <2>2, <2>3
<1>5. front \in first..new
  <2>1. CASE Trims(rec)
    <3>1. f + m_startShift \in Int
      BY DEF ListInv, TypeOK
    <3>2. \A k \in first..new : stamps[k] \in Int
      BY <1>2, <1>4
    <3> HIDE DEF stamps, first, new, rec
    <3>3. first \in Nat /\ new \in Nat /\ first <= new
      BY <1>2, <1>4
    <3>4. FirstKept(first, new, stamps, f + m_startShift) \in first..new
      BY <3>1, <3>2, <3>3, FirstKeptIsFirst
    <3> QED BY <3>4, <2>1
  <2>2. CASE ~Trims(rec)
    <3> HIDE DEF first, new, rec
    <3> QED BY <2>2, <1>4, <1>2
  <2> QED BY <2>1, <2>2
<1>6. m_recording # -1 => front = first
  BY <1>3 DEF Trims
<1>7. m_recording # -1 => ~DropsOnly(f)
  BY DEF DropsOnly, StillShifting
<1>8. first = 1 => m_len = Len(pts)
  <2> SUFFICES ASSUME first = 1 PROVE m_len = Len(pts)
    OBVIOUS
  <2>1. len = Len(pts)
    BY <1>4, <1>2
  <2>2. m_len <= Len(pts) /\ m_len \in Nat /\ Len(pts) \in Nat
    BY DEF ListInv, TypeOK
  <2>3. CASE DropsOnly(f)
    BY <2>1, <2>2, <2>3 DEF DropsOnly
  <2>4. CASE ~DropsOnly(f)
    BY <2>1, <2>4
  <2> QED BY <2>3, <2>4
<1>9. m_recording # -1 /\ m_len > 0 => first = m_front
  BY <1>7 DEF ListInv, TypeOK
<1>10. ends \in BOOLEAN
  BY DEF DurationReached
<1>15. front = new \/ (m_len > 0 /\ front >= m_front)
  <2>1. first = new \/ (m_len > 0 /\ first = m_front)
    BY DEF ListInv, TypeOK
  <2> HIDE DEF front, first
  <2> QED BY <1>4, <1>5, <1>2, <2>1
<1>16. attached' = ~DurationReached(m_front', m_back', pts')
  BY <1>1
<1>17. attached' => m_recording' # 0
  <2>1. rec # 0
    BY DEF RecordingAfterShift
  <2> HIDE DEF rec, ends
  <2> QED BY <1>1, <2>1
<1>18. m_startShift > 0 /\ m_recording' = -1 =>
         m_recording = -1 /\ (m_len <= 1 => m_len' = 1)
  <2> SUFFICES ASSUME m_startShift > 0, m_recording' = -1
               PROVE  m_recording = -1 /\ (m_len <= 1 => m_len' = 1)
    OBVIOUS
  <2>1. rec = -1
    <3> HIDE DEF rec, ends
    <3> QED BY <1>1
  <2>2. m_recording = -1 /\ StillShifting(f, T0(f))
    BY <2>1 DEF RecordingAfterShift
  <2>3. front = first
    BY DEF Trims, ListInv, TypeOK
  <2>4. m_len <= 1 => len = 0
    BY <2>2 DEF DropsOnly, ListInv, TypeOK
  <2> HIDE DEF front, first, len
  <2> QED BY <1>1, <1>4, <1>2, <2>2, <2>3, <2>4
<1> HIDE DEF front, first, len, kept, rec, ends
<1>11. live' = front..new
  BY <1>1, <1>4, <1>5, <1>2
<1>12. m_len' = new + 1 - front
  BY <1>1, <1>4, <1>5, <1>2
<1>13. /\ m_recording' \in {-1, 0, 1}
       /\ m_recording # -1 => m_recording' # -1
  <2>1. m_recording \in {-1, 0, 1}
    BY DEF ListInv, TypeOK
  <2> QED BY <1>1, <1>3, <2>1
<1>14. front = 1 => first = 1
  BY <1>4, <1>5, <1>2
<1> QED BY <1>1, <1>2, <1>4, <1>5, <1>6, <1>8, <1>9, <1>10, <1>11, <1>12, <1>13, <1>14,
           <1>15, <1>16, <1>17, <1>18

-----------------------------------------------------------------------------
(* A fresh list satisfies the invariant. *)
LEMMA InitInv == Init => ListInv
<1> SUFFICES ASSUME Init PROVE ListInv
  OBVIOUS
<1>1. PICK s \in StartShifts, d \in Durations : FlistInit(s, d)
  BY DEF Init
<1>2. s \in Int /\ d \in Nat
  BY ConstantsAssumption DEF ConstantsAssumption
<1>3. pts \in Seq(Nat) /\ Len(pts) = 0
  BY <1>1 DEF FlistInit
<1>4. TypeOK
  <2>1. m_recording \in {-1, 0, 1} /\ m_t0 \in Int /\ clock \in Int /\ out \in Int
    BY <1>1 DEF Init, FlistInit, NoFrame
  <2> QED BY <1>1, <1>2, <1>3, <2>1 DEF Init, FlistInit, TypeOK, Null, HeadSlot
<1>5. ListShape
  BY <1>1 DEF FlistInit, ListShape
<1>6. CursorSound
  BY <1>1, <1>3 DEF FlistInit, CursorSound, CursorUsable, Target, Null, HeadSlot
<1> QED BY <1>1, <1>3, <1>4, <1>5, <1>6 DEF Init, FlistInit, ListInv

(* Capture keeps ListInv: either the frame is tossed or AppendEffect says  *)
(* what became of the list.                                                *)
LEMMA CaptureInv ==
  ASSUME ListInv, NEW g \in Gaps, Capture(g)
  PROVE  ListInv'
<1>1. Stamp(g) \in Nat /\ T0(Stamp(g)) \in Int
  BY StampNat DEF ListInv
<1>2. clock' = Stamp(g) /\ UNCHANGED <<cursor, setup, out, crashed>>
      /\ FlistAppend(Stamp(g))
  BY DEF Capture
<1>3. CASE m_recording = 0
  <2>1. UNCHANGED <<m_recording, list, cursor, setup, m_t0, attached, out, crashed>>
    BY <1>2, <1>3 DEF FlistAppend
  <2>2. TypeOK'
    BY <1>1, <1>2, <2>1 DEF ListInv, TypeOK, list, cursor, setup
  <2>3. ListShape' /\ CursorSound'
    BY <2>1
       DEF ListInv, ListShape, CursorSound, CursorUsable, Target, list, cursor
  <2> QED BY <1>1, <1>2, <2>1, <2>2, <2>3 DEF ListInv, list, cursor
<1>4. CASE m_recording # 0
  <2> DEFINE f == Stamp(g)
  <2>1. /\ pts' = Append(pts, f) /\ pts' \in Seq(Nat) /\ Len(pts') = Len(pts) + 1
        /\ m_t0' = T0(f)
        /\ m_back' = Len(pts')
        /\ m_front' \in 1..m_back'
        /\ live' = m_front'..m_back'
        /\ m_len' = m_back' + 1 - m_front'
        /\ m_recording' \in {-1, 0, 1}
        /\ attached' \in BOOLEAN
        /\ m_front' = 1 => m_len = Len(pts)
    BY <1>1, <1>2, <1>4, AppendEffect
  <2>2. TypeOK'
    BY <2>1, <1>1, <1>2 DEF ListInv, TypeOK, cursor, setup
  <2>3. ListShape'
    BY <2>1 DEF ListShape
  <2>4. CursorSound'
    <3> SUFFICES ASSUME m_len' = Len(pts')
                 PROVE  m_readNode' = m_readIndex' /\ m_readIndex' <= m_len' /\ CursorUsable'
      BY DEF CursorSound
    <3>1. m_front' = 1 /\ Len(pts) \in Nat
      <4>1. Len(pts) \in Nat
        BY DEF ListInv, TypeOK
      <4>2. m_back' \in Nat /\ m_front' \in Nat
        BY <2>1, <4>1
      <4>3. m_back' = m_back' + 1 - m_front'
        BY <2>1
      <4>4. \A a, b \in Nat : a = a + 1 - b => b = 1
        OBVIOUS
      <4> QED BY <4>1, <4>2, <4>3, <4>4
    <3>2. /\ m_readNode = m_readIndex /\ m_readIndex <= Len(pts)
          /\ m_readIndex \in Nat
      BY <2>1, <3>1 DEF ListInv, CursorSound, TypeOK
    <3>3. m_readNode' = m_readNode /\ m_readIndex' = m_readIndex
      BY <1>2 DEF cursor
    <3>4. live' = 1..(Len(pts) + 1) /\ m_back' = Len(pts) + 1
      BY <2>1, <3>1
    <3>5. CursorUsable'
      BY <3>1, <3>2, <3>3, <3>4 DEF CursorUsable, Target, HeadSlot, Null
    <3> QED BY <3>1, <3>2, <3>3, <3>5, <2>1
  <2>5. m_len' <= Len(pts') /\ pts' # << >>
    BY <2>1
  <2> QED BY <2>2, <2>3, <2>4, <2>5, <1>1, <1>2 DEF ListInv
<1> QED BY <1>3, <1>4

(* The operations that leave the list and its reader alone. *)
LEMMA QuietInv ==
  ASSUME ListInv, UNCHANGED <<list, cursor>>,
         m_recording' \in {-1, 0, 1}, m_t0' \in Int,
         m_startShift' \in Int, m_duration' \in Nat,
         attached' \in BOOLEAN, crashed' \in BOOLEAN,
         out' \in Int, clock' \in Int, clock' >= -1
  PROVE  ListInv'
<1>1. TypeOK'
  BY DEF ListInv, TypeOK, list, cursor
<1>2. ListShape' /\ CursorSound'
  BY DEF ListInv, ListShape, CursorSound, CursorUsable, Target, list, cursor
<1> QED BY <1>1, <1>2 DEF ListInv, list, cursor

(* A failed allocation leaves the list as it was, or empty when it had     *)
(* given up the frame kept for streaming.                                  *)
LEMMA CaptureNoNodeInv ==
  ASSUME ListInv, NEW g \in Gaps, CaptureNoNode(g)
  PROVE  ListInv'
<1>1. Stamp(g) \in Nat /\ T0(Stamp(g)) \in Int
  BY StampNat DEF ListInv
<1>2. CASE DropsOnly(Stamp(g))
  <2>1. m_len = 1
    BY <1>2 DEF DropsOnly
  <2>2. live = {m_front} /\ pts # << >> /\ Len(pts) > 0
    BY <2>1 DEF ListInv, ListShape, TypeOK
  <2>3. /\ m_len' = 0 /\ live' = {} /\ pts' = pts
        /\ UNCHANGED <<m_front, m_back, cursor, setup, out, crashed>>
        /\ m_t0' = T0(Stamp(g)) /\ clock' = Stamp(g)
        /\ m_recording' = 0 /\ attached' \in BOOLEAN
    BY <1>2, <2>2 DEF CaptureNoNode
  <2>4. TypeOK'
    BY <1>1, <2>3 DEF ListInv, TypeOK, cursor, setup
  <2>5. ListShape' /\ CursorSound'
    BY <2>2, <2>3 DEF ListShape, CursorSound
  <2> QED BY <1>1, <2>2, <2>3, <2>4, <2>5 DEF ListInv
<1>3. CASE ~DropsOnly(Stamp(g))
  <2>1. UNCHANGED <<list, cursor>>
    BY <1>3 DEF CaptureNoNode, list
  <2>2. /\ m_recording' \in {-1, 0, 1} /\ m_t0' \in Int
        /\ m_startShift' \in Int /\ m_duration' \in Nat
        /\ attached' \in BOOLEAN /\ crashed' \in BOOLEAN
        /\ out' \in Int /\ clock' \in Int /\ clock' >= -1
    <3>1. attached' \in BOOLEAN /\ UNCHANGED <<setup, out, crashed>>
          /\ m_recording' = 0 /\ m_t0' = T0(Stamp(g)) /\ clock' = Stamp(g)
      BY DEF CaptureNoNode
    <3> QED BY <1>1, <3>1 DEF ListInv, TypeOK, setup
  <2> QED BY <2>1, <2>2, QuietInv
<1> QED BY <1>2, <1>3

(* A read leaves the list alone and moves the cursor along it. *)
LEMMA ReadInv ==
  ASSUME ListInv, FlistNext \/ FlistNextFreed
  PROVE  ListInv'
<1>1. /\ UNCHANGED <<m_recording, list, m_t0, setup, attached, clock>>
      /\ crashed' \in BOOLEAN
  BY DEF FlistNext, FlistNextFreed, ListInv, TypeOK
<1>2. live \subseteq 1..Len(pts) /\ \A n \in live : pts[n] \in Nat
  BY DEF ListInv, ListShape, TypeOK
<1>3. CASE UNCHANGED cursor
  <2>1. out' \in Int
    BY <1>2, <1>3 DEF FlistNext, FlistNextFreed, NoFrame, cursor, ListInv, TypeOK,
                      CursorUsable, Null, Target, HeadSlot
  <2> QED BY <1>1, <1>3, <2>1, QuietInv DEF ListInv, TypeOK, setup
<1>4. CASE ~UNCHANGED cursor
  <2>1. PICK n \in live :
          /\ out' = pts[n] /\ m_readNode' = n /\ m_readIndex' = m_readIndex + 1
          /\ CursorUsable => n = Target
    BY <1>4 DEF FlistNext, FlistNextFreed, cursor, CursorUsable, Null
  <2>2. TypeOK'
    BY <1>1, <1>2, <2>1 DEF ListInv, TypeOK, list, setup
  <2>3. ListShape'
    BY <1>1 DEF ListInv, ListShape, list
  <2>4. CursorSound'
    <3> SUFFICES ASSUME m_len = Len(pts)
                 PROVE  m_readNode' = m_readIndex' /\ m_readIndex' <= m_len /\ CursorUsable'
      BY <1>1 DEF CursorSound, list
    <3>1. CursorUsable /\ m_readNode = m_readIndex /\ m_readIndex <= m_len
      BY DEF ListInv, CursorSound
    <3>2. /\ m_len > 0 /\ m_front \in 1..m_back /\ m_back = Len(pts)
          /\ live = m_front..m_back /\ m_len = m_back + 1 - m_front
      BY <2>1 DEF ListInv, ListShape, TypeOK
    <3>3. \A a, b \in Nat : a = a + 1 - b => b = 1
      OBVIOUS
    <3>4. Len(pts) \in Nat /\ m_front = 1 /\ m_readNode \in Nat
      BY <3>2, <3>3 DEF ListInv, TypeOK
    <3>5. n = m_readNode + 1
      BY <2>1, <3>1, <3>2, <3>4 DEF Target, HeadSlot, Null
    <3>6. n \in 1..Len(pts)
      BY <1>2, <2>1
    <3>7. CursorUsable'
      BY <1>1, <2>1, <3>2, <3>4, <3>6 DEF CursorUsable, Target, HeadSlot, Null, list
    <3> QED BY <2>1, <3>1, <3>2, <3>4, <3>5, <3>6, <3>7
  <2> QED BY <1>1, <1>2, <2>1, <2>2, <2>3, <2>4 DEF ListInv, list
<1> QED BY <1>3, <1>4

(* A seek lands on a link of the list. *)
LEMMA SeekInv ==
  ASSUME ListInv, NEW n \in SeekTargets, FlistSeek(n)
  PROVE  ListInv' /\ CursorUsable'
<1>1. /\ n < m_len /\ m_readIndex' = n
      /\ m_readNode' = (IF n = 0 THEN HeadSlot ELSE m_front + n - 1)
      /\ UNCHANGED <<m_recording, list, m_t0, setup, attached, clock, out, crashed>>
  BY DEF FlistSeek
<1>2. n \in Nat
  BY ConstantsAssumption DEF ConstantsAssumption
<1>3. /\ m_len > 0 /\ m_front \in 1..m_back /\ m_back = Len(pts)
      /\ live = m_front..m_back /\ m_len = m_back + 1 - m_front
      /\ Len(pts) \in Nat /\ m_back \in Nat /\ m_front \in Nat
  BY <1>1, <1>2 DEF ListInv, ListShape, TypeOK
<1>4. TypeOK'
  BY <1>1, <1>2, <1>3 DEF ListInv, TypeOK, HeadSlot, list, setup
<1>5. ListShape'
  BY <1>1 DEF ListInv, ListShape, list
<1>6. CursorUsable'
  BY <1>1, <1>2, <1>3 DEF CursorUsable, Target, HeadSlot, Null, list
<1>7. CursorSound'
  <2>1. \A a, b \in Nat : a = a + 1 - b => b = 1
    OBVIOUS
  <2>2. m_len = Len(pts) => m_front = 1
    BY <1>3, <2>1
  <2> QED BY <1>1, <1>2, <1>3, <1>6, <2>2 DEF CursorSound, HeadSlot, list
<1>8. pts # << >>
  BY <1>3
<1> QED BY <1>1, <1>4, <1>5, <1>6, <1>7, <1>8 DEF ListInv, list

(* A list that takes the place of another satisfies the invariant anew. *)
LEMMA RenewInv ==
  ASSUME ListInv, NEW s \in StartShifts, NEW d \in Durations, Renew(s, d)
  PROVE  ListInv' /\ (CursorUsable => CursorUsable')
<1>1. s \in Int /\ d \in Nat
  BY ConstantsAssumption DEF ConstantsAssumption
<1>2. CASE m_front \in live \cup {Null}
  <2>1. /\ FlistReset(s, d) /\ attached' \in BOOLEAN /\ crashed' \in BOOLEAN
        /\ clock' = -1 /\ out' \in Int
    <3>1. /\ FlistReset(s, d) /\ attached' = TRUE /\ crashed' = FALSE
          /\ clock' = -1 /\ out' = NoFrame
      BY <1>2 DEF Renew
    <3>2. attached' \in BOOLEAN /\ crashed' \in BOOLEAN
      BY <3>1
    <3>3. out' \in Int
      BY <3>1 DEF NoFrame
    <3> QED BY <3>1, <3>2, <3>3
  <2>2. pts' \in Seq(Nat) /\ Len(pts') = 0
    BY <2>1 DEF FlistReset
  <2>3. TypeOK'
    <3>1. m_recording' \in {-1, 0, 1} /\ m_t0' \in Int /\ clock' \in Int
      BY <2>1 DEF FlistReset
    <3> QED BY <1>1, <2>1, <2>2, <3>1 DEF FlistReset, TypeOK, Null, HeadSlot
  <2>4. ListShape'
    BY <2>1 DEF FlistReset, ListShape
  <2>5. CursorUsable'
    BY <2>1 DEF FlistReset, CursorUsable, Target, Null, HeadSlot
  <2>6. CursorSound'
    BY <2>1, <2>2, <2>5 DEF FlistReset, CursorSound, Null, HeadSlot
  <2> QED BY <2>1, <2>2, <2>3, <2>4, <2>5, <2>6 DEF FlistReset, ListInv
<1>3. CASE m_front \notin live \cup {Null}
  <2>1. UNCHANGED <<m_recording, list, cursor, m_t0, setup, attached, clock, out>>
        /\ crashed' \in BOOLEAN
    BY <1>3 DEF Renew
  <2>2. ListInv'
    BY <2>1, QuietInv DEF ListInv, TypeOK, setup
  <2> QED BY <2>1, <2>2 DEF CursorUsable, Target, list, cursor
<1> QED BY <1>2, <1>3

(* ListInv is inductive: every operation keeps it. *)
LEMMA NextInv == ListInv /\ [Next]_vars => ListInv'
<1> SUFFICES ASSUME ListInv, [Next]_vars PROVE ListInv'
  OBVIOUS
<1> USE DEF setup
<1>1. ASSUME NEW g \in Gaps, Capture(g) PROVE ListInv'
  BY <1>1, CaptureInv
<1>2. ASSUME NEW g \in Gaps, CaptureNoNode(g) PROVE ListInv'
  BY <1>2, CaptureNoNodeInv
<1>3. CASE Restart
  <2>1. clock' \in Int /\ clock' >= -1
    BY <1>3 DEF Restart
  <2> QED BY <1>3, <2>1, QuietInv DEF Restart, ListInv, TypeOK
<1>4. CASE StopRecord
  <2>1. m_recording' \in {-1, 0, 1} /\ attached' \in BOOLEAN
    BY <1>4 DEF StopRecord
  <2> QED BY <1>4, <2>1, QuietInv DEF StopRecord, ListInv, TypeOK
<1>5. CASE StartRecording
  <2>1. m_recording' \in {-1, 0, 1}
    BY <1>5 DEF StartRecording
  <2> QED BY <1>5, <2>1, QuietInv DEF StartRecording, ListInv, TypeOK
<1>6. CASE FlistNext \/ FlistNextFreed
  BY <1>6, ReadInv
<1>7. ASSUME NEW n \in SeekTargets, FlistSeek(n) PROVE ListInv'
  BY <1>7, SeekInv
<1>8. ASSUME NEW s \in NewShifts, SetStartShift(s) PROVE ListInv'
  <2>1. s \in Int
    BY ConstantsAssumption DEF ConstantsAssumption
  <2> QED BY <1>8, <2>1, QuietInv DEF SetStartShift, ListInv, TypeOK
<1>9. ASSUME NEW d \in NewDurations, SetDuration(d) PROVE ListInv'
  <2>1. d \in Nat
    BY ConstantsAssumption DEF ConstantsAssumption
  <2> QED BY <1>9, <2>1, QuietInv DEF SetDuration, ListInv, TypeOK
<1>10. ASSUME NEW s \in StartShifts, NEW d \in Durations, Renew(s, d) PROVE ListInv'
  BY <1>10, RenewInv
<1>11. CASE UNCHANGED vars
  BY <1>11, QuietInv DEF vars, ListInv, TypeOK
<1> QED BY <1>1, <1>2, <1>3, <1>4, <1>5, <1>6, <1>7, <1>8, <1>9, <1>10, <1>11 DEF Next

(* ListInv holds in every reachable state of every recording. *)
THEOREM Invariance == Spec => []ListInv
<1> QED BY InitInv, NextInv, PTL DEF Spec

(* The fields of FrameList keep to their types in every recording, and the *)
(* node count, the two ends and the allocated nodes always agree.          *)
THEOREM TypeAndShape == Spec => [](TypeOK /\ ListShape)
<1>1. ListInv => TypeOK /\ ListShape
  BY DEF ListInv
<1> QED BY <1>1, Invariance, PTL

(* Whatever interleaving of appends, reads, seeks and attribute changes:   *)
(* while no node was freed, m_readNode and m_readIndex agree and the link  *)
(* that the next flistNext follows is allocated.                           *)
THEOREM CursorSafety == Spec => []CursorSound
<1>1. ListInv => CursorSound
  BY DEF ListInv
<1> QED BY <1>1, Invariance, PTL

-----------------------------------------------------------------------------
(* Nothing that happens once recording has started frees the reader's link *)
LEMMA CursorKept ==
  ListInv /\ [Next]_vars => (CursorUsable /\ m_recording # -1 => CursorUsable')
<1> SUFFICES ASSUME ListInv, [Next]_vars, CursorUsable, m_recording # -1
             PROVE  CursorUsable'
  OBVIOUS
<1>1. ASSUME UNCHANGED <<list, cursor>> PROVE CursorUsable'
  BY <1>1 DEF CursorUsable, Target, list, cursor
<1>2. ASSUME NEW g \in Gaps, Capture(g) PROVE CursorUsable'
  <2>1. CASE m_recording = 0
    BY <1>1, <1>2, <2>1 DEF Capture, FlistAppend
  <2>2. CASE m_recording # 0
    <3>1. Stamp(g) \in Nat /\ T0(Stamp(g)) \in Int
      BY StampNat DEF ListInv
    <3>2. FlistAppend(Stamp(g)) /\ UNCHANGED cursor
      BY <1>2 DEF Capture
    <3>3. /\ Len(pts') = Len(pts) + 1 /\ m_back' = Len(pts')
          /\ m_front' \in 1..m_back' /\ live' = m_front'..m_back'
          /\ m_len > 0 => m_front' = m_front
      BY <2>2, <3>1, <3>2, AppendEffect
    <3>4. Len(pts) \in Nat /\ m_len \in Nat /\ m_readNode \in Nat
      BY DEF ListInv, TypeOK
    <3>5. CASE m_readNode = HeadSlot
      BY <3>2, <3>3, <3>4, <3>5 DEF CursorUsable, Target, HeadSlot, cursor
    <3>6. CASE m_readNode # HeadSlot
      <4>1. m_readNode \in live
        BY <3>6 DEF CursorUsable
      <4>2. m_len > 0 /\ live = m_front..m_back /\ m_back = Len(pts) /\ m_front \in Nat
        BY <4>1, <3>4 DEF ListInv, ListShape, TypeOK
      <4>3. m_readNode \in live' /\ m_readNode + 1 \in live'
        BY <3>3, <3>4, <4>1, <4>2
      <4> QED BY <3>2, <3>6, <4>3 DEF CursorUsable, Target, cursor
    <3> QED BY <3>5, <3>6
  <2> QED BY <2>1, <2>2
<1>3. ASSUME NEW g \in Gaps, CaptureNoNode(g) PROVE CursorUsable'
  <2>1. ~DropsOnly(Stamp(g))
    BY DEF DropsOnly, StillShifting
  <2> QED BY <1>1, <1>3, <2>1 DEF CaptureNoNode, list
<1>4. CASE Restart \/ StopRecord \/ StartRecording
  BY <1>1, <1>4 DEF Restart, StopRecord, StartRecording
<1>5. CASE FlistNext
  <2>1. CASE Target = Null
    BY <1>1, <1>5, <2>1 DEF FlistNext
  <2>2. CASE Target # Null
    <3>1. m_readNode' = Target /\ Target \in live /\ UNCHANGED list
      BY <1>5, <2>2 DEF FlistNext, CursorUsable
    <3>2. /\ m_len > 0 /\ live = m_front..m_back
          /\ m_front \in Nat /\ m_back \in Nat
      BY <3>1 DEF ListInv, ListShape, TypeOK
    <3> QED BY <3>1, <3>2 DEF CursorUsable, Target, HeadSlot, Null, list
  <2> QED BY <2>1, <2>2
<1>6. ASSUME NEW n \in SeekTargets, FlistSeek(n) PROVE CursorUsable'
  BY <1>6, SeekInv
<1>7. ASSUME NEW s \in NewShifts, SetStartShift(s) PROVE CursorUsable'
  BY <1>1, <1>7 DEF SetStartShift
<1>8. ASSUME NEW d \in NewDurations, SetDuration(d) PROVE CursorUsable'
  BY <1>1, <1>8 DEF SetDuration
<1>9. ASSUME NEW s \in StartShifts, NEW d \in Durations, Renew(s, d) PROVE CursorUsable'
  BY <1>9, RenewInv
<1>10. CASE UNCHANGED vars
  BY <1>1, <1>10 DEF vars
<1>11. ~FlistNextFreed
  BY DEF FlistNextFreed
<1> QED BY <1>2, <1>3, <1>4, <1>5, <1>6, <1>7, <1>8, <1>9, <1>10, <1>11 DEF Next

(* A reader of a recording that has started never follows a freed link,    *)
(* however appends, reads, seeks, stops and attribute changes interleave.  *)
THEOREM StartedSafety == Spec => StartedKeepsCursor
<1>1. ListInv /\ [Next]_vars =>
        [CursorUsable /\ m_recording # -1 => CursorUsable']_vars
  BY CursorKept
<1> QED BY <1>1, Invariance, PTL DEF Spec, StartedKeepsCursor

-----------------------------------------------------------------------------
(* Without a start shift no frame is ever given up, so the list is the log *)
(* of Playback and m_readIndex its cursor.                                 *)
PlainInv ==
  /\ ListInv
  /\ m_len = Len(pts)
  /\ m_recording # -1
  /\ ~crashed

(* What a read finds in a list that has lost no node. *)
LEMMA PlainTarget ==
  ASSUME PlainInv
  PROVE  /\ CursorUsable /\ m_readNode = m_readIndex
         /\ m_readIndex \in 0..Len(pts) /\ Len(pts) \in Nat
         /\ Target = (IF m_readIndex = Len(pts) THEN Null ELSE m_readIndex + 1)
         /\ m_front \in live \cup {Null}
         /\ m_len > 0 => m_front = 1
<1>1. /\ CursorUsable /\ m_readNode = m_readIndex /\ m_readIndex <= Len(pts)
      /\ Len(pts) \in Nat /\ m_readIndex \in Nat /\ m_len = Len(pts)
      /\ m_front \in Nat /\ m_back \in Nat
  BY DEF PlainInv, ListInv, CursorSound, TypeOK
<1>2. CASE Len(pts) = 0
  <2>1. pts = << >>
    BY <1>2 DEF PlainInv, ListInv, TypeOK
  <2>2. m_front = Null /\ m_back = Null
    BY <2>1 DEF PlainInv, ListInv
  <2> QED BY <1>1, <1>2, <2>2 DEF Target, HeadSlot, Null
<1>3. CASE Len(pts) > 0
  <2>1. /\ m_front \in 1..m_back /\ m_back = Len(pts)
        /\ live = m_front..m_back /\ m_len = m_back + 1 - m_front
    BY <1>1, <1>3 DEF PlainInv, ListInv, ListShape
  <2>2. \A a, b \in Nat : a = a + 1 - b => b = 1
    OBVIOUS
  <2>3. m_front = 1
    BY <1>1, <2>1, <2>2
  <2> QED BY <1>1, <1>3, <2>1, <2>3 DEF Target, HeadSlot, Null
<1> QED BY <1>1, <1>2, <1>3

(* Every step of a recording without a start shift is a step of Playback,  *)
(* and keeps PlainInv.                                                     *)
LEMMA PlainStep ==
  ASSUME StartShifts = {0}, PlainInv, [Next]_vars
  PROVE  PlainInv' /\ [Log!Next]_(Log!vars)
<1> USE DEF setup
<1>1. ListInv'
  BY NextInv DEF PlainInv
<1>2. ASSUME UNCHANGED <<list, m_readIndex, out, crashed>>, m_recording' # -1
      PROVE  PlainInv' /\ [Log!Next]_(Log!vars)
  BY <1>1, <1>2 DEF PlainInv, list, Log!vars
<1>3. ASSUME NEW g \in Gaps, Capture(g) PROVE PlainInv' /\ [Log!Next]_(Log!vars)
  <2>1. CASE m_recording = 0
    BY <1>2, <1>3, <2>1 DEF Capture, FlistAppend, cursor
  <2>2. CASE m_recording # 0
    <3>1. Stamp(g) \in Nat /\ T0(Stamp(g)) \in Int
      BY StampNat DEF PlainInv, ListInv
    <3>2. /\ FlistAppend(Stamp(g)) /\ UNCHANGED <<m_readIndex, out, crashed>>
      BY <1>3 DEF Capture, cursor
    <3>3. /\ pts' = Append(pts, Stamp(g)) /\ pts' \in Seq(Nat)
          /\ Len(pts') = Len(pts) + 1 /\ m_back' = Len(pts')
          /\ m_front' \in 1..m_back' /\ m_len' = m_back' + 1 - m_front'
          /\ m_recording' # -1
          /\ m_len > 0 => m_front' = m_front
      BY <2>2, <3>1, <3>2, AppendEffect DEF PlainInv
    <3>4. m_front' = 1
      BY <3>3, PlainTarget DEF PlainInv
    <3>5. m_len' = Len(pts')
      BY <3>3, <3>4
    <3>6. pts'[Len(pts')] \in Nat /\ pts'[Len(pts')] = Stamp(g)
      BY <3>1, <3>3, PlainTarget
    <3>7. Log!Record
      BY <3>2, <3>3, <3>6 DEF Log!Record
    <3> QED BY <1>1, <3>2, <3>3, <3>5, <3>7 DEF PlainInv, Log!Next
  <2> QED BY <2>1, <2>2
<1>4. ASSUME NEW g \in Gaps, CaptureNoNode(g) PROVE PlainInv' /\ [Log!Next]_(Log!vars)
  <2>1. ~DropsOnly(Stamp(g))
    BY DEF DropsOnly, StillShifting, PlainInv
  <2>2. m_recording' # -1
    BY <1>4 DEF CaptureNoNode
  <2> QED BY <1>2, <1>4, <2>1, <2>2 DEF CaptureNoNode, list, cursor
<1>5. CASE Restart \/ StopRecord \/ StartRecording
  <2>1. m_recording' # -1
    BY <1>5 DEF Restart, StopRecord, StartRecording, PlainInv
  <2> QED BY <1>2, <1>5, <2>1 DEF Restart, StopRecord, StartRecording, cursor
<1>6. CASE FlistNext
  <2>1. UNCHANGED <<m_recording, list, crashed>>
    BY <1>6 DEF FlistNext
  <2>2. PlainInv'
    BY <1>1, <2>1 DEF PlainInv, list
  <2>3. CASE Target = Null
    <3>1. Log!ReadAtEnd
      BY <1>6, <2>1, <2>3, PlainTarget DEF FlistNext, Log!ReadAtEnd, list, cursor, Null
    <3> QED BY <2>2, <3>1 DEF Log!Next
  <2>4. CASE Target # Null
    <3>1. /\ out' = pts[Target] /\ m_readIndex' = m_readIndex + 1
          /\ Target = m_readIndex + 1 /\ m_readIndex < Len(pts)
      BY <1>6, <2>4, PlainTarget DEF FlistNext
    <3>2. Log!Read
      BY <2>1, <3>1 DEF Log!Read, list
    <3> QED BY <2>2, <3>2 DEF Log!Next
  <2> QED BY <2>3, <2>4
<1>7. ASSUME NEW n \in SeekTargets, FlistSeek(n) PROVE PlainInv' /\ [Log!Next]_(Log!vars)
  <2>1. n \in 0..(Len(pts) - 1)
    BY <1>7, ConstantsAssumption, PlainTarget DEF FlistSeek, PlainInv, ConstantsAssumption
  <2>2. Log!Seek(n)
    BY <1>7 DEF FlistSeek, Log!Seek, list
  <2>3. PlainInv'
    BY <1>1, <1>7 DEF FlistSeek, PlainInv, list
  <2> QED BY <2>1, <2>2, <2>3 DEF Log!Next
<1>8. ASSUME NEW s \in NewShifts, SetStartShift(s) PROVE PlainInv' /\ [Log!Next]_(Log!vars)
  BY <1>2, <1>8 DEF SetStartShift, PlainInv, cursor
<1>9. ASSUME NEW d \in NewDurations, SetDuration(d) PROVE PlainInv' /\ [Log!Next]_(Log!vars)
  BY <1>2, <1>9 DEF SetDuration, PlainInv, cursor
<1>10. ASSUME NEW s \in StartShifts, NEW d \in Durations, Renew(s, d)
       PROVE  PlainInv' /\ [Log!Next]_(Log!vars)
  <2>1. s = 0
    OBVIOUS
  <2>2. FlistReset(s, d) /\ out' = NoFrame /\ ~crashed'
    BY <1>10, PlainTarget DEF Renew
  <2>3. Log!Renew
    BY <2>2 DEF FlistReset, Log!Renew
  <2>4. m_recording' # -1 /\ m_len' = 0 /\ pts' = << >>
    BY <2>1, <2>2 DEF FlistReset
  <2> QED BY <1>1, <2>2, <2>3, <2>4 DEF PlainInv, Log!Next
<1>11. CASE UNCHANGED vars
  BY <1>2, <1>11 DEF vars, cursor, PlainInv
<1>12. ~FlistNextFreed
  BY PlainTarget DEF FlistNextFreed
<1> QED BY <1>3, <1>4, <1>5, <1>6, <1>7, <1>8, <1>9, <1>10, <1>11, <1>12 DEF Next

(* A recording that starts without a shift is Playback: its frames are a   *)
(* log that only grows, and reads and seeks walk it without loss, repeat   *)
(* or disturbance by the capture thread, and without touching freed memory *)
THEOREM Implements ==
  ASSUME StartShifts = {0}
  PROVE  Spec => PlaybackSpec
<1>1. Init => PlainInv /\ Log!Init
  <2> SUFFICES ASSUME Init PROVE PlainInv /\ Log!Init
    OBVIOUS
  <2>1. PICK d \in Durations : FlistInit(0, d)
    BY DEF Init
  <2>2. PlainInv
    BY <2>1, InitInv DEF Init, FlistInit, PlainInv
  <2>3. Log!Init
    BY <2>1 DEF Init, FlistInit, Log!Init
  <2> QED BY <2>2, <2>3
<1>2. PlainInv /\ [Next]_vars => PlainInv' /\ [Log!Next]_(Log!vars)
  BY PlainStep
<1> QED BY <1>1, <1>2, PTL DEF Spec, PlaybackSpec, Log!Spec

-----------------------------------------------------------------------------
(* While the start shift is not changed under way, a list that waits for a *)
(* positive shift never keeps more than the frame that is streamed.        *)
KeepInv == ListInv /\ KeepsOneFrame

THEOREM KeepsOne ==
  ASSUME NewShifts = {}
  PROVE  Spec => []KeepsOneFrame
<1>1. Init => KeepInv
  BY InitInv DEF Init, FlistInit, KeepInv, KeepsOneFrame
<1>2. KeepInv /\ [Next]_vars => KeepInv'
  <2> SUFFICES ASSUME KeepInv, [Next]_vars PROVE KeepsOneFrame'
    BY NextInv DEF KeepInv
  <2> USE DEF KeepsOneFrame, list, setup
  <2>1. ASSUME NEW g \in Gaps, Capture(g) PROVE KeepsOneFrame'
    <3>1. Stamp(g) \in Nat /\ T0(Stamp(g)) \in Int /\ m_len \in Nat
      BY StampNat DEF KeepInv, ListInv, TypeOK
    <3>2. FlistAppend(Stamp(g)) /\ m_startShift' = m_startShift
      BY <2>1 DEF Capture
    <3>3. CASE m_recording = 0
      BY <3>2, <3>3 DEF FlistAppend
    <3>4. CASE m_recording # 0
      <4>1. m_startShift > 0 /\ m_recording' = -1 =>
              m_recording = -1 /\ (m_len <= 1 => m_len' = 1)
        BY <3>1, <3>2, <3>4, AppendEffect DEF KeepInv
      <4> QED BY <3>2, <4>1 DEF KeepInv
    <3> QED BY <3>3, <3>4
  <2>2. ASSUME NEW g \in Gaps, CaptureNoNode(g) PROVE KeepsOneFrame'
    BY <2>2 DEF CaptureNoNode
  <2>3. CASE Restart \/ StopRecord \/ StartRecording
    BY <2>3 DEF Restart, StopRecord, StartRecording, KeepInv
  <2>4. CASE FlistNext \/ FlistNextFreed
    BY <2>4 DEF FlistNext, FlistNextFreed, KeepInv
  <2>5. ASSUME NEW n \in SeekTargets, FlistSeek(n) PROVE KeepsOneFrame'
    BY <2>5 DEF FlistSeek, KeepInv
  <2>6. ASSUME NEW d \in NewDurations, SetDuration(d) PROVE KeepsOneFrame'
    BY <2>6 DEF SetDuration, KeepInv
  <2>7. ASSUME NEW s \in StartShifts, NEW d \in Durations, Renew(s, d) PROVE KeepsOneFrame'
    BY <2>7 DEF Renew, FlistReset, KeepInv
  <2>8. CASE UNCHANGED vars
    BY <2>8 DEF vars, KeepInv
  <2> QED BY <2>1, <2>2, <2>3, <2>4, <2>5, <2>6, <2>7, <2>8 DEF Next
<1>3. KeepInv => KeepsOneFrame
  BY DEF KeepInv
<1> QED BY <1>1, <1>2, <1>3, PTL DEF Spec

-----------------------------------------------------------------------------
(* The stamps of a list do not run backwards, the clock shows the newest   *)
(* one, and a list that still records has not reached its duration.        *)
Ordered ==
  /\ \A i, j \in 1..Len(pts) : i <= j => pts[i] <= pts[j]
  /\ attached => m_recording # 0
  /\ attached /\ pts # << >> => clock = pts[Len(pts)]

Within ==
  attached /\ m_duration # 0 /\ m_len > 0 => pts[m_back] - pts[m_front] < m_duration

OvershootInv ==
  ListInv /\ Ordered /\ Within /\ NoOvershoot /\ m_duration \in Durations

(* What an append adds to them.  The time from the first to the new frame  *)
(* is less than the duration and a gap, so that flistTime does not wrap.   *)
LEMMA AppendWithin ==
  ASSUME OvershootInv, NEW g \in Gaps, Capture(g),
         \A d \in Durations : d + g < TimeMod
  PROVE  Ordered' /\ Within' /\ NoOvershoot'
<1> DEFINE f == Stamp(g)
<1>0. \A a, b, c, d, e \in Int : a <= b /\ c <= d /\ b - c < e => a - d < e
  OBVIOUS
<1>1. /\ f \in Nat /\ T0(f) \in Int /\ attached /\ m_recording # 0
      /\ clock' = f /\ m_duration' = m_duration /\ FlistAppend(f)
  BY StampNat DEF OvershootInv, ListInv, Ordered, Capture, setup
<1>2. /\ pts' = Append(pts, f) /\ pts' \in Seq(Nat) /\ Len(pts') = Len(pts) + 1
      /\ m_back' = Len(pts') /\ m_front' \in 1..m_back'
      /\ live' = m_front'..m_back' /\ m_len' = m_back' + 1 - m_front'
      /\ m_front' = m_back' \/ (m_len > 0 /\ m_front' >= m_front)
      /\ attached' = ~DurationReached(m_front', m_back', pts')
      /\ attached' => m_recording' # 0
  BY <1>1, AppendEffect DEF OvershootInv
<1>3. /\ pts \in Seq(Nat) /\ Len(pts) \in Nat /\ g \in Nat /\ m_duration \in Nat
      /\ TimeMod \in Nat \ {0} /\ m_duration + g < TimeMod
  BY ConstantsAssumption DEF OvershootInv, ListInv, TypeOK, ConstantsAssumption
<1>4. /\ \A n \in 1..Len(pts) : pts'[n] = pts[n] /\ pts[n] \in Nat
      /\ pts'[Len(pts')] = f
  BY <1>1, <1>2, <1>3
<1>5. Len(pts) > 0 => f = pts[Len(pts)] + g
  <2> SUFFICES ASSUME Len(pts) > 0 PROVE f = pts[Len(pts)] + g
    OBVIOUS
  <2>1. clock = pts[Len(pts)] /\ pts[Len(pts)] \in Nat
    BY <1>1, <1>3 DEF OvershootInv, Ordered
  <2> QED BY <2>1, <1>3 DEF Stamp
<1> HIDE DEF f
<1>6. \A i, j \in 1..Len(pts') : i <= j => pts'[i] <= pts'[j]
  <2> SUFFICES ASSUME NEW i \in 1..Len(pts'), NEW j \in 1..Len(pts'), i <= j
               PROVE  pts'[i] <= pts'[j]
    OBVIOUS
  <2>1. CASE j <= Len(pts)
    <3>1. i \in 1..Len(pts) /\ j \in 1..Len(pts)
      BY <2>1, <1>2, <1>3
    <3>2. pts[i] <= pts[j]
      BY <3>1 DEF OvershootInv, Ordered
    <3> QED BY <3>1, <3>2, <1>4
  <2>2. CASE j = Len(pts') /\ i <= Len(pts)
    <3>1. i \in 1..Len(pts) /\ Len(pts) \in 1..Len(pts)
      BY <2>2, <1>2, <1>3
    <3>2. pts[i] <= pts[Len(pts)]
      BY <3>1 DEF OvershootInv, Ordered
    <3> QED BY <2>2, <3>1, <3>2, <1>3, <1>4, <1>5
  <2>3. CASE i = Len(pts') /\ j = Len(pts')
    BY <2>3, <1>1, <1>4
  <2> QED BY <2>1, <2>2, <2>3, <1>2, <1>3
<1>7. Ordered'
  <2>1. attached' /\ pts' # << >> => clock' = pts'[Len(pts')]
    BY <1>1, <1>4 DEF f
  <2> QED BY <1>2, <1>6, <2>1 DEF Ordered
<1>8. ASSUME NEW n \in live', n # m_back', m_duration # 0
      PROVE  pts'[n] - pts'[m_front'] < m_duration
  <2>1. /\ n \in 1..Len(pts) /\ n <= Len(pts) /\ m_len > 0
        /\ m_front' \in 1..Len(pts) /\ m_front' >= m_front
    BY <1>2, <1>3, <1>8
  <2>2. m_front \in 1..Len(pts) /\ m_back = Len(pts)
    BY <2>1 DEF OvershootInv, ListInv, ListShape, TypeOK
  <2>3. pts[m_back] - pts[m_front] < m_duration
    BY <1>1, <1>8, <2>1 DEF OvershootInv, Within
  <2>4. pts[n] <= pts[m_back] /\ pts[m_front] <= pts[m_front']
    BY <2>1, <2>2 DEF OvershootInv, Ordered
  <2>5. /\ pts'[n] = pts[n] /\ pts'[m_front'] = pts[m_front'] /\ pts[n] \in Nat
        /\ pts[m_front'] \in Nat /\ pts[m_back] \in Nat /\ pts[m_front] \in Nat
    BY <1>4, <2>1, <2>2
  <2>6. /\ pts[n] \in Int /\ pts[m_back] \in Int /\ pts[m_front] \in Int
        /\ pts[m_front'] \in Int /\ m_duration \in Int
    BY <2>5, <1>3
  <2>7. pts[n] - pts[m_front'] < m_duration
    BY <2>3, <2>4, <2>6, <1>0
  <2> QED BY <2>5, <2>7
<1>9. NoOvershoot'
  BY <1>1, <1>8 DEF NoOvershoot
<1>10. Within'
  <2> SUFFICES ASSUME attached', m_duration # 0
               PROVE  pts'[m_back'] - pts'[m_front'] < m_duration
    BY <1>1 DEF Within
  <2> DEFINE span == pts'[m_back'] - pts'[m_front']
  <2>1. span \in Int /\ span >= 0
    BY <1>2, <1>6
  <2>2. span < m_duration + g
    <3>1. CASE m_front' = m_back'
      BY <3>1, <1>2, <1>3
    <3>2. CASE m_front' # m_back'
      <4>1. /\ m_len > 0 /\ m_front' >= m_front /\ m_front' \in 1..Len(pts)
        BY <1>2, <1>3, <3>2
      <4>2. m_front \in 1..Len(pts) /\ m_back = Len(pts) /\ m_back \in 1..Len(pts)
        BY <4>1 DEF OvershootInv, ListInv, ListShape, TypeOK
      <4>3. pts[m_back] - pts[m_front] < m_duration
        BY <1>1, <4>1 DEF OvershootInv, Within
      <4>4. pts[m_front] <= pts[m_front']
        BY <4>1, <4>2 DEF OvershootInv, Ordered
      <4>5. /\ pts'[m_front'] = pts[m_front'] /\ pts'[m_back'] = pts[m_back] + g
            /\ pts[m_front'] \in Nat /\ pts[m_back] \in Nat /\ pts[m_front] \in Nat
        BY <1>2, <1>4, <1>5, <4>1, <4>2
      <4>6. pts[m_back] - pts[m_front'] < m_duration
        <5>1. /\ pts[m_back] \in Int /\ pts[m_front] \in Int
              /\ pts[m_front'] \in Int /\ m_duration \in Int
          BY <4>5, <1>3
        <5> QED BY <4>3, <4>4, <5>1, <1>0
      <4>7. \A a, b, c, d \in Nat : a - b < c => (a + d) - b < c + d
        OBVIOUS
      <4>8. (pts[m_back] + g) - pts[m_front'] < m_duration + g
        BY <4>5, <4>6, <4>7, <1>3
      <4> QED BY <4>5, <4>8
    <3> QED BY <3>1, <3>2
  <2>3. span % TimeMod < m_duration
    <3>1. ~DurationReached(m_front', m_back', pts')
      BY <1>2
    <3>2. ~((pts'[m_back'] - pts'[m_front']) % TimeMod >= m_duration)
      BY <3>1 DEF DurationReached, FlistTime
    <3>3. span % TimeMod \in Int
      <4> HIDE DEF span
      <4> QED BY <2>1, <1>3
    <3>4. ~(span % TimeMod >= m_duration)
      BY <3>2
    <3> HIDE DEF span
    <3> QED BY <3>3, <3>4, <1>3
  <2>4. span % TimeMod = span
    <3>1. span < TimeMod
      BY <2>1, <2>2, <1>3
    <3> HIDE DEF span
    <3> QED BY <2>1, <3>1, <1>3
  <2> HIDE DEF span
  <2> QED BY <2>3, <2>4 DEF span
<1> QED BY <1>7, <1>9, <1>10

(* Without a change of the duration or a restart under way, and with       *)
(* durations that leave room for a gap below flistTime's 32 bits, no       *)
(* recording is extended past the first frame that reaches its duration.   *)
THEOREM DurationKept ==
  ASSUME NewDurations = {}, Restarts = FALSE,
         \A d \in Durations, g \in Gaps : d + g < TimeMod
  PROVE  Spec => []NoOvershoot
<1>1. Init => OvershootInv
  <2> SUFFICES ASSUME Init PROVE OvershootInv
    OBVIOUS
  <2>1. PICK s \in StartShifts, d \in Durations : FlistInit(s, d)
    BY DEF Init
  <2>2. pts = << >> /\ Len(pts) = 0 /\ m_len = 0 /\ m_duration = d /\ m_recording # 0
    BY <2>1 DEF FlistInit
  <2> QED BY <2>2, InitInv DEF OvershootInv, Ordered, Within, NoOvershoot
<1>2. OvershootInv /\ [Next]_vars => OvershootInv'
  <2> SUFFICES ASSUME OvershootInv, [Next]_vars PROVE OvershootInv'
    OBVIOUS
  <2>1. ListInv'
    BY NextInv DEF OvershootInv
  <2>2. ASSUME UNCHANGED <<list, m_duration>>, attached' => attached /\ m_recording' # 0,
               attached' => clock' = clock
        PROVE  OvershootInv'
    BY <2>1, <2>2 DEF OvershootInv, Ordered, Within, NoOvershoot, list
  <2> USE DEF setup
  <2>3. ASSUME NEW g \in Gaps, Capture(g) PROVE OvershootInv'
    <3>1. m_duration' = m_duration
      BY <2>3 DEF Capture
    <3> QED BY <2>1, <2>3, <3>1, AppendWithin DEF OvershootInv
  <2>4. ASSUME NEW g \in Gaps, CaptureNoNode(g) PROVE OvershootInv'
    <3>1. ~attached' /\ UNCHANGED <<pts, m_back, m_front, m_duration>>
      BY <2>4 DEF CaptureNoNode
    <3>2. live' \subseteq live /\ (m_len' = m_len \/ m_len' = 0)
      BY <2>4 DEF CaptureNoNode
    <3> QED BY <2>1, <3>1, <3>2 DEF OvershootInv, Ordered, Within, NoOvershoot
  <2>5. CASE StopRecord
    BY <2>2, <2>5 DEF StopRecord
  <2>6. CASE StartRecording
    BY <2>2, <2>6 DEF StartRecording
  <2>7. CASE FlistNext \/ FlistNextFreed
    BY <2>2, <2>7 DEF FlistNext, FlistNextFreed, OvershootInv, Ordered
  <2>8. ASSUME NEW n \in SeekTargets, FlistSeek(n) PROVE OvershootInv'
    BY <2>2, <2>8 DEF FlistSeek, OvershootInv, Ordered
  <2>9. ASSUME NEW s \in NewShifts, SetStartShift(s) PROVE OvershootInv'
    BY <2>2, <2>9 DEF SetStartShift, OvershootInv, Ordered
  <2>10. ASSUME NEW s \in StartShifts, NEW d \in Durations, Renew(s, d) PROVE OvershootInv'
    <3>1. CASE m_front \in live \cup {Null}
      <4>1. pts' = << >> /\ Len(pts') = 0 /\ m_len' = 0 /\ m_duration' = d /\ m_recording' # 0
        BY <2>10, <3>1 DEF Renew, FlistReset
      <4> QED BY <2>1, <4>1 DEF OvershootInv, Ordered, Within, NoOvershoot
    <3>2. CASE m_front \notin live \cup {Null}
      BY <2>2, <2>10, <3>2 DEF Renew, OvershootInv, Ordered
    <3> QED BY <3>1, <3>2
  <2>11. CASE UNCHANGED vars
    BY <2>2, <2>11 DEF vars, OvershootInv, Ordered
  <2>12. ~Restart
    BY DEF Restart
  <2> QED BY <2>3, <2>4, <2>5, <2>6, <2>7, <2>8, <2>9, <2>10, <2>11, <2>12 DEF Next
<1>3. OvershootInv => NoOvershoot
  BY DEF OvershootInv
<1> QED BY <1>1, <1>2, <1>3, PTL DEF Spec

-----------------------------------------------------------------------------
(* While it waits for a negative shift, an append trims the list to a      *)
(* suffix that starts with the first node that is not older than the shift *)
LEMMA AppendTrims ==
  ASSUME ListInv, m_startShift < 0, m_recording = -1, NEW f \in Nat, FlistAppend(f)
  PROVE  LET new == Len(pts) + 1 IN
         /\ pts' = Append(pts, f)
         /\ \E first \in 1..new, front \in 1..new :
              /\ live = first..(new - 1) /\ live' = front..new /\ first <= front
              /\ front = new \/ pts'[front] >= f + m_startShift
              /\ \A j \in first..(front - 1) : pts'[j] < f + m_startShift
<1> DEFINE new    == Len(pts) + 1
           stamps == Append(pts, f)
           first  == IF m_len = 0 THEN new ELSE m_front
           t      == f + m_startShift
           front  == FirstKept(first, new, stamps, t)
<1>1. ~DropsOnly(f) /\ Trims(RecordingAfterShift(f)) /\ t \in Int
  BY DEF DropsOnly, StillShifting, Trims, RecordingAfterShift, ListInv, TypeOK
<1>2. pts' = stamps /\ live' = (live \cup {new}) \ (first..(front - 1))
  BY <1>1 DEF FlistAppend
<1>3. new \in Nat /\ \A k \in 1..new : stamps[k] \in Int
  BY DEF ListInv, TypeOK
<1>4. first \in 1..new /\ live = first..(new - 1)
  <2>1. Len(pts) \in Nat /\ m_len \in Nat
    BY DEF ListInv, TypeOK
  <2>2. CASE m_len = 0
    <3>1. live = {} /\ first = new
      BY <2>2 DEF ListInv, ListShape
    <3> HIDE DEF first
    <3> QED BY <2>1, <3>1
  <2>3. CASE m_len # 0
    <3>1. /\ first = m_front /\ m_front \in 1..m_back /\ m_back = Len(pts)
          /\ live = m_front..m_back
      BY <2>1, <2>3 DEF ListInv, ListShape
    <3> HIDE DEF first
    <3> QED BY <2>1, <3>1
  <2> QED BY <2>2, <2>3
<1>5. /\ front \in first..new
      /\ front = new \/ stamps[front] >= t
      /\ \A j \in first..(front - 1) : stamps[j] < t
  <2> HIDE DEF new, stamps, first, t
  <2>1. first \in Nat /\ first <= new /\ \A k \in first..new : stamps[k] \in Int
    BY <1>3, <1>4
  <2> QED BY <2>1, <1>1, <1>3, FirstKeptIsFirst DEF front
<1> HIDE DEF stamps, first, front, t, new
<1>6. live' = front..new
  BY <1>2, <1>3, <1>4, <1>5
<1>7. front \in 1..new /\ first <= front
  BY <1>3, <1>4, <1>5
<1> QED BY <1>2, <1>4, <1>5, <1>6, <1>7 DEF t, stamps, new

(* So, as long as its stamps do not run backwards, it has exactly the      *)
(* frames that a start at this moment needs.                               *)
THEOREM PrerollKept == Spec => PrerollWindow
<1> DEFINE Kept ==
      /\ Len(pts') = Len(pts) + 1
      /\ m_startShift < 0 /\ m_recording = -1
      /\ \A n \in live : \A k \in live \cup {Len(pts')} : n <= k => pts'[n] <= pts'[k]
      => live' = {n \in live \cup {Len(pts')} : pts'[n] >= pts'[Len(pts')] + m_startShift}
<1>1. ListInv /\ [Next]_vars => [Kept]_vars
  <2> SUFFICES ASSUME ListInv, Next, Len(pts') = Len(pts) + 1,
                      m_startShift < 0, m_recording = -1,
                      \A n \in live : \A k \in live \cup {Len(pts')} :
                        n <= k => pts'[n] <= pts'[k]
               PROVE  live' = {n \in live \cup {Len(pts')} :
                                 pts'[n] >= pts'[Len(pts')] + m_startShift}
    OBVIOUS
  <2>1. Len(pts) \in Nat /\ pts \in Seq(Nat) /\ m_startShift \in Int
    BY DEF ListInv, TypeOK
  <2>2. pts' # pts
    BY <2>1
  <2>3. PICK g \in Gaps : Capture(g)
    <3>1. ASSUME NEW s \in StartShifts, NEW d \in Durations, Renew(s, d) PROVE FALSE
      <4>1. pts' = << >> \/ pts' = pts
        BY <3>1 DEF Renew, FlistReset, list
      <4>2. Len(pts') # 0
        BY <2>1
      <4> QED BY <2>2, <4>1, <4>2
    <3>2. ASSUME \/ \E g \in Gaps : CaptureNoNode(g)
                 \/ Restart \/ StopRecord \/ StartRecording \/ FlistNext \/ FlistNextFreed
                 \/ \E n \in SeekTargets : FlistSeek(n)
                 \/ \E s \in NewShifts : SetStartShift(s)
                 \/ \E d \in NewDurations : SetDuration(d)
          PROVE  FALSE
      BY <2>2, <3>2 DEF CaptureNoNode, Restart, StopRecord, StartRecording,
         FlistNext, FlistNextFreed, FlistSeek, SetStartShift, SetDuration, list
    <3> QED BY <3>1, <3>2 DEF Next
  <2> DEFINE f == Stamp(g)
             new == Len(pts) + 1
             t == f + m_startShift
  <2>4. f \in Nat /\ FlistAppend(f)
    BY <2>3, StampNat DEF Capture, ListInv
  <2> HIDE DEF f
  <2>5. PICK first \in 1..new, front \in 1..new :
          /\ live = first..(new - 1) /\ live' = front..new /\ first <= front
          /\ front = new \/ pts'[front] >= t
          /\ \A j \in first..(front - 1) : pts'[j] < t
    BY <2>4, AppendTrims
  <2>6. pts' = Append(pts, f)
    BY <2>4, AppendTrims
  <2>7. /\ pts'[new] = f /\ Len(pts') = new
        /\ \A n \in 1..new : pts'[n] \in Nat
    BY <2>1, <2>4, <2>6
  <2>8. \A n \in front..new : pts'[n] >= t
    <3> SUFFICES ASSUME NEW n \in front..new PROVE pts'[n] >= t
      OBVIOUS
    <3>1. CASE n = new
      BY <2>1, <2>4, <2>7, <3>1
    <3>2. CASE n # new
      <4>1. front \in live /\ n \in live /\ front <= n /\ front # new
        BY <2>1, <2>5, <3>2
      <4>2. pts'[front] <= pts'[n] /\ pts'[front] >= t
        BY <2>5, <4>1
      <4>3. pts'[front] \in Int /\ pts'[n] \in Int /\ t \in Int
        <5>1. front \in 1..new /\ n \in 1..new
          BY <2>1, <2>5
        <5> QED BY <2>1, <2>4, <2>7, <5>1
      <4>4. \A a, b, c \in Int : a <= b /\ a >= c => b >= c
        OBVIOUS
      <4> QED BY <4>2, <4>3, <4>4
    <3> QED BY <3>1, <3>2
  <2>9. \A n \in first..new : n \in front..new <=> pts'[n] >= t
    <3> SUFFICES ASSUME NEW n \in first..new, n \notin front..new PROVE ~(pts'[n] >= t)
      BY <2>8
    <3>1. n \in first..(front - 1) /\ n \in 1..new
      BY <2>1, <2>5
    <3>2. pts'[n] < t /\ pts'[n] \in Int /\ t \in Int
      BY <2>1, <2>4, <2>5, <2>7, <3>1
    <3> QED BY <3>2
  <2>10. live \cup {new} = first..new /\ front..new \subseteq first..new
    BY <2>1, <2>5
  <2>11. front..new = {n \in first..new : pts'[n] >= t}
    BY <2>9, <2>10
  <2> QED BY <2>5, <2>7, <2>10, <2>11
<1> QED BY <1>1, Invariance, PTL DEF Spec, PrerollWindow
=============================================================================
