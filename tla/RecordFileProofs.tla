-------------------------- MODULE RecordFileProofs --------------------------
(* Saving and loading, for any number of frames: a save that ends has given   *)
(* its file all the list has, and what loads is what was given.              *)
EXTENDS RecordFile, SequenceTheorems, TLAPS

\* The list is empty, read from its front, or read up to a node it had.
Listed == front <= back + 1 /\ link <= back /\ (front > back => link = 0)

\* A call that goes on has not answered yet.
Answering == pc # "idle" => answer = "none"

\* save has written nothing, or the nodes up to the one the reader is in, from
\* one that was, or still is, the oldest.
Saving ==
    /\ pc = "seek" => saved = << >>
    /\ pc = "save" =>
         \/ saved = << >> /\ link = 0
         \/ /\ saved # << >>
            /\ saved[1] \in Nat \ {0}
            /\ saved[1] <= front
            /\ link = saved[1] + Len(saved) - 1
            /\ \A i \in 1 .. Len(saved) : saved[i] = saved[1] + i - 1

\* streamer_load has read whole frames, and has each of them in its list.
Loading ==
    pc = "load" /\ ~foreign =>
      /\ Items(taken) <= items
      /\ ~lost => /\ Len(loaded) = taken
                  /\ \A i \in 1 .. taken : loaded[i] = saved[i]

FileInv == TypeOK /\ Listed /\ Answering /\ Saving /\ Loading /\ RoundTrip

-----------------------------------------------------------------------------
\* Append, as the steps use it.
LEMMA Appended ==
    ASSUME NEW s \in Seq(Nat), NEW n \in Nat
    PROVE  /\ Append(s, n) \in Seq(Nat)
           /\ Append(s, n) # << >>
           /\ Len(s) \in Nat
           /\ Len(Append(s, n)) = Len(s) + 1
           /\ \A i \in 1 .. Len(s) : Append(s, n)[i] = s[i]
           /\ Append(s, n)[Len(s) + 1] = n
OBVIOUS

\* The empty list of frames.
LEMMA NoFrames == << >> \in Seq(Nat) /\ Len(<< >>) = 0
BY EmptySeq

\* A sequence that agrees with the first frames of another is its SubSeq.
LEMMA Prefix ==
    ASSUME NEW s \in Seq(Nat), NEW t \in Seq(Nat), Len(t) <= Len(s),
           \A i \in 1 .. Len(t) : t[i] = s[i]
    PROVE  t = SubSeq(s, 1, Len(t)) /\ (Len(t) = Len(s) => t = s)
<1>1. Len(s) \in Nat /\ Len(t) \in Nat
  OBVIOUS
<1>2. \A i \in 1 .. Len(t) : s[i] \in Nat
  <2> SUFFICES ASSUME NEW i \in 1 .. Len(t) PROVE s[i] \in Nat
    OBVIOUS
  <2>1. i \in 1 .. Len(s)
    BY <1>1
  <2> QED
    BY <2>1, ElementOfSeq
<1> DEFINE u == SubSeq(s, 1, Len(t))
<1>3. /\ u \in Seq(Nat)
      /\ Len(u) = IF 1 <= Len(t) THEN Len(t) - 1 + 1 ELSE 0
      /\ \A i \in 1 .. Len(t) - 1 + 1 : u[i] = s[1 + i - 1]
  BY <1>1, <1>2, SubSeqProperties
<1>4. Len(u) = Len(t)
  BY <1>1, <1>3
<1>5. \A i \in 1 .. Len(t) : t[i] = u[i]
  BY <1>1, <1>3
<1>6. t = u
  BY <1>3, <1>4, <1>5, SeqEqual
<1>7. ASSUME Len(t) = Len(s) PROVE t = s
  BY <1>7, SeqEqual
<1> QED
  BY <1>6, <1>7

-----------------------------------------------------------------------------
LEMMA InitInv == Init => FileInv
<1> SUFFICES ASSUME Init PROVE FileInv
  OBVIOUS
<1>1. TypeOK
  <2>1. saved \in Seq(Nat) /\ loaded \in Seq(Nat) /\ Len(saved) = 0
    BY NoFrames DEF Init
  <2>2. items \in Nat /\ items <= Items(Len(saved))
    BY <2>1 DEF Init, Items
  <2>3. /\ recording \in {-1, 0, 1}
        /\ front \in Nat \ {0} /\ back \in Nat /\ link \in Nat
    BY DEF Init
  <2>4. part \in BOOLEAN /\ foreign \in BOOLEAN /\ exists \in BOOLEAN
    BY DEF Init
  <2>5. /\ pc \in {"idle", "seek", "save", "load"}
        /\ answer \in {"none", "saved", "write_error", "loaded", "parse_error",
                       "no_memory"}
        /\ taken \in Nat
        /\ lost \in BOOLEAN /\ fault \in BOOLEAN
    BY DEF Init
  <2> QED
    BY <2>1, <2>2, <2>3, <2>4, <2>5 DEF TypeOK
<1>2. Listed /\ Answering /\ Saving /\ Loading /\ RoundTrip
  BY DEF Init, Listed, Answering, Saving, Loading, RoundTrip
<1> QED
  BY <1>1, <1>2 DEF FileInv

\* The steps outside save and load.
LEMMA ListStep ==
    ASSUME FileInv, NewRecording \/ SetRecording \/ FlistAppend \/ Read
    PROVE  FileInv'
<1> USE DEF FileInv, TypeOK, Listed, Answering, Saving, Loading, RoundTrip, Complete,
      Items, Idle, file, object
<1>1. CASE NewRecording
  BY <1>1 DEF NewRecording
<1>2. CASE SetRecording
  BY <1>2 DEF SetRecording
<1>3. CASE FlistAppend
  BY <1>3 DEF FlistAppend
<1>4. CASE Read
  BY <1>4 DEF Read
<1> QED
  BY <1>1, <1>2, <1>3, <1>4

\* A save gives its file the next node, whole or cut short.
LEMMA SaveFrameStep == ASSUME FileInv, SaveFrame PROVE FileInv'
<1> USE DEF FileInv, TypeOK
<1>1. Following \in Nat /\ saved \in Seq(Nat)
  BY DEF Following
<1>2. /\ saved' = Append(saved, Following)
      /\ saved' \in Seq(Nat) /\ saved' # << >>
      /\ Len(saved) \in Nat
      /\ Len(saved') = Len(saved) + 1
      /\ \A i \in 1 .. Len(saved) : saved'[i] = saved[i]
      /\ saved'[Len(saved) + 1] = Following
  BY <1>1, Appended DEF SaveFrame
<1>3. items' \in Nat /\ items' <= Items(Len(saved')) /\ part' \in BOOLEAN
  <2>1. CASE Written(Len(saved'))
    <3>1. items' = Items(Len(saved')) \/ items' = Items(Len(saved')) - 1
      BY <2>1 DEF Written
    <3>2. part' \in BOOLEAN
      BY <2>1 DEF Written
    <3>3. Len(saved') \in Nat /\ Len(saved') >= 1
      BY <1>2
    <3> QED
      BY <3>1, <3>2, <3>3 DEF Items
  <2>2. CASE CutShort(Len(saved'))
    BY <1>2, <2>2 DEF CutShort, Items
  <2> QED
    BY <2>1, <2>2 DEF SaveFrame
<1>4. TypeOK'
  BY <1>2, <1>3 DEF SaveFrame, object, Following
<1>5. Listed'
  BY DEF SaveFrame, Listed, Following
<1>6. Answering' /\ (pc' = "save" => answer' = "none")
  BY DEF SaveFrame, Answering
<1>7. Saving'
  <2>1. CASE saved = << >> /\ link = 0
    <3>1. Len(saved) = 0
      BY <2>1, NoFrames
    <3>2. saved'[1] = front /\ Len(saved') = 1 /\ link' = front
      BY <1>2, <2>1, <3>1 DEF SaveFrame, Following
    <3> QED
      BY <1>2, <3>2 DEF SaveFrame, Saving
  <2>2. CASE /\ saved # << >> /\ saved[1] \in Nat \ {0} /\ saved[1] <= front
             /\ link = saved[1] + Len(saved) - 1
             /\ \A i \in 1 .. Len(saved) : saved[i] = saved[1] + i - 1
    <3>1. Len(saved) >= 1
      BY <1>2, <2>2, EmptySeq, SeqEqual
    <3>2. saved'[1] = saved[1] /\ Following = link + 1 /\ link' = link + 1
      BY <1>2, <2>2, <3>1 DEF SaveFrame, Following
    <3>3. \A i \in 1 .. Len(saved') : saved'[i] = saved'[1] + i - 1
      <4> SUFFICES ASSUME NEW i \in 1 .. Len(saved')
                   PROVE  saved'[i] = saved'[1] + i - 1
        OBVIOUS
      <4>1. CASE i \in 1 .. Len(saved)
        BY <1>2, <2>2, <3>2, <4>1
      <4>2. CASE i = Len(saved) + 1
        BY <1>2, <2>2, <3>2, <4>2
      <4> QED
        BY <1>2, <4>1, <4>2
    <3>4. /\ saved' # << >> /\ saved'[1] \in Nat \ {0} /\ saved'[1] <= front'
          /\ link' = saved'[1] + Len(saved') - 1
      <4>1. link' = link + 1 /\ front' = front
        BY <3>2 DEF SaveFrame
      <4>2. Len(saved') = Len(saved) + 1 /\ saved' # << >>
        BY <1>2
      <4>3. saved[1] \in Nat \ {0} /\ saved[1] <= front
        BY <2>2
      <4>4. link = saved[1] + Len(saved) - 1 /\ Len(saved) \in Nat
        BY <1>2, <2>2
      <4> QED
        BY <3>2, <4>1, <4>2, <4>3, <4>4
    <3> QED
      BY <3>3, <3>4 DEF SaveFrame, Saving
  <2> QED
    BY <2>1, <2>2 DEF SaveFrame, Saving
<1>8. Loading' /\ RoundTrip'
  BY DEF SaveFrame, Loading, RoundTrip, Answering
<1> QED
  BY <1>4, <1>5, <1>6, <1>7, <1>8

\* The other steps of a save.
LEMMA SaveStep ==
    ASSUME FileInv, SaveOpen \/ SaveSeek \/ SaveFreed \/ SaveClose
    PROVE  FileInv'
<1> USE DEF FileInv, TypeOK, Idle, list, file, object
<1>1. CASE SaveOpen
  <2>1. TypeOK'
    <3>1. saved' \in Seq(Nat) /\ Len(saved') = 0
      BY <1>1, NoFrames DEF SaveOpen
    <3>2. items' \in Nat /\ items' <= Items(Len(saved'))
      BY <1>1, <3>1 DEF SaveOpen, Items
    <3> QED
      BY <1>1, <3>1, <3>2 DEF SaveOpen
  <2>2. Listed' /\ Answering' /\ Saving' /\ Loading' /\ RoundTrip'
    BY <1>1 DEF SaveOpen, Listed, Answering, Saving, Loading, RoundTrip
  <2> QED
    BY <2>1, <2>2
<1>2. CASE SaveSeek
  BY <1>2 DEF SaveSeek, Listed, Answering, Saving, Loading, RoundTrip
<1>3. CASE SaveFreed
  BY <1>3 DEF SaveFreed, Listed, Answering, Saving, Loading, RoundTrip, Complete
<1>4. CASE SaveClose
  <2>1. /\ items' \in Nat /\ part' \in BOOLEAN
        /\ foreign \/ items' <= Items(Len(saved))
    <3>1. CASE items' = Items(Len(saved)) /\ part' = FALSE
      <4>1. Len(saved) \in Nat
        OBVIOUS
      <4>2. items' \in Nat /\ items' <= Items(Len(saved))
        BY <3>1, <4>1 DEF Items
      <4> QED
        BY <3>1, <4>2
    <3>2. CASE UNCHANGED <<items, part>>
      BY <3>2
    <3> QED
      BY <1>4, <3>1, <3>2 DEF SaveClose
  <2>2. TypeOK'
    BY <1>4, <2>1 DEF SaveClose
  <2>3. Listed' /\ Answering' /\ Saving' /\ Loading' /\ RoundTrip'
    BY <1>4 DEF SaveClose, Listed, Answering, Saving, Loading, RoundTrip
  <2> QED
    BY <2>2, <2>3
<1> QED
  BY <1>1, <1>2, <1>3, <1>4

\* One more frame is read.
LEMMA LoadFrameStep == ASSUME FileInv, LoadFrame PROVE FileInv'
<1> USE DEF FileInv, TypeOK
<1>1. Len(saved) \in Nat
  OBVIOUS
<1>2. Items(taken') <= items /\ taken' = taken + 1 /\ taken' <= Len(saved)
  BY <1>1 DEF LoadFrame, Remaining, Items, Loading
<1>3. saved[taken + 1] \in Nat
  <2>1. taken + 1 \in 1 .. Len(saved)
    BY <1>1, <1>2
  <2> QED
    BY <2>1, ElementOfSeq
<1>4. CASE loaded' = Append(loaded, saved[taken + 1]) /\ UNCHANGED lost
  <2>1. /\ loaded' \in Seq(Nat) /\ Len(loaded) \in Nat
        /\ Len(loaded') = Len(loaded) + 1
        /\ \A i \in 1 .. Len(loaded) : loaded'[i] = loaded[i]
        /\ loaded'[Len(loaded) + 1] = saved[taken + 1]
    BY <1>3, <1>4, Appended
  <2>2. TypeOK' /\ Listed' /\ Answering' /\ Saving'
    BY <1>2, <1>4, <2>1 DEF LoadFrame, Listed, Answering, Saving, list, file
  <2>3. ASSUME ~lost' PROVE /\ Len(loaded') = taken'
                            /\ \A i \in 1 .. taken' : loaded'[i] = saved'[i]
    BY <1>2, <1>4, <2>1, <2>3 DEF LoadFrame, Loading, file
  <2>4. Loading'
    BY <1>2, <2>3 DEF LoadFrame, Loading, file, Items
  <2>5. RoundTrip'
    BY DEF LoadFrame, RoundTrip, Answering
  <2> QED
    BY <2>2, <2>4, <2>5
<1>5. CASE lost' = TRUE /\ UNCHANGED loaded
  BY <1>2, <1>5 DEF LoadFrame, Listed, Answering, Saving, Loading, RoundTrip, list,
     file, Items
<1> QED
  BY <1>4, <1>5 DEF LoadFrame

\* A load that ends at the end of a file has what the file had.
LEMMA LoadEndsStep == ASSUME FileInv, LoadEnds PROVE FileInv'
<1> USE DEF FileInv, TypeOK
<1>1. Len(saved) \in Nat /\ Len(loaded) \in Nat
  OBVIOUS
<1>2. TypeOK' /\ Listed' /\ Answering' /\ Saving' /\ Loading'
  BY DEF LoadEnds, Listed, Answering, Saving, Loading, list, file, object
<1>3. ASSUME ~foreign, ~lost
      PROVE  /\ loaded = SubSeq(saved, 1, Len(loaded))
             /\ Complete => loaded = saved
  <2>1. items = Items(taken) /\ Len(loaded) = taken
    <3>1. items - Items(taken) = 0 /\ Len(loaded) = taken
      BY <1>3 DEF LoadEnds, Remaining, Loading
    <3> QED
      BY <3>1 DEF Items
  <2>2. Len(loaded) <= Len(saved)
    BY <1>1, <1>3, <2>1 DEF Items
  <2>3. \A i \in 1 .. Len(loaded) : loaded[i] = saved[i]
    BY <1>3, <2>1 DEF LoadEnds, Loading
  <2>4. Complete => Len(loaded) = Len(saved)
    BY <1>1, <2>1 DEF Complete, Items
  <2> QED
    BY <2>2, <2>3, <2>4, Prefix
<1>4. RoundTrip'
  BY <1>3 DEF LoadEnds, RoundTrip, Complete, Items, file, object
<1> QED
  BY <1>2, <1>4

\* A load that begins, or fails.
LEMMA LoadStep == ASSUME FileInv, LoadOpen \/ LoadStops PROVE FileInv'
<1> USE NoFrames DEF FileInv, TypeOK, Listed, Answering, Saving, Loading, RoundTrip,
      Complete, Items, Idle, list, file, object
<1>1. CASE LoadOpen
  <2>1. TypeOK'
    BY <1>1 DEF LoadOpen
  <2>2. Listed' /\ Answering' /\ Saving' /\ RoundTrip'
    BY <1>1 DEF LoadOpen
  <2>3. Loading'
    BY <1>1 DEF LoadOpen
  <2> QED
    BY <2>1, <2>2, <2>3
<1>2. ASSUME LoadFails("no_memory") PROVE FileInv'
  BY <1>2 DEF LoadFails
<1>3. ASSUME LoadFails("parse_error"),
             IF foreign THEN Remaining # 0 ELSE Remaining \in 1 .. Items(1) - 1
      PROVE  FileInv'
  <2>1. ~foreign => ~Complete
    BY <1>3 DEF Remaining
  <2> QED
    BY <1>3, <2>1 DEF LoadFails
<1> QED
  BY <1>1, <1>2, <1>3 DEF LoadStops

\* The steps of the world around.
LEMMA OutsideStep == ASSUME FileInv, Kill \/ ForeignFile PROVE FileInv'
<1> USE DEF FileInv, TypeOK, Idle, list, file, object
<1>1. CASE Kill
  <2>1. TypeOK'
    <3>1. loaded' \in Seq(Nat) /\ saved' \in Seq(Nat)
      BY <1>1, NoFrames DEF Kill
    <3>2. items' \in Nat /\ (~foreign' => items' <= Items(Len(saved')))
      BY <1>1 DEF Kill
    <3>3. front' \in Nat \ {0} /\ back' \in Nat /\ link' \in Nat
      BY <1>1 DEF Kill
    <3> QED
      BY <1>1, <3>1, <3>2, <3>3 DEF Kill
  <2>2. Listed' /\ Answering' /\ Saving' /\ Loading' /\ RoundTrip'
    BY <1>1 DEF Kill, Listed, Answering, Saving, Loading, RoundTrip
  <2> QED
    BY <2>1, <2>2
<1>2. CASE ForeignFile
  <2>1. TypeOK'
    BY <1>2, NoFrames DEF ForeignFile
  <2>2. Listed' /\ Answering' /\ Saving' /\ Loading' /\ RoundTrip'
    BY <1>2 DEF ForeignFile, Listed, Answering, Saving, Loading, RoundTrip
  <2> QED
    BY <2>1, <2>2
<1> QED
  BY <1>1, <1>2

\* Every step keeps the invariant.
LEMMA NextInv == FileInv /\ [Next]_vars => FileInv'
<1>1. ASSUME FileInv, UNCHANGED vars PROVE FileInv'
  BY <1>1 DEF vars, list, file, object, FileInv, TypeOK, Listed, Answering, Saving,
     Loading, RoundTrip, Complete, Items
<1> QED
  BY <1>1, ListStep, SaveStep, SaveFrameStep, LoadStep, LoadFrameStep, LoadEndsStep,
     OutsideStep DEF Next, Save, Load

\* save() and streamer_load keep FileInv.
THEOREM Invariance == Spec => []FileInv
<1> QED
  BY InitInv, NextInv, PTL DEF Spec

\* The variables of save() and streamer_load keep their types, and a file never
\* has more than its save was given.
THEOREM TypeCorrect == Spec => []TypeOK
<1>1. FileInv => TypeOK
  BY DEF FileInv
<1> QED
  BY <1>1, Invariance, PTL

\* What streamer_load returns from a file of save(), also of one that was cut
\* short by a full disk or a kill, are the frames that were saved.
THEOREM LoadsWhatWasSaved == Spec => []RoundTrip
<1>1. FileInv => RoundTrip
  BY DEF FileInv
<1> QED
  BY <1>1, Invariance, PTL

-----------------------------------------------------------------------------
\* When flistNext has no frame left, the file was given all of the list.
LEMMA AllTaken ==
    ASSUME FileInv, SaveClose
    PROVE  /\ \A n \in front .. back : \E i \in 1 .. Len(saved) : saved[i] = n
           /\ \A i \in 1 .. Len(saved) : saved[i] = saved[1] + i - 1
<1> USE DEF FileInv, TypeOK
<1>1. Len(saved) \in Nat
  OBVIOUS
<1>2. CASE saved = << >> /\ link = 0
  <2>1. Len(saved) = 0 /\ front > back
    BY <1>2, NoFrames DEF SaveClose, Following
  <2> QED
    BY <2>1
<1>3. CASE /\ saved[1] \in Nat \ {0} /\ saved[1] <= front
           /\ link = saved[1] + Len(saved) - 1 /\ saved # << >>
           /\ \A i \in 1 .. Len(saved) : saved[i] = saved[1] + i - 1
  <2>0. Len(saved) >= 1
    BY <1>1, <1>3, EmptySeq, SeqEqual
  <2>1. link = back
    BY <1>1, <1>3, <2>0 DEF SaveClose, Following, Listed
  <2>2. ASSUME NEW n \in front .. back
        PROVE  \E i \in 1 .. Len(saved) : saved[i] = n
    <3> DEFINE i == n - saved[1] + 1
    <3>1. n \in Int /\ saved[1] \in Int
      BY <1>3
    <3>2. i \in 1 .. Len(saved)
      BY <1>1, <1>3, <2>1, <3>1
    <3>3. saved[i] = saved[1] + i - 1
      BY <1>3, <3>2
    <3>4. saved[i] = n
      BY <3>1, <3>3
    <3> QED
      BY <3>2, <3>4
  <2> QED
    BY <1>3, <2>2
<1> QED
  BY <1>2, <1>3 DEF SaveClose, Saving

\* A save() that returns without an exception has given its file every frame of
\* the list, in order and without a gap, whatever the video thread did.
THEOREM SavesAll == Spec => SaveTakesAll
<1> DEFINE A == pc = "save" /\ answer' = "saved" =>
         /\ \A n \in front .. back : \E i \in 1 .. Len(saved) : saved[i] = n
         /\ \A i \in 1 .. Len(saved) : saved[i] = saved[1] + i - 1
<1>1. FileInv /\ [Next]_vars => [A]_vars
  <2> SUFFICES ASSUME FileInv, Next, pc = "save", answer' = "saved"
               PROVE  SaveClose
    BY AllTaken
  <2>1. answer = "none"
    BY DEF FileInv, Answering
  <2> QED
    BY <2>1 DEF Next, NewRecording, SetRecording, FlistAppend, Read, Save, Load,
       SaveOpen, SaveSeek, SaveFrame, SaveFreed, LoadOpen, LoadFrame, LoadEnds,
       LoadStops, LoadFails, Kill, ForeignFile, Idle
<1> QED
  BY <1>1, Invariance, PTL DEF Spec, SaveTakesAll
=============================================================================
