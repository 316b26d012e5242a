----------------------------- MODULE RecordFile -----------------------------
(* A recording, the file it is saved to, and the recording loaded from it:   *)
(* save() and streamer_load, with the video thread that may go on appending  *)
(* and trimming, a disk that fills up, a memory that does, and a process     *)
(* that is killed. A frame is its number; the nodes of the list are          *)
(* front .. back, as FrameList has them. In the file each frame is three     *)
(* items, written in this order: magic number, size, frame.                  *)
EXTENDS Integers, Sequences

CONSTANT MaxFrames      \* bound: frames captured, in all recordings

ASSUME RecordFileAssumption == MaxFrames \in Nat

VARIABLES
    recording,  \* m_recording; -1 is the pre-roll of a negative shift
    front,      \* oldest node of the list; front > back when it is empty
    back,       \* newest node of the list
    link,       \* the node m_readNode is in; 0 for the list's m_front
    saved,      \* the frames the last save() has given to its file
    items,      \* items of them that the file holds as a whole
    part,       \* and whether some bytes of the next one
    foreign,    \* the file was not written by save()
    exists,     \* the file exists
    pc,         \* "idle" or the place in save() or streamer_load
    answer,     \* what the last of these calls returned
    loaded,     \* the frames of the recording that was loaded
    taken,      \* frames streamer_load has read
    lost,       \* one of them has no node: flistAppend returned -2
    fault       \* a freed node was used

list == <<recording, front, back, link>>
file == <<saved, items, part, foreign, exists>>
object == <<loaded, taken, lost>>
vars == <<list, file, object, pc, answer, fault>>

Items(n) == 3 * n       \* magic number, size, frame

Complete == items = Items(Len(saved)) /\ ~part

Init ==
    /\ recording = 0
    /\ front = 1
    /\ back = 0
    /\ link = 0
    /\ saved = << >>
    /\ items = 0
    /\ part = FALSE
    /\ foreign = FALSE
    /\ exists = FALSE
    /\ pc = "idle"
    /\ answer = "none"
    /\ loaded = << >>
    /\ taken = 0
    /\ lost = FALSE
    /\ fault = FALSE

-----------------------------------------------------------------------------
(* The recording. A call has the GIL until it returns; the video thread may   *)
(* append, and end the recording, whenever the list's mutex is free.          *)

Idle == pc = "idle" /\ ~fault

NewRecording ==
    /\ Idle
    /\ recording' \in {-1, 1}
    /\ front' = back + 1
    /\ link' = 0
    /\ UNCHANGED <<back, file, object, pc, answer, fault>>

\* start() ends the pre-roll, stop() the recording.
SetRecording ==
    /\ Idle
    /\ recording # 0
    /\ recording' \in {0, 1}
    /\ UNCHANGED <<front, back, link, file, object, pc, answer, fault>>

\* flistAppend: a pre-roll loses its oldest frames, the newest one stays. The
\* duration or the memory may end the recording with any frame.
FlistAppend ==
    /\ ~fault
    /\ recording # 0
    /\ back < MaxFrames
    /\ back' = back + 1
    /\ front' \in IF recording = -1 THEN front .. back' ELSE {front}
    /\ recording' \in {recording, 0}
    /\ UNCHANGED <<link, file, object, pc, answer, fault>>

\* The program reads: flistNext while there is a frame.
Read ==
    /\ Idle
    /\ link = 0 \/ link >= front
    /\ LET next == IF link = 0 THEN front ELSE link + 1
       IN next <= back /\ link' = next
    /\ UNCHANGED <<recording, front, back, file, object, pc, answer, fault>>

-----------------------------------------------------------------------------
(* save.                                                                    *)

SaveOpen ==
    /\ Idle
    /\ saved' = << >>
    /\ items' = 0
    /\ part' = FALSE
    /\ foreign' = FALSE
    /\ exists' = TRUE
    /\ pc' = "seek"
    /\ answer' = "none"
    /\ UNCHANGED <<list, object, fault>>

\* Variant: the reader's place is where it was.
SaveSeekKeeps ==
    /\ pc = "seek"
    /\ ~fault
    /\ pc' = "save"
    /\ UNCHANGED <<list, file, object, answer, fault>>

\* flistSeek(record, 0) does nothing to an empty list.
SaveSeek ==
    /\ pc = "seek"
    /\ ~fault
    /\ link' = IF front <= back THEN 0 ELSE link
    /\ pc' = "save"
    /\ UNCHANGED <<recording, front, back, file, object, answer, fault>>

\* Where flistNext looks. In a node that was trimmed it finds anything.
Following == IF link = 0 THEN front ELSE link + 1
Freed == link # 0 /\ link < front

\* A frame is larger than the buffer of the file: with the frame's end still in
\* the buffer, all before it is in the file.
Written(n) ==
    \/ items' = Items(n) /\ part' = FALSE
    \/ items' = Items(n) - 1 /\ part' = TRUE

\* The disk is full: something between what was there and the whole.
CutShort(n) ==
    /\ items' \in items .. Items(n) - 1
    /\ part' \in BOOLEAN
    /\ items' = items => (part => part')

SaveFrame ==
    /\ pc = "save"
    /\ ~fault
    /\ ~Freed
    /\ Following <= back
    /\ link' = Following
    /\ saved' = Append(saved, Following)
    /\ \/ /\ Written(Len(saved'))
          /\ UNCHANGED <<pc, answer>>
       \/ /\ CutShort(Len(saved'))      \* ferror
          /\ pc' = "idle"
          /\ answer' = "write_error"
    /\ UNCHANGED <<recording, front, back, foreign, exists, object, fault>>

SaveFreed ==
    /\ pc = "save"
    /\ ~fault
    /\ Freed
    /\ fault' = TRUE
    /\ UNCHANGED <<list, file, object, pc, answer>>

\* fclose writes what is in the buffer; whether it could nobody asks.
SaveClose ==
    /\ pc = "save"
    /\ ~fault
    /\ ~Freed
    /\ Following > back
    /\ \/ items' = Items(Len(saved)) /\ part' = FALSE
       \/ UNCHANGED <<items, part>>
    /\ pc' = "idle"
    /\ answer' = "saved"
    /\ UNCHANGED <<list, saved, foreign, exists, object, fault>>

-----------------------------------------------------------------------------
(* streamer_load, into a list of its own.                                   *)

LoadOpen ==
    /\ Idle
    /\ exists
    /\ pc' = "load"
    /\ answer' = "none"
    /\ loaded' = << >>
    /\ taken' = 0
    /\ lost' = FALSE
    /\ UNCHANGED <<list, file, fault>>

\* How many items of the next frame the file has, up to all three.
Remaining == IF foreign THEN items ELSE items - Items(taken)

\* A whole frame; flistAppend may have no memory for its node, which nobody
\* notices.
LoadFrame ==
    /\ pc = "load"
    /\ ~foreign
    /\ Remaining >= Items(1)
    /\ taken' = taken + 1
    /\ \/ loaded' = Append(loaded, saved[taken + 1]) /\ UNCHANGED lost
       \/ lost' = TRUE /\ UNCHANGED loaded
    /\ UNCHANGED <<list, file, pc, answer, fault>>

\* A load that fails leaves no object: its list is cleared and freed.
LoadFails(how) ==
    /\ pc = "load"
    /\ pc' = "idle"
    /\ answer' = how
    /\ loaded' = << >>
    /\ UNCHANGED <<list, file, taken, lost, fault>>

\* Variant: feof is not asked, the end is one more magic number that is missing.
LoadEndsMissing ==
    /\ pc = "load"
    /\ Remaining = 0
    /\ LoadFails("parse_error")

\* The end of the file, also in the middle of a magic number.
LoadEnds ==
    /\ pc = "load"
    /\ Remaining = 0
    /\ pc' = "idle"
    /\ answer' = "loaded"
    /\ UNCHANGED <<list, file, object, fault>>

LoadStops ==
    \/ /\ IF foreign THEN Remaining # 0 ELSE Remaining \in 1 .. Items(1) - 1
       /\ LoadFails("parse_error")
    \/ LoadFails("no_memory")           \* the reserve, or malloc

-----------------------------------------------------------------------------
\* The process is killed, at any time, and another one starts.
Kill ==
    /\ pc' = "idle"
    /\ answer' = "none"
    /\ recording' = 0
    /\ front' = back + 1
    /\ link' = 0
    /\ loaded' = << >>
    /\ taken' = 0
    /\ lost' = FALSE
    /\ fault' = FALSE
    /\ UNCHANGED <<back, file>>

\* The name given to load() is that of some other file.
ForeignFile ==
    /\ Idle
    /\ ~foreign
    /\ answer' = "none"
    /\ foreign' = TRUE
    /\ exists' = TRUE
    /\ saved' = << >>
    /\ items' \in {0, 1}
    /\ part' \in BOOLEAN
    /\ UNCHANGED <<list, object, pc, fault>>

Save == SaveOpen \/ SaveSeek \/ SaveFrame \/ SaveFreed \/ SaveClose
Load == LoadOpen \/ LoadFrame \/ LoadEnds \/ LoadStops

Next ==
    \/ NewRecording
    \/ SetRecording
    \/ FlistAppend
    \/ Read
    \/ Save
    \/ Load
    \/ Kill
    \/ ForeignFile

Spec == Init /\ [][Next]_vars

-----------------------------------------------------------------------------
(* Properties.                                                              *)

\* The variables' types; a file holds no more than was given to it.
TypeOK ==
    /\ recording \in {-1, 0, 1}
    /\ front \in Nat \ {0} /\ back \in Nat /\ link \in Nat
    /\ saved \in Seq(Nat)
    /\ items \in Nat /\ (~foreign => items <= Items(Len(saved)))
    /\ part \in BOOLEAN /\ foreign \in BOOLEAN /\ exists \in BOOLEAN
    /\ pc \in {"idle", "seek", "save", "load"}
    /\ answer \in {"none", "saved", "write_error", "loaded", "parse_error",
                   "no_memory"}
    /\ loaded \in Seq(Nat)
    /\ taken \in Nat
    /\ lost \in BOOLEAN /\ fault \in BOOLEAN

\* A file loads to the frames that were saved, from the first one and in order:
\* all of them if the file is complete. What fails to parse was cut short.
RoundTrip ==
    /\ answer = "loaded" /\ ~foreign /\ ~lost =>
         /\ loaded = SubSeq(saved, 1, Len(loaded))
         /\ Complete => loaded = saved
    /\ answer = "parse_error" => foreign \/ ~Complete

\* A save that ends without an error has given its file every frame the list
\* has, one after the other, whatever was appended or trimmed meanwhile and
\* wherever the program had read to.
SaveTakesAll ==
    [][pc = "save" /\ answer' = "saved" =>
         /\ \A n \in front .. back : \E i \in 1 .. Len(saved) : saved[i] = n
         /\ \A i \in 1 .. Len(saved) : saved[i] = saved[1] + i - 1]_vars
=============================================================================
