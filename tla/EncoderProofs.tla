---------------------------- MODULE EncoderProofs ---------------------------
(* Safety of the encoder for any number of threads, buffers, calls and        *)
(* changes of the resolution: no buffer is lost or made, every waiting call   *)
(* has a packet coming, and packets are returned in the order of their frames.*)
EXTENDS Encoder, FiniteSetTheorems, TLAPS

Waiters == {t \in Threads : InGetOutput(t)}

\* Who is inside keExit has the GIL; an object that goes is used by nobody else.
ThreadsPlaced ==
    /\ \A t \in Threads : pc[t] \in {"resize", "dealloc"} => gil = t
    /\ \A t \in Threads : pc[t] = "dealloc" =>
         \A u \in Threads \ {t} : pc[u] = "idle"
    /\ ~object => \A u \in Threads : pc[u] = "idle"

\* The poll thread goes for a packet that is there; queued packets are mapped.
QueuesPlaced ==
    /\ poll \in {"input", "output"} => coded # << >>
    /\ \A i \in 1 .. Len(coded) : coded[i].mapped
    /\ \A i \in 1 .. Len(output) : output[i].mapped

\* The frames and packets still in the codec are as many as the input buffers
\* that are; the poll thread takes an input buffer first.
InputsMatch ==
    encoder =>
      inputs + doneInputs + (IF poll = "output" THEN 1 ELSE 0)
        = Len(frames) + Len(coded)

\* One packet is coming for every call that waits.
WaitersMatch ==
    encoder /\ ~abort /\ fault = "none" =>
      Cardinality(Waiters) = Len(frames) + Len(coded) + Len(output)

\* A frame or packet is not younger than the count, and if it has the stamp that
\* would be accepted now it comes after everything that was returned.
Fresh(p) ==
    p.frame <= calls /\ p.stamp <= m_count
      /\ (p.stamp = m_count => p.frame > returned)

InOrder ==
    /\ returned <= calls
    /\ \A i \in 1 .. Len(frames) : Fresh(frames[i])
    /\ \A i \in 1 .. Len(coded) : Fresh(coded[i])
    /\ \A i \in 1 .. Len(output) : Fresh(output[i])
    /\ \A t \in Threads : pc[t] = "got" =>
         item[t].bytes = 0 \/ Fresh(item[t])

Finite == IsFiniteSet(Holders) /\ IsFiniteSet(Waiters)

Base == TypeOK /\ ThreadsPlaced /\ QueuesPlaced

-----------------------------------------------------------------------------
(* Sequences.                                                               *)

LEMMA Appended ==
    ASSUME NEW S, NEW s \in Seq(S), NEW e \in S
    PROVE  /\ Append(s, e) \in Seq(S)
           /\ Len(Append(s, e)) = Len(s) + 1
           /\ \A i \in 1 .. Len(s) : Append(s, e)[i] = s[i]
           /\ Append(s, e)[Len(s) + 1] = e
OBVIOUS

LEMMA Taken ==
    ASSUME NEW S, NEW s \in Seq(S), s # << >>
    PROVE  /\ Head(s) \in S /\ Head(s) = s[1] /\ Len(s) > 0
           /\ Tail(s) \in Seq(S)
           /\ Len(Tail(s)) = Len(s) - 1
           /\ \A i \in 1 .. Len(Tail(s)) : i + 1 \in 1 .. Len(s) /\ Tail(s)[i] = s[i + 1]
OBVIOUS

\* What holds of every element goes on to hold when one is added or taken out.
LEMMA AppendAll ==
    ASSUME NEW S, NEW s \in Seq(S), NEW e \in S, NEW T,
           \A i \in 1 .. Len(s) : s[i] \in T, e \in T
    PROVE  \A i \in 1 .. Len(Append(s, e)) : Append(s, e)[i] \in T
<1> SUFFICES ASSUME NEW i \in 1 .. Len(s) + 1 PROVE Append(s, e)[i] \in T
  BY Appended
<1>1. CASE i = Len(s) + 1
  BY <1>1, Appended
<1>2. CASE i # Len(s) + 1
  <2>1. i \in 1 .. Len(s)
    BY <1>2
  <2> QED
    BY <2>1, Appended
<1> QED
  BY <1>1, <1>2

LEMMA TailAll ==
    ASSUME NEW S, NEW s \in Seq(S), s # << >>, NEW T,
           \A i \in 1 .. Len(s) : s[i] \in T
    PROVE  Head(s) \in T /\ \A i \in 1 .. Len(Tail(s)) : Tail(s)[i] \in T
<1>1. 1 \in 1 .. Len(s)
  BY Taken
<1> QED
  BY <1>1, Taken

Frames == [frame : Nat, stamp : Nat]

LEMMA Emptied == << >> \in Seq(Packets) /\ << >> \in Seq(Frames) /\ Len(<< >>) = 0
OBVIOUS

\* The frame of a new call.
LEMMA FrameType ==
    ASSUME NEW f \in Nat, NEW s \in Nat
    PROVE  [frame |-> f + 1, stamp |-> s] \in Frames
BY DEF Frames

-----------------------------------------------------------------------------
\* A packet of the codec is one.
LEMMA PacketType ==
    ASSUME NEW f \in Frames, NEW bytes \in {0, 1}
    PROVE  Packet(f, bytes) \in Packets /\ Packet(f, bytes).mapped
BY DEF Packet, Packets, Frames

LEMMA NullItemType == NullItem \in Packets /\ ~NullItem.mapped /\ NullItem.bytes = 0
BY DEF NullItem, Packets

\* What keInit leaves.
ConstructPost(ok) ==
    /\ encoder' = ok /\ abort' = FALSE /\ poll' \in {"off", "poll"}
    /\ available' \in Nat /\ inputs' = 0 /\ doneInputs' = 0
    /\ frames' = << >> /\ coded' = << >> /\ output' = << >>
    /\ empty' \in Nat /\ lost' = 0
    /\ ok => /\ available' = InputBuffers /\ empty' = CaptureBuffers
             /\ poll' = "poll"

LEMMA ConstructType ==
    ASSUME TypeOK, NEW ok \in BOOLEAN, Construct(ok)
    PROVE  ConstructPost(ok)
BY EncoderAssumption DEF EncoderAssumption, Construct, ConstructPost

\* Every step keeps the types and the places of threads and queues.
Places == {"idle", "enter", "waiting", "got", "resize", "dealloc"}

\* The type invariant with its sets named.
Types ==
    /\ object \in BOOLEAN /\ m_count \in Nat
    /\ encoder \in BOOLEAN /\ abort \in BOOLEAN
    /\ poll \in {"off", "poll", "input", "output", "ended"}
    /\ available \in Nat
    /\ inputs \in Nat /\ doneInputs \in Nat
    /\ frames \in Seq(Frames)
    /\ empty \in Nat
    /\ coded \in Seq(Packets) /\ output \in Seq(Packets)
    /\ gil \in Threads \cup {None}
    /\ pc \in [Threads -> Places]
    /\ item \in [Threads -> Packets]
    /\ calls \in Nat /\ resizes \in Nat
    /\ returned \in Nat /\ lost \in Nat
    /\ fault \in {"none", "destroyed in use", "no input buffer", "no encoder",
                  "packet unmapped"}

LEMMA TypeOKTypes == TypeOK <=> Types
BY DEF TypeOK, Types, Frames, Places

LEMMA TypeStep == Base /\ [Next]_vars => TypeOK'
<1> SUFFICES ASSUME Base, [Next]_vars PROVE TypeOK'
  OBVIOUS
<1>0. Types
  BY TypeOKTypes DEF Base
<1> SUFFICES Types'
  BY DEF TypeOK, Types, Frames, Places
<1> USE <1>0 DEF Base, Types, bounds, codec, Places
<1>20. /\ available \in Nat /\ inputs \in Nat /\ calls \in Nat
       /\ m_count \in Nat /\ returned \in Nat /\ empty \in Nat
  OBVIOUS
<1>1. ASSUME NEW t \in Threads, Create(t) PROVE Types'
  <2>1. PICK ok \in BOOLEAN : Construct(ok) /\ object' = ok
    BY <1>1 DEF Create
  <2>2. ConstructPost(ok)
    BY <2>1, ConstructType
  <2> QED
    BY <1>1, <2>1, <2>2, Emptied DEF Create, ConstructPost
<1>2. ASSUME NEW t \in Threads, SetResolution(t) PROVE Types'
  BY <1>2 DEF SetResolution, Abort, Idle
<1>3. ASSUME NEW t \in Threads, Dealloc(t) PROVE Types'
  BY <1>3 DEF Dealloc, Abort, Idle
<1>4. ASSUME NEW t \in Threads, Encode(t) PROVE Types'
  <2>1. [frame |-> calls + 1, stamp |-> m_count] \in Frames
    BY FrameType
  <2>2. frames' \in Seq(Frames)
    BY <1>4, <2>1, Appended DEF Encode
  <2>3. available' \in Nat /\ inputs' \in Nat /\ calls' \in Nat
    <3>1. /\ available > 0 /\ available' = available - 1
          /\ inputs' = inputs + 1 /\ calls' = calls + 1
      BY <1>4 DEF Encode
    <3> HIDE DEF Base, Types
    <3> QED
      BY <1>20, <3>1
  <2>4. pc' \in [Threads -> Places]
    BY <1>4 DEF Encode
  <2> QED
    BY <1>4, <2>2, <2>3, <2>4 DEF Encode
<1>5. ASSUME NEW t \in Threads, EncodeFails(t) PROVE Types'
  BY <1>5 DEF EncodeFails
<1>6. ASSUME NEW t \in Threads, GetOutput(t) PROVE Types'
  <2>1. Head(output) \in Packets /\ Tail(output) \in Seq(Packets)
    BY <1>6, Taken DEF GetOutput
  <2> QED
    BY <1>6, <2>1 DEF GetOutput
<1>7. ASSUME NEW t \in Threads, WaitOutput(t) PROVE Types'
  BY <1>7 DEF WaitOutput
<1>8. ASSUME NEW t \in Threads, GetAborted(t) PROVE Types'
  BY <1>8, NullItemType DEF GetAborted
<1>9. ASSUME NEW t \in Threads, Joined(t)
      PROVE  /\ item' \in [Threads -> Packets] /\ gil' = None
             /\ pc' \in [Threads -> Places]
  <2>1. \A u \in Threads : [item[u] EXCEPT !.mapped = FALSE] \in Packets
    BY DEF Packets
  <2> QED
    BY <1>9, <2>1 DEF Joined
<1>10. ASSUME NEW t \in Threads, Resized(t) \/ Deallocated(t) PROVE Types'
  <2>1. Joined(t)
    BY <1>10 DEF Resized, Deallocated
  <2>2. PICK ok \in BOOLEAN : Construct(ok)
    BY <1>10 DEF Resized, Deallocated
  <2>5. ConstructPost(ok)
    BY <2>2, ConstructType
  <2>3. object' \in BOOLEAN
    BY <1>10 DEF Resized, Deallocated
  <2>4. UNCHANGED <<m_count, calls, resizes, returned, fault>>
    BY <2>1 DEF Joined
  <2> QED
    BY <1>9, <2>1, <2>3, <2>4, <2>5, Emptied DEF ConstructPost
<1>11. ASSUME NEW t \in Threads, DestroyedInUse(t) PROVE Types'
  BY <1>11 DEF DestroyedInUse
<1>12. ASSUME NEW t \in Threads, Raise(t) PROVE Types'
  BY <1>12, NullItemType DEF Raise
<1>13. ASSUME NEW t \in Threads, Return(t) PROVE Types'
  <2>1. item[t].frame \in Nat
    BY DEF Packets
  <2>2. m_count' \in Nat /\ returned' \in Nat /\ empty' \in Nat
    <3>1. \/ /\ m_count' = m_count + 1 /\ returned' = item[t].frame
             /\ empty' = empty + 1
          \/ UNCHANGED <<m_count, returned, empty>>
      BY <1>13 DEF Return
    <3> HIDE DEF Base, Types
    <3> QED
      BY <1>20, <2>1, <3>1
  <2>3. pc' \in [Threads -> Places] /\ item' \in [Threads -> Packets]
    BY <1>13, NullItemType DEF Return
  <2> QED
    BY <1>13, <2>2, <2>3 DEF Return
<1>14. CASE PollIn \/ PollEnds
  BY <1>14 DEF PollIn, PollEnds
<1>15. CASE DequeueInput
  BY <1>15 DEF DequeueInput
<1>16. CASE DequeueOutput
  <2>1. Head(coded) \in Packets /\ Tail(coded) \in Seq(Packets)
    BY <1>16, Taken DEF DequeueOutput, QueuesPlaced
  <2>2. output' \in Seq(Packets)
    BY <1>16, <2>1, Appended DEF DequeueOutput
  <2> QED
    BY <1>16, <2>1, <2>2 DEF DequeueOutput
<1>17. CASE CodecTakes
  BY <1>17 DEF CodecTakes
<1>18. CASE CodecMakes
  <2>1. /\ Head(frames) \in Frames
        /\ Tail(frames) \in Seq(Frames)
    BY <1>18, Taken DEF CodecMakes
  <2>2. coded' \in Seq(Packets)
    BY <1>18, <2>1, PacketType, Appended DEF CodecMakes
  <2> QED
    BY <1>18, <2>1, <2>2 DEF CodecMakes
<1>19. CASE UNCHANGED vars
  BY <1>19 DEF vars
<1> QED
  BY <1>1, <1>2, <1>3, <1>4, <1>5, <1>6, <1>7, <1>8, <1>10, <1>11, <1>12, <1>13,
     <1>14, <1>15, <1>16, <1>17, <1>18, <1>19
     DEF Next, PyCall, InCall, Finish, PollThread

LEMMA ThreadsStep == Base /\ [Next]_vars => ThreadsPlaced'
<1> SUFFICES ASSUME Base, [Next]_vars PROVE ThreadsPlaced'
  OBVIOUS
<1>0. /\ None \notin Threads
      /\ pc \in [Threads -> Places]
  BY EncoderAssumption DEF EncoderAssumption, Base, TypeOK, Places
<1>1. ThreadsPlaced
  BY DEF Base
<1> USE <1>0, <1>1 DEF ThreadsPlaced, Places
<1>2. ASSUME NEW t \in Threads, PyCall(t) PROVE ThreadsPlaced'
  <2>1. CASE Create(t)
    BY <2>1 DEF Create, Idle
  <2>2. CASE SetResolution(t)
    BY <2>2 DEF SetResolution, Abort, Idle
  <2>3. CASE Dealloc(t)
    BY <2>3 DEF Dealloc, Abort, Idle
  <2>4. CASE Encode(t)
    <3>1. /\ object /\ gil = None /\ UNCHANGED <<object, gil>>
          /\ pc[t] = "idle" /\ pc' = [pc EXCEPT ![t] = "enter"]
      BY <2>4 DEF Encode, Idle
    <3> QED
      BY <3>1
  <2>5. CASE EncodeFails(t)
    BY <2>5 DEF EncodeFails
  <2> QED
    BY <1>2, <2>1, <2>2, <2>3, <2>4, <2>5 DEF PyCall
<1>3. ASSUME NEW t \in Threads, InCall(t) PROVE ThreadsPlaced'
  <2>1. CASE GetOutput(t) \/ WaitOutput(t) \/ GetAborted(t)
    <3>1. /\ InGetOutput(t) /\ UNCHANGED <<object, gil>>
          /\ \E p \in {"waiting", "got"} : pc' = [pc EXCEPT ![t] = p]
      BY <2>1 DEF GetOutput, WaitOutput, GetAborted, InGetOutput
    <3> QED
      BY <3>1 DEF InGetOutput
  <2>2. CASE Resized(t)
    BY <2>2 DEF Resized, Joined
  <2>3. CASE Deallocated(t)
    BY <2>3 DEF Deallocated, Joined
  <2>4. CASE DestroyedInUse(t)
    BY <2>4 DEF DestroyedInUse
  <2> QED
    BY <1>3, <2>1, <2>2, <2>3, <2>4 DEF InCall
<1>4. ASSUME NEW t \in Threads, Finish(t) PROVE ThreadsPlaced'
  <2>1. /\ pc[t] = "got" /\ UNCHANGED <<object, gil>>
        /\ pc' = [pc EXCEPT ![t] = "idle"] \/ UNCHANGED pc
    BY <1>4 DEF Finish, Raise, Return
  <2> QED
    BY <2>1
<1>5. CASE PollThread \/ CodecTakes \/ CodecMakes \/ UNCHANGED vars
  BY <1>5 DEF PollThread, PollIn, DequeueInput, DequeueOutput, PollEnds,
              CodecTakes, CodecMakes, vars
<1> QED
  BY <1>2, <1>3, <1>4, <1>5 DEF Next

-----------------------------------------------------------------------------
\* What a step may change of buffers and queues.
QueueVars == <<encoder, poll, available, inputs, doneInputs, frames, empty, coded,
               output>>

\* The steps that touch no queue: most of those of the Python threads.
LEMMA CallsLeaveQueues ==
    ASSUME NEW t \in Threads,
           \/ SetResolution(t) \/ Dealloc(t) \/ EncodeFails(t) \/ WaitOutput(t)
           \/ GetAborted(t) \/ DestroyedInUse(t) \/ Raise(t)
    PROVE  UNCHANGED QueueVars
BY DEF SetResolution, Dealloc, EncodeFails, WaitOutput, GetAborted,
       DestroyedInUse, Raise, Abort, QueueVars, codec

\* keInit begins with empty queues and every buffer in its place.
LEMMA Renews ==
    ASSUME Base, NEW t \in Threads, Create(t) \/ Resized(t) \/ Deallocated(t)
    PROVE  \E ok \in BOOLEAN : ConstructPost(ok)
<1>1. PICK ok \in BOOLEAN : Construct(ok)
  BY DEF Create, Resized, Deallocated
<1> QED
  BY <1>1, ConstructType DEF Base

LEMMA QueuesStep == Base /\ [Next]_vars => QueuesPlaced'
<1> SUFFICES ASSUME Base, [Next]_vars PROVE QueuesPlaced'
  OBVIOUS
<1>0. QueuesPlaced /\ coded \in Seq(Packets) /\ output \in Seq(Packets)
      /\ frames \in Seq(Frames)
  BY DEF Base, TypeOK, Frames
<1>1. ASSUME NEW t \in Threads,
             \/ SetResolution(t) \/ Dealloc(t) \/ EncodeFails(t) \/ WaitOutput(t)
             \/ GetAborted(t) \/ DestroyedInUse(t) \/ Raise(t)
      PROVE  QueuesPlaced'
  <2>1. UNCHANGED QueueVars
    BY <1>1, CallsLeaveQueues
  <2> QED
    BY <1>0, <2>1 DEF QueueVars, QueuesPlaced
<1>2. ASSUME NEW t \in Threads, Create(t) \/ Resized(t) \/ Deallocated(t)
      PROVE  QueuesPlaced'
  <2>1. PICK ok \in BOOLEAN : ConstructPost(ok)
    BY <1>2, Renews
  <2> QED
    BY <2>1 DEF ConstructPost, QueuesPlaced
<1>3. ASSUME NEW t \in Threads, Encode(t) \/ Return(t) PROVE QueuesPlaced'
  <2>1. UNCHANGED <<poll, coded, output>>
    BY <1>3 DEF Encode, Return
  <2> QED
    BY <1>0, <2>1 DEF QueuesPlaced
<1>4. ASSUME NEW t \in Threads, GetOutput(t) PROVE QueuesPlaced'
  <2>1. UNCHANGED <<poll, coded>> /\ output # << >> /\ output' = Tail(output)
    BY <1>4 DEF GetOutput, codec
  <2> DEFINE T == {p \in Packets : p.mapped}
  <2>2. \A i \in 1 .. Len(output) : output[i] \in T
    BY <1>0 DEF QueuesPlaced
  <2>3. \A i \in 1 .. Len(output') : output'[i] \in T
    <3> HIDE DEF T
    <3> QED
      BY <1>0, <2>1, <2>2, TailAll
  <2> QED
    BY <1>0, <2>1, <2>3 DEF QueuesPlaced
<1>5. CASE DequeueOutput
  <2>1. /\ coded # << >> /\ coded' = Tail(coded) /\ poll' = "poll"
        /\ output' = Append(output, Head(coded))
    BY <1>0, <1>5 DEF DequeueOutput, QueuesPlaced
  <2> DEFINE T == {p \in Packets : p.mapped}
  <2>2. /\ \A i \in 1 .. Len(coded) : coded[i] \in T
        /\ \A i \in 1 .. Len(output) : output[i] \in T
    BY <1>0 DEF QueuesPlaced
  <2>3. Head(coded) \in T /\ \A i \in 1 .. Len(coded') : coded'[i] \in T
    <3> HIDE DEF T
    <3> QED
      BY <1>0, <2>1, <2>2, TailAll
  <2>4. \A i \in 1 .. Len(output') : output'[i] \in T
    <3>1. Head(coded) \in Packets
      BY <2>3
    <3> HIDE DEF T
    <3> QED
      BY <1>0, <2>1, <2>2, <2>3, <3>1, AppendAll
  <2> QED
    BY <2>1, <2>3, <2>4 DEF QueuesPlaced
<1>6. CASE CodecMakes
  <2>1. PICK bytes \in {0, 1} : coded' = Append(coded, Packet(Head(frames), bytes))
    BY <1>6 DEF CodecMakes
  <2>2. UNCHANGED <<poll, output>> /\ frames # << >>
    BY <1>6 DEF CodecMakes
  <2> DEFINE T == {p \in Packets : p.mapped}
  <2>3. \A i \in 1 .. Len(coded) : coded[i] \in T
    BY <1>0 DEF QueuesPlaced
  <2>4. Packet(Head(frames), bytes) \in Packets /\ Packet(Head(frames), bytes) \in T
    BY <1>0, <2>2, PacketType, Taken
  <2>5. \A i \in 1 .. Len(coded') : coded'[i] \in T
    <3> HIDE DEF T
    <3> QED
      BY <1>0, <2>1, <2>3, <2>4, AppendAll
  <2>6. coded' # << >>
    BY <1>0, <2>1, <2>4, Appended
  <2> QED
    BY <1>0, <2>2, <2>5, <2>6 DEF QueuesPlaced
<1>7. CASE PollIn \/ DequeueInput \/ PollEnds \/ CodecTakes \/ UNCHANGED vars
  <2>1. /\ UNCHANGED <<coded, output>>
        /\ poll' \in {"input", "output"} => coded # << >>
    BY <1>0, <1>7 DEF PollIn, DequeueInput, PollEnds, CodecTakes, codec, vars,
                      QueuesPlaced
  <2> QED
    BY <1>0, <2>1 DEF QueuesPlaced
<1> QED
  BY <1>1, <1>2, <1>3, <1>4, <1>5, <1>6, <1>7
     DEF Next, PyCall, InCall, Finish, PollThread

-----------------------------------------------------------------------------
(* Counting.                                                                *)

\* The input side of BuffersConserved.
InputsConserved == encoder => available + inputs + doneInputs = InputBuffers

\* What the steps do to the numbers of buffers and the lengths of queues.
LEMMA Lengths ==
    ASSUME Base
    PROVE  /\ \A t \in Threads : Encode(t) =>
                /\ available > 0 /\ available' = available - 1 /\ inputs' = inputs + 1
                /\ Len(frames') = Len(frames) + 1
                /\ UNCHANGED <<encoder, poll, doneInputs, empty, coded, output>>
           /\ \A t \in Threads : GetOutput(t) =>
                /\ Len(output) > 0 /\ Len(output') = Len(output) - 1
                /\ UNCHANGED <<encoder, poll, available, inputs, doneInputs, frames,
                               empty, coded>>
           /\ \A t \in Threads : Return(t) =>
                UNCHANGED <<encoder, poll, available, inputs, doneInputs, frames,
                            coded, output>>
           /\ PollIn \/ PollEnds =>
                /\ poll = "poll" /\ poll' \in {"input", "ended"}
                /\ UNCHANGED <<encoder, available, inputs, doneInputs, frames, empty,
                               coded, output>>
           /\ DequeueInput =>
                /\ poll = "input" /\ poll' = "output"
                /\ doneInputs > 0 /\ doneInputs' = doneInputs - 1
                /\ available' = available + 1
                /\ UNCHANGED <<encoder, inputs, frames, empty, coded, output>>
           /\ DequeueOutput =>
                /\ poll = "output" /\ poll' = "poll"
                /\ Len(coded) > 0 /\ Len(coded') = Len(coded) - 1
                /\ Len(output') = Len(output) + 1
                /\ UNCHANGED <<encoder, available, inputs, doneInputs, frames, empty>>
           /\ CodecTakes =>
                /\ inputs > 0 /\ inputs' = inputs - 1 /\ doneInputs' = doneInputs + 1
                /\ UNCHANGED <<encoder, poll, available, frames, empty, coded, output>>
           /\ CodecMakes =>
                /\ Len(frames) > 0 /\ Len(frames') = Len(frames) - 1
                /\ Len(coded') = Len(coded) + 1
                /\ empty > 0 /\ empty' = empty - 1
                /\ UNCHANGED <<encoder, poll, available, inputs, doneInputs, output>>
<1>0. /\ coded \in Seq(Packets) /\ output \in Seq(Packets) /\ frames \in Seq(Frames)
      /\ calls \in Nat /\ m_count \in Nat
  BY DEF Base, TypeOK, Frames
<1>1. ASSUME NEW t \in Threads, Encode(t)
      PROVE  /\ available > 0 /\ available' = available - 1 /\ inputs' = inputs + 1
             /\ Len(frames') = Len(frames) + 1
             /\ UNCHANGED <<encoder, poll, doneInputs, empty, coded, output>>
  <2>1. frames' = Append(frames, [frame |-> calls + 1, stamp |-> m_count])
    BY <1>1 DEF Encode
  <2>2. Len(frames') = Len(frames) + 1
    BY <1>0, <2>1, FrameType, Appended
  <2> QED
    BY <1>1, <2>2 DEF Encode
<1>2. ASSUME NEW t \in Threads, GetOutput(t)
      PROVE  /\ Len(output) > 0 /\ Len(output') = Len(output) - 1
             /\ UNCHANGED <<encoder, poll, available, inputs, doneInputs, frames,
                            empty, coded>>
  <2>1. output # << >> /\ output' = Tail(output)
    BY <1>2 DEF GetOutput
  <2>2. Len(output) > 0 /\ Len(output') = Len(output) - 1
    BY <1>0, <2>1, Taken
  <2> QED
    BY <1>2, <2>2 DEF GetOutput, codec
<1>3. ASSUME NEW t \in Threads, Return(t)
      PROVE  UNCHANGED <<encoder, poll, available, inputs, doneInputs, frames, coded,
                         output>>
  BY <1>3 DEF Return
<1>4. ASSUME DequeueOutput
      PROVE  /\ poll = "output" /\ poll' = "poll"
             /\ Len(coded) > 0 /\ Len(coded') = Len(coded) - 1
             /\ Len(output') = Len(output) + 1
             /\ UNCHANGED <<encoder, available, inputs, doneInputs, frames, empty>>
  <2>1. /\ coded # << >> /\ coded' = Tail(coded) /\ poll = "output" /\ poll' = "poll"
        /\ output' = Append(output, Head(coded))
    BY <1>4 DEF DequeueOutput, Base, QueuesPlaced
  <2>2. Len(coded) > 0 /\ Len(coded') = Len(coded) - 1 /\ Head(coded) \in Packets
    BY <1>0, <2>1, Taken
  <2>3. Len(output') = Len(output) + 1
    BY <1>0, <2>1, <2>2, Appended
  <2> QED
    BY <1>4, <2>1, <2>2, <2>3 DEF DequeueOutput
<1>5. ASSUME CodecMakes
      PROVE  /\ Len(frames) > 0 /\ Len(frames') = Len(frames) - 1
             /\ Len(coded') = Len(coded) + 1
             /\ empty > 0 /\ empty' = empty - 1
             /\ UNCHANGED <<encoder, poll, available, inputs, doneInputs, output>>
  <2>1. PICK bytes \in {0, 1} : coded' = Append(coded, Packet(Head(frames), bytes))
    BY <1>5 DEF CodecMakes
  <2>2. frames # << >> /\ frames' = Tail(frames)
    BY <1>5 DEF CodecMakes
  <2>3. Len(frames) > 0 /\ Len(frames') = Len(frames) - 1 /\ Head(frames) \in Frames
    BY <1>0, <2>2, Taken
  <2>4. Len(coded') = Len(coded) + 1
    BY <1>0, <2>1, <2>3, PacketType, Appended
  <2> QED
    BY <1>5, <2>3, <2>4 DEF CodecMakes
<1>6. ASSUME PollIn \/ PollEnds
      PROVE  /\ poll = "poll" /\ poll' \in {"input", "ended"}
             /\ UNCHANGED <<encoder, available, inputs, doneInputs, frames, empty,
                            coded, output>>
  BY <1>6 DEF PollIn, PollEnds, codec
<1>7. ASSUME DequeueInput
      PROVE  /\ poll = "input" /\ poll' = "output"
             /\ doneInputs > 0 /\ doneInputs' = doneInputs - 1
             /\ available' = available + 1
             /\ UNCHANGED <<encoder, inputs, frames, empty, coded, output>>
  BY <1>7 DEF DequeueInput
<1>8. ASSUME CodecTakes
      PROVE  /\ inputs > 0 /\ inputs' = inputs - 1 /\ doneInputs' = doneInputs + 1
             /\ UNCHANGED <<encoder, poll, available, frames, empty, coded, output>>
  BY <1>8 DEF CodecTakes
<1> QED
  BY <1>1, <1>2, <1>3, <1>4, <1>5, <1>6, <1>7, <1>8

LEMMA Counts ==
    ASSUME Base
    PROVE  /\ available \in Nat /\ inputs \in Nat /\ doneInputs \in Nat
           /\ empty \in Nat /\ lost \in Nat
           /\ Len(frames) \in Nat /\ Len(coded) \in Nat /\ Len(output) \in Nat
<1>1. frames \in Seq(Frames) /\ coded \in Seq(Packets) /\ output \in Seq(Packets)
  BY DEF Base, TypeOK, Frames
<1>2. Len(frames) \in Nat /\ Len(coded) \in Nat /\ Len(output) \in Nat
  BY <1>1
<1> QED
  BY <1>2 DEF Base, TypeOK

LEMMA InputsStep ==
    Base /\ InputsConserved /\ InputsMatch /\ [Next]_vars =>
      InputsConserved' /\ InputsMatch'
<1> SUFFICES ASSUME Base, InputsConserved, InputsMatch, [Next]_vars
             PROVE  InputsConserved' /\ InputsMatch'
  OBVIOUS
<1>0. /\ available \in Nat /\ inputs \in Nat /\ doneInputs \in Nat
      /\ Len(frames) \in Nat /\ Len(coded) \in Nat
  BY Counts
<1>1. InputBuffers \in Nat
  BY EncoderAssumption DEF EncoderAssumption
<1>2. CASE \E ok \in BOOLEAN : ConstructPost(ok)
  <2>1. PICK ok \in BOOLEAN : ConstructPost(ok)
    BY <1>2
  <2>2. Len(frames') = 0 /\ Len(coded') = 0
    BY <2>1, Emptied DEF ConstructPost
  <2>3. CASE ok
    <3>1. available' = InputBuffers /\ inputs' = 0 /\ doneInputs' = 0 /\ poll' = "poll"
      BY <2>1, <2>3 DEF ConstructPost
    <3> QED
      BY <1>1, <2>2, <3>1 DEF InputsConserved, InputsMatch
  <2>4. CASE ~ok
    BY <2>1, <2>4 DEF ConstructPost, InputsConserved, InputsMatch
  <2> QED
    BY <2>3, <2>4
<1>3. CASE UNCHANGED QueueVars
  BY <1>3 DEF QueueVars, InputsConserved, InputsMatch
<1>4. CASE /\ available' = available - 1 /\ inputs' = inputs + 1
           /\ Len(frames') = Len(frames) + 1
           /\ UNCHANGED <<encoder, poll, doneInputs, coded>>
  BY <1>0, <1>1, <1>4 DEF InputsConserved, InputsMatch
<1>5. CASE UNCHANGED <<available, inputs, doneInputs, poll, frames, coded, encoder>>
  BY <1>0, <1>1, <1>5 DEF InputsConserved, InputsMatch
<1>6. CASE /\ poll = "poll" /\ poll' \in {"input", "ended"}
           /\ UNCHANGED <<encoder, available, inputs, doneInputs, frames, coded>>
  BY <1>0, <1>1, <1>6 DEF InputsConserved, InputsMatch
<1>7. CASE /\ poll = "input" /\ poll' = "output"
           /\ doneInputs' = doneInputs - 1 /\ available' = available + 1
           /\ UNCHANGED <<encoder, inputs, frames, coded>>
  BY <1>0, <1>1, <1>7 DEF InputsConserved, InputsMatch
<1>8. CASE /\ poll = "output" /\ poll' = "poll"
           /\ Len(coded') = Len(coded) - 1
           /\ UNCHANGED <<encoder, available, inputs, doneInputs, frames>>
  BY <1>0, <1>1, <1>8 DEF InputsConserved, InputsMatch
<1>9. CASE /\ inputs' = inputs - 1 /\ doneInputs' = doneInputs + 1
           /\ UNCHANGED <<encoder, poll, available, frames, coded>>
  BY <1>0, <1>1, <1>9 DEF InputsConserved, InputsMatch
<1>10. CASE /\ Len(frames') = Len(frames) - 1 /\ Len(coded') = Len(coded) + 1
           /\ UNCHANGED <<encoder, poll, available, inputs, doneInputs>>
  BY <1>0, <1>1, <1>10 DEF InputsConserved, InputsMatch
<1>11. ASSUME NEW t \in Threads, PyCall(t) \/ InCall(t) \/ Finish(t)
       PROVE  InputsConserved' /\ InputsMatch'
  BY <1>2, <1>3, <1>4, <1>5, <1>11, Lengths, CallsLeaveQueues, Renews
     DEF PyCall, InCall, Finish
<1>12. CASE PollThread \/ CodecTakes \/ CodecMakes
  BY <1>6, <1>7, <1>8, <1>9, <1>10, <1>12, Lengths DEF PollThread
<1>13. CASE UNCHANGED vars
  BY <1>3, <1>13 DEF vars, codec, QueueVars
<1> QED
  BY <1>11, <1>12, <1>13 DEF Next

\* What the steps do to the calls that hold a packet.
HoldersStay == Holders' = Holders /\ lost' = lost

LEMMA HoldersEffect ==
    ASSUME Base
    PROVE  /\ \A t \in Threads :
                (SetResolution(t) \/ Dealloc(t) \/ Encode(t) \/ EncodeFails(t)
                   \/ WaitOutput(t) \/ GetAborted(t) \/ DestroyedInUse(t))
                => HoldersStay
           /\ PollThread \/ CodecTakes \/ CodecMakes \/ UNCHANGED vars => HoldersStay
           /\ \A t \in Threads : GetOutput(t) =>
                t \notin Holders /\ Holders' = Holders \cup {t} /\ lost' = lost
           /\ \A t \in Threads : Raise(t) =>
                \/ HoldersStay
                \/ t \in Holders /\ Holders' = Holders \ {t} /\ lost' = lost + 1
           /\ \A t \in Threads : Return(t) =>
                \/ HoldersStay /\ empty' = empty
                \/ /\ t \in Holders /\ Holders' = Holders \ {t}
                   /\ lost' = lost /\ empty' = empty + 1
<1>0. pc \in [Threads -> Places] /\ item \in [Threads -> Packets]
      /\ output \in Seq(Packets) /\ lost \in Nat
  BY DEF Base, TypeOK, Places
<1> USE <1>0 DEF Holders, HoldersStay
<1>1. ASSUME NEW t \in Threads, SetResolution(t) \/ Dealloc(t) \/ WaitOutput(t)
      PROVE  HoldersStay
  <2>1. /\ pc[t] # "got" /\ UNCHANGED <<item, lost>>
        /\ \E p \in {"resize", "dealloc", "waiting"} : pc' = [pc EXCEPT ![t] = p]
    BY <1>1 DEF SetResolution, Dealloc, WaitOutput, Abort, Idle
  <2> QED
    BY <2>1
<1>2. ASSUME NEW t \in Threads, Encode(t) PROVE HoldersStay
  <2>1. /\ pc[t] # "got" /\ UNCHANGED <<item, lost>> /\ pc' = [pc EXCEPT ![t] = "enter"]
    BY <1>2 DEF Encode, Idle
  <2> QED
    BY <2>1
<1>3. ASSUME NEW t \in Threads, GetAborted(t) PROVE HoldersStay
  <2>1. /\ pc[t] # "got" /\ lost' = lost /\ pc' = [pc EXCEPT ![t] = "got"]
        /\ item' = [item EXCEPT ![t] = NullItem]
    BY <1>3 DEF GetAborted
  <2> QED
    BY <2>1, NullItemType
<1>4. ASSUME NEW t \in Threads, EncodeFails(t) \/ DestroyedInUse(t)
      PROVE  HoldersStay
  BY <1>4 DEF EncodeFails, DestroyedInUse
<1>5. ASSUME NEW t \in Threads, GetOutput(t)
      PROVE  t \notin Holders /\ Holders' = Holders \cup {t} /\ lost' = lost
  <2>1. /\ pc[t] # "got" /\ lost' = lost /\ pc' = [pc EXCEPT ![t] = "got"]
        /\ item' = [item EXCEPT ![t] = Head(output)] /\ output # << >>
    BY <1>5 DEF GetOutput, InGetOutput
  <2>2. Head(output).mapped
    <3>1. Head(output) = output[1] /\ 1 \in 1 .. Len(output)
      BY <2>1, Taken
    <3> QED
      BY <3>1 DEF Base, QueuesPlaced
  <2> QED
    BY <2>1, <2>2
<1>6. ASSUME NEW t \in Threads, Raise(t)
      PROVE  \/ HoldersStay
             \/ t \in Holders /\ Holders' = Holders \ {t} /\ lost' = lost + 1
  <2>1. /\ pc[t] = "got" /\ pc' = [pc EXCEPT ![t] = "idle"]
        /\ item' = [item EXCEPT ![t] = NullItem]
        /\ lost' = lost + (IF item[t].mapped THEN 1 ELSE 0)
    BY <1>6 DEF Raise
  <2>2. CASE item[t].mapped
    BY <2>1, <2>2
  <2>3. CASE ~item[t].mapped
    BY <2>1, <2>3
  <2> QED
    BY <2>2, <2>3
<1>7. ASSUME NEW t \in Threads, Return(t)
      PROVE  \/ HoldersStay /\ empty' = empty
             \/ /\ t \in Holders /\ Holders' = Holders \ {t}
                /\ lost' = lost /\ empty' = empty + 1
  <2>1. CASE item[t].mapped
    <3>1. /\ pc[t] = "got" /\ pc' = [pc EXCEPT ![t] = "idle"]
          /\ item' = [item EXCEPT ![t] = NullItem]
          /\ lost' = lost /\ empty' = empty + 1
      BY <1>7, <2>1 DEF Return
    <3> QED
      BY <2>1, <3>1
  <2>2. CASE ~item[t].mapped
    BY <1>7, <2>2 DEF Return
  <2> QED
    BY <2>1, <2>2
<1>8. ASSUME PollThread \/ CodecTakes \/ CodecMakes \/ UNCHANGED vars
      PROVE  HoldersStay
  BY <1>8 DEF PollThread, PollIn, DequeueInput, DequeueOutput, PollEnds,
              CodecTakes, CodecMakes, vars
<1> HIDE <1>0 DEF Holders, HoldersStay
<1> QED
  BY <1>1, <1>2, <1>3, <1>4, <1>5, <1>6, <1>7, <1>8

\* When keInit is called, and when it was called by a change of the resolution,
\* no call holds a packet with its memory or waits for one.
LEMMA RenewsAlone ==
    ASSUME Base, NEW t \in Threads, Create(t) \/ Resized(t) \/ Deallocated(t)
    PROVE  Holders' = {} /\ Waiters' = {}
<1>0. pc \in [Threads -> Places] /\ item \in [Threads -> Packets]
  BY DEF Base, TypeOK, Places
<1>1. CASE Create(t)
  <2>1. UNCHANGED <<pc, item>> /\ ~object
    BY <1>1 DEF Create
  <2>2. \A u \in Threads : pc[u] = "idle"
    BY <2>1 DEF Base, ThreadsPlaced
  <2> QED
    BY <2>1, <2>2 DEF Holders, Waiters, InGetOutput
<1>2. CASE Resized(t) \/ Deallocated(t)
  <2>1. Joined(t)
    BY <1>2 DEF Resized, Deallocated
  <2>2. \A u \in Threads : ~item'[u].mapped
    BY <1>0, <2>1 DEF Joined, Packets
  <2>3. \A u \in Threads : ~InGetOutput(u)'
    BY <1>0, <2>1 DEF Joined, InGetOutput
  <2> QED
    BY <2>2, <2>3 DEF Holders, Waiters
<1> QED
  BY <1>1, <1>2

\* Capture buffers are with the codec, in a queue, with a call, or lost.
CapturesConserved ==
    encoder =>
      empty + Len(coded) + Len(output) + Cardinality(Holders) + lost = CaptureBuffers

LEMMA HoldersCount ==
    ASSUME IsFiniteSet(Holders)
    PROVE  /\ Cardinality(Holders) \in Nat
           /\ HoldersStay => IsFiniteSet(Holders') /\ Cardinality(Holders') = Cardinality(Holders)
           /\ \A t : t \notin Holders /\ Holders' = Holders \cup {t} =>
                IsFiniteSet(Holders') /\ Cardinality(Holders') = Cardinality(Holders) + 1
           /\ \A t : t \in Holders /\ Holders' = Holders \ {t} =>
                IsFiniteSet(Holders') /\ Cardinality(Holders') = Cardinality(Holders) - 1
           /\ Holders' = {} => IsFiniteSet(Holders') /\ Cardinality(Holders') = 0
BY FS_CardinalityType, FS_AddElement, FS_RemoveElement, FS_EmptySet DEF HoldersStay

LEMMA CapturesStep ==
    Base /\ IsFiniteSet(Holders) /\ CapturesConserved /\ [Next]_vars =>
      IsFiniteSet(Holders') /\ CapturesConserved'
<1> SUFFICES ASSUME Base, IsFiniteSet(Holders), CapturesConserved, [Next]_vars
             PROVE  IsFiniteSet(Holders') /\ CapturesConserved'
  OBVIOUS
<1> DEFINE n == Cardinality(Holders)
<1>0. /\ empty \in Nat /\ lost \in Nat /\ Len(coded) \in Nat /\ Len(output) \in Nat
      /\ n \in Nat /\ CaptureBuffers \in Nat
  BY Counts, HoldersCount, EncoderAssumption DEF EncoderAssumption
<1> DEFINE Same == /\ IsFiniteSet(Holders') /\ encoder' = encoder
                   /\ empty' + Len(coded') + Len(output') + Cardinality(Holders') + lost'
                        = empty + Len(coded) + Len(output) + n + lost
<1>1. ASSUME NEW t \in Threads, Create(t) \/ Resized(t) \/ Deallocated(t)
      PROVE  IsFiniteSet(Holders') /\ CapturesConserved'
  <2>1. PICK ok \in BOOLEAN : ConstructPost(ok)
    BY <1>1, Renews
  <2>2. IsFiniteSet(Holders') /\ Cardinality(Holders') = 0
    BY <1>1, RenewsAlone, HoldersCount
  <2>3. Len(coded') = 0 /\ Len(output') = 0
    BY <2>1, Emptied DEF ConstructPost
  <2>4. lost' = 0 /\ encoder' = ok /\ (ok => empty' = CaptureBuffers)
    BY <2>1 DEF ConstructPost
  <2> QED
    BY <1>0, <2>2, <2>3, <2>4 DEF CapturesConserved
<1>2. ASSUME NEW t \in Threads,
             \/ SetResolution(t) \/ Dealloc(t) \/ EncodeFails(t) \/ WaitOutput(t)
             \/ GetAborted(t) \/ DestroyedInUse(t)
      PROVE  Same
  <2>1. HoldersStay /\ UNCHANGED QueueVars
    BY <1>2, HoldersEffect, CallsLeaveQueues
  <2> QED
    BY <2>1, HoldersCount DEF QueueVars, HoldersStay
<1>3. ASSUME NEW t \in Threads, Encode(t) PROVE Same
  <2>1. HoldersStay /\ UNCHANGED <<encoder, empty, coded, output>>
    BY <1>3, HoldersEffect, Lengths
  <2> QED
    BY <2>1, HoldersCount DEF HoldersStay
<1>4. ASSUME NEW t \in Threads, GetOutput(t) PROVE Same
  <2>1. t \notin Holders /\ Holders' = Holders \cup {t} /\ lost' = lost
    BY <1>4, HoldersEffect
  <2>2. Len(output') = Len(output) - 1 /\ UNCHANGED <<encoder, empty, coded>>
    BY <1>4, Lengths
  <2>3. IsFiniteSet(Holders') /\ Cardinality(Holders') = n + 1
    BY <2>1, HoldersCount
  <2> QED
    BY <1>0, <2>1, <2>2, <2>3
<1>5. ASSUME NEW t \in Threads, Raise(t) PROVE Same
  <2>1. UNCHANGED <<encoder, empty, coded, output>>
    BY <1>5, CallsLeaveQueues DEF QueueVars
  <2>2. CASE HoldersStay
    BY <2>1, <2>2, HoldersCount DEF HoldersStay
  <2>3. CASE t \in Holders /\ Holders' = Holders \ {t} /\ lost' = lost + 1
    <3>1. IsFiniteSet(Holders') /\ Cardinality(Holders') = n - 1
      BY <2>3, HoldersCount
    <3> QED
      BY <1>0, <2>1, <2>3, <3>1
  <2> QED
    BY <1>5, <2>2, <2>3, HoldersEffect
<1>6. ASSUME NEW t \in Threads, Return(t) PROVE Same
  <2>1. UNCHANGED <<encoder, coded, output>>
    BY <1>6, Lengths
  <2>2. CASE HoldersStay /\ empty' = empty
    BY <2>1, <2>2, HoldersCount DEF HoldersStay
  <2>3. CASE /\ t \in Holders /\ Holders' = Holders \ {t}
             /\ lost' = lost /\ empty' = empty + 1
    <3>1. IsFiniteSet(Holders') /\ Cardinality(Holders') = n - 1
      BY <2>3, HoldersCount
    <3> QED
      BY <1>0, <2>1, <2>3, <3>1
  <2> QED
    BY <1>6, <2>2, <2>3, HoldersEffect
<1>7. ASSUME PollThread \/ CodecTakes \/ CodecMakes \/ UNCHANGED vars PROVE Same
  <2>1. HoldersStay
    BY <1>7, HoldersEffect
  <2>2. IsFiniteSet(Holders') /\ Cardinality(Holders') = n /\ lost' = lost
    BY <2>1, HoldersCount DEF HoldersStay
  <2>3. CASE UNCHANGED <<encoder, empty, coded, output>>
    BY <2>2, <2>3
  <2>4. CASE /\ Len(coded') = Len(coded) - 1 /\ Len(output') = Len(output) + 1
             /\ UNCHANGED <<encoder, empty>>
    BY <1>0, <2>2, <2>4
  <2>5. CASE /\ Len(coded') = Len(coded) + 1 /\ empty' = empty - 1
             /\ UNCHANGED <<encoder, output>>
    BY <1>0, <2>2, <2>5
  <2>6. CASE UNCHANGED vars
    BY <2>3, <2>6 DEF vars, codec
  <2> QED
    BY <1>7, <2>3, <2>4, <2>5, <2>6, Lengths DEF PollThread
<1>8. CASE Same
  BY <1>8 DEF CapturesConserved
<1> QED
  BY <1>1, <1>2, <1>3, <1>4, <1>5, <1>6, <1>7, <1>8 DEF Next, PyCall, InCall, Finish

-----------------------------------------------------------------------------
(* The calls that wait.                                                     *)

WaitersStay == Waiters' = Waiters

LEMMA WaitersCount ==
    ASSUME IsFiniteSet(Waiters)
    PROVE  /\ Cardinality(Waiters) \in Nat
           /\ WaitersStay => IsFiniteSet(Waiters') /\ Cardinality(Waiters') = Cardinality(Waiters)
           /\ \A t : t \notin Waiters /\ Waiters' = Waiters \cup {t} =>
                IsFiniteSet(Waiters') /\ Cardinality(Waiters') = Cardinality(Waiters) + 1
           /\ \A t : t \in Waiters /\ Waiters' = Waiters \ {t} =>
                IsFiniteSet(Waiters') /\ Cardinality(Waiters') = Cardinality(Waiters) - 1
           /\ Waiters' = {} => IsFiniteSet(Waiters') /\ Cardinality(Waiters') = 0
BY FS_CardinalityType, FS_AddElement, FS_RemoveElement, FS_EmptySet DEF WaitersStay

\* What the steps do to the calls that wait, to abort and to fault.
LEMMA WaitersEffect ==
    ASSUME Base
    PROVE  /\ \A t \in Threads :
                SetResolution(t) \/ Dealloc(t) =>
                  WaitersStay /\ abort' = encoder /\ encoder' = encoder
           /\ \A t \in Threads :
                EncodeFails(t) \/ DestroyedInUse(t) => WaitersStay /\ fault' # "none"
           /\ \A t \in Threads :
                Raise(t) \/ Return(t) \/ WaitOutput(t) =>
                  WaitersStay /\ abort' = abort /\ fault = "none"
           /\ \A t \in Threads :
                GetAborted(t) =>
                  t \in Waiters /\ Waiters' = Waiters \ {t} /\ abort /\ abort'
           /\ \A t \in Threads :
                GetOutput(t) =>
                  /\ t \in Waiters /\ Waiters' = Waiters \ {t}
                  /\ abort' = abort /\ fault = "none"
           /\ \A t \in Threads :
                Encode(t) =>
                  /\ t \notin Waiters /\ Waiters' = Waiters \cup {t}
                  /\ abort' = abort /\ fault = "none"
           /\ PollThread \/ CodecTakes \/ CodecMakes =>
                WaitersStay /\ abort' = abort /\ fault = "none"
<1>0. pc \in [Threads -> Places]
  BY DEF Base, TypeOK, Places
<1> USE <1>0 DEF Waiters, WaitersStay, InGetOutput
<1>1. ASSUME NEW t \in Threads, SetResolution(t) \/ Dealloc(t)
      PROVE  WaitersStay /\ abort' = encoder /\ encoder' = encoder
  <2>1. /\ pc[t] = "idle" /\ abort' = encoder /\ encoder' = encoder
        /\ \E p \in {"resize", "dealloc"} : pc' = [pc EXCEPT ![t] = p]
    BY <1>1 DEF SetResolution, Dealloc, Abort, Idle
  <2> QED
    BY <2>1
<1>2. ASSUME NEW t \in Threads, EncodeFails(t) \/ DestroyedInUse(t)
      PROVE  WaitersStay /\ fault' # "none"
  BY <1>2 DEF EncodeFails, DestroyedInUse
<1>3. ASSUME NEW t \in Threads, Raise(t) \/ Return(t) \/ WaitOutput(t)
      PROVE  WaitersStay /\ abort' = abort /\ fault = "none"
  <2>1. /\ abort' = abort /\ fault = "none"
        /\ \/ pc[t] = "got" /\ pc' = [pc EXCEPT ![t] = "idle"]
           \/ pc[t] = "enter" /\ pc' = [pc EXCEPT ![t] = "waiting"]
           \/ pc' = pc
    BY <1>3 DEF Raise, Return, WaitOutput
  <2> QED
    BY <2>1
<1>4. ASSUME NEW t \in Threads, GetAborted(t)
      PROVE  t \in Waiters /\ Waiters' = Waiters \ {t} /\ abort /\ abort'
  <2>1. pc[t] = "waiting" /\ abort /\ abort' = abort /\ pc' = [pc EXCEPT ![t] = "got"]
    BY <1>4 DEF GetAborted
  <2> QED
    BY <2>1
<1>5. ASSUME NEW t \in Threads, GetOutput(t)
      PROVE  /\ t \in Waiters /\ Waiters' = Waiters \ {t}
             /\ abort' = abort /\ fault = "none"
  <2>1. /\ pc[t] \in {"enter", "waiting"} /\ abort' = abort /\ fault = "none"
        /\ pc' = [pc EXCEPT ![t] = "got"]
    BY <1>5 DEF GetOutput
  <2> QED
    BY <2>1
<1>6. ASSUME NEW t \in Threads, Encode(t)
      PROVE  /\ t \notin Waiters /\ Waiters' = Waiters \cup {t}
             /\ abort' = abort /\ fault = "none"
  <2>1. /\ pc[t] = "idle" /\ abort' = abort /\ fault = "none"
        /\ pc' = [pc EXCEPT ![t] = "enter"]
    BY <1>6 DEF Encode, Idle
  <2> QED
    BY <2>1
<1>7. ASSUME PollThread \/ CodecTakes \/ CodecMakes
      PROVE  WaitersStay /\ abort' = abort /\ fault = "none"
  BY <1>7 DEF PollThread, PollIn, DequeueInput, DequeueOutput, PollEnds,
              CodecTakes, CodecMakes
<1> HIDE <1>0 DEF Waiters, WaitersStay, InGetOutput
<1> QED
  BY <1>1, <1>2, <1>3, <1>4, <1>5, <1>6, <1>7

LEMMA WaitersStep ==
    Base /\ IsFiniteSet(Waiters) /\ WaitersMatch /\ [Next]_vars =>
      IsFiniteSet(Waiters') /\ WaitersMatch'
<1> SUFFICES ASSUME Base, IsFiniteSet(Waiters), WaitersMatch, [Next]_vars
             PROVE  IsFiniteSet(Waiters') /\ WaitersMatch'
  OBVIOUS
<1> DEFINE n == Cardinality(Waiters)
<1>0. /\ Len(frames) \in Nat /\ Len(coded) \in Nat /\ Len(output) \in Nat
      /\ n \in Nat
  BY Counts, WaitersCount
<1> DEFINE Goal == IsFiniteSet(Waiters') /\ WaitersMatch'
<1>1. ASSUME NEW t \in Threads, Create(t) \/ Resized(t) \/ Deallocated(t)
      PROVE  Goal
  <2>1. PICK ok \in BOOLEAN : ConstructPost(ok)
    BY <1>1, Renews
  <2>2. IsFiniteSet(Waiters') /\ Cardinality(Waiters') = 0
    BY <1>1, RenewsAlone, WaitersCount
  <2>3. Len(frames') = 0 /\ Len(coded') = 0 /\ Len(output') = 0
    BY <2>1, Emptied DEF ConstructPost
  <2> QED
    BY <2>2, <2>3 DEF WaitersMatch
<1>2. ASSUME NEW t \in Threads, SetResolution(t) \/ Dealloc(t) PROVE Goal
  BY <1>2, WaitersEffect, WaitersCount DEF WaitersMatch
<1>3. ASSUME NEW t \in Threads, EncodeFails(t) \/ DestroyedInUse(t) PROVE Goal
  BY <1>3, WaitersEffect, WaitersCount DEF WaitersMatch
<1>4. ASSUME NEW t \in Threads, Raise(t) \/ Return(t) \/ WaitOutput(t) PROVE Goal
  <2>1. UNCHANGED <<encoder, frames, coded, output>>
    BY <1>4, Lengths, CallsLeaveQueues DEF QueueVars
  <2> QED
    BY <1>4, <2>1, WaitersEffect, WaitersCount DEF WaitersMatch, WaitersStay
<1>5. ASSUME NEW t \in Threads, GetAborted(t) PROVE Goal
  BY <1>5, WaitersEffect, WaitersCount DEF WaitersMatch
<1>6. ASSUME NEW t \in Threads, GetOutput(t) PROVE Goal
  <2>1. /\ t \in Waiters /\ Waiters' = Waiters \ {t}
        /\ abort' = abort /\ fault = "none"
    BY <1>6, WaitersEffect
  <2>2. Len(output') = Len(output) - 1 /\ UNCHANGED <<encoder, frames, coded>>
    BY <1>6, Lengths
  <2>3. IsFiniteSet(Waiters') /\ Cardinality(Waiters') = n - 1
    BY <2>1, WaitersCount
  <2> QED
    BY <1>0, <2>1, <2>2, <2>3 DEF WaitersMatch
<1>7. ASSUME NEW t \in Threads, Encode(t) PROVE Goal
  <2>1. /\ t \notin Waiters /\ Waiters' = Waiters \cup {t}
        /\ abort' = abort /\ fault = "none"
    BY <1>7, WaitersEffect
  <2>2. Len(frames') = Len(frames) + 1 /\ UNCHANGED <<encoder, coded, output>>
    BY <1>7, Lengths
  <2>3. IsFiniteSet(Waiters') /\ Cardinality(Waiters') = n + 1
    BY <2>1, WaitersCount
  <2> QED
    BY <1>0, <2>1, <2>2, <2>3 DEF WaitersMatch
<1>8. ASSUME PollThread \/ CodecTakes \/ CodecMakes PROVE Goal
  <2>1. WaitersStay /\ abort' = abort /\ fault = "none" /\ encoder' = encoder
    BY <1>8, WaitersEffect, Lengths DEF PollThread
  <2>2. IsFiniteSet(Waiters') /\ Cardinality(Waiters') = n
    BY <2>1, WaitersCount
  <2>3. Len(frames') + Len(coded') + Len(output') = Len(frames) + Len(coded) + Len(output)
    <3>1. CASE UNCHANGED <<frames, coded, output>>
      BY <3>1
    <3>2. CASE /\ Len(coded') = Len(coded) - 1 /\ Len(output') = Len(output) + 1
               /\ UNCHANGED frames
      BY <1>0, <3>2
    <3>3. CASE /\ Len(frames') = Len(frames) - 1 /\ Len(coded') = Len(coded) + 1
               /\ UNCHANGED output
      BY <1>0, <3>3
    <3> QED
      BY <1>8, <3>1, <3>2, <3>3, Lengths DEF PollThread
  <2> QED
    BY <2>1, <2>2, <2>3 DEF WaitersMatch
<1>9. CASE UNCHANGED vars
  BY <1>9 DEF vars, codec, WaitersMatch, Waiters, InGetOutput
<1> QED
  BY <1>1, <1>2, <1>3, <1>4, <1>5, <1>6, <1>7, <1>8, <1>9
     DEF Next, PyCall, InCall, Finish

-----------------------------------------------------------------------------
(* The order of the packets.                                                *)

\* Packets and frames that stay where they are.
Ages == <<calls, m_count, returned>>

LEMMA OrderTypes ==
    ASSUME Base
    PROVE  /\ calls \in Nat /\ m_count \in Nat /\ returned \in Nat
           /\ frames \in Seq(Frames)
           /\ coded \in Seq(Packets) /\ output \in Seq(Packets)
           /\ pc \in [Threads -> Places] /\ item \in [Threads -> Packets]
BY DEF Base, TypeOK, Frames, Places

\* Neither a new call nor the return of a packet makes a packet stale that is
\* still under way.
LEMMA FreshKept ==
    ASSUME Base, NEW p, p \in Packets \/ p \in Frames, Fresh(p),
           \/ UNCHANGED Ages
           \/ calls' = calls + 1 /\ UNCHANGED <<m_count, returned>>
           \/ m_count' = m_count + 1 /\ UNCHANGED calls
    PROVE  p.frame <= calls' /\ p.stamp <= m_count'
             /\ (p.stamp = m_count' => p.frame > returned')
<1>1. p.frame \in Nat /\ p.stamp \in Nat
  BY DEF Packets, Frames
<1> QED
  BY <1>1, OrderTypes DEF Fresh, Ages

\* So InOrder survives a step that moves nothing.
LEMMA StillInOrder ==
    ASSUME Base, InOrder, UNCHANGED <<frames, coded, output>>,
           \/ UNCHANGED Ages
           \/ calls' = calls + 1 /\ UNCHANGED <<m_count, returned>>
           \/ m_count' = m_count + 1 /\ UNCHANGED calls
    PROVE  /\ \A i \in 1 .. Len(frames') : Fresh(frames[i])'
           /\ \A i \in 1 .. Len(coded') : Fresh(coded[i])'
           /\ \A i \in 1 .. Len(output') : Fresh(output[i])'
<1>1. /\ \A i \in 1 .. Len(frames) : frames[i] \in Frames
      /\ \A i \in 1 .. Len(coded) : coded[i] \in Packets
      /\ \A i \in 1 .. Len(output) : output[i] \in Packets
  BY OrderTypes
<1> QED
  BY <1>1, FreshKept DEF InOrder, Fresh

LEMMA OrderStep == Base /\ InOrder /\ [Next]_vars => InOrder'
<1> SUFFICES ASSUME Base, InOrder, [Next]_vars PROVE InOrder'
  OBVIOUS
<1>0. /\ \A i \in 1 .. Len(frames) : frames[i] \in Frames /\ Fresh(frames[i])
      /\ \A i \in 1 .. Len(coded) : coded[i] \in Packets /\ Fresh(coded[i])
      /\ \A i \in 1 .. Len(output) : output[i] \in Packets /\ Fresh(output[i])
  BY OrderTypes DEF InOrder
<1>1. ASSUME NEW t \in Threads, Create(t) PROVE InOrder'
  <2>1. PICK ok \in BOOLEAN : ConstructPost(ok)
    BY <1>1, Renews
  <2>2. Len(frames') = 0 /\ Len(coded') = 0 /\ Len(output') = 0
    BY <2>1, Emptied DEF ConstructPost
  <2>3. UNCHANGED <<pc, calls, returned>> /\ ~object
    BY <1>1 DEF Create, bounds
  <2>4. \A u \in Threads : pc'[u] = "idle"
    BY <2>3 DEF Base, ThreadsPlaced
  <2> QED
    BY <2>2, <2>3, <2>4 DEF InOrder
<1>2. ASSUME NEW t \in Threads, Resized(t) \/ Deallocated(t) PROVE InOrder'
  <2>1. PICK ok \in BOOLEAN : ConstructPost(ok)
    BY <1>2, Renews
  <2>2. Len(frames') = 0 /\ Len(coded') = 0 /\ Len(output') = 0
    BY <2>1, Emptied DEF ConstructPost
  <2>3. Joined(t)
    BY <1>2 DEF Resized, Deallocated
  <2>4. UNCHANGED Ages
    BY <2>3 DEF Joined, bounds, Ages
  <2>5. ASSUME NEW u \in Threads, pc'[u] = "got"
        PROVE  pc[u] = "got" /\ item'[u].frame = item[u].frame
                 /\ item'[u].stamp = item[u].stamp /\ item'[u].bytes = item[u].bytes
    BY <2>3, <2>5, OrderTypes DEF Joined, Packets
  <2> QED
    BY <2>2, <2>4, <2>5 DEF InOrder, Fresh, Ages
<1>3. ASSUME UNCHANGED <<frames, coded, output>>, UNCHANGED Ages,
             \A u \in Threads : pc'[u] = "got" =>
               \/ pc[u] = "got" /\ item'[u] = item[u]
               \/ item'[u] = NullItem
      PROVE  InOrder'
  <2>1. \A u \in Threads : pc'[u] = "got" => item'[u].bytes = 0 \/ Fresh(item[u])'
    BY <1>3, NullItemType DEF InOrder, Fresh, Ages
  <2> QED
    BY <1>3, <2>1, StillInOrder DEF InOrder, Ages
<1>4. ASSUME NEW t \in Threads, SetResolution(t) \/ Dealloc(t) \/ WaitOutput(t)
      PROVE  InOrder'
  <2>1. /\ pc[t] # "got" /\ UNCHANGED <<item, frames, coded, output, Ages>>
        /\ \E p \in {"resize", "dealloc", "waiting"} : pc' = [pc EXCEPT ![t] = p]
    BY <1>4 DEF SetResolution, Dealloc, WaitOutput, Abort, Idle, codec, bounds, Ages
  <2> QED
    BY <1>3, <2>1, OrderTypes
<1>5. ASSUME NEW t \in Threads, EncodeFails(t) \/ DestroyedInUse(t) PROVE InOrder'
  <2>1. UNCHANGED <<pc, item, frames, coded, output, Ages>>
    BY <1>5 DEF EncodeFails, DestroyedInUse, codec, bounds, Ages
  <2> QED
    BY <1>3, <2>1
<1>6. ASSUME NEW t \in Threads, GetAborted(t) PROVE InOrder'
  <2>1. /\ UNCHANGED <<frames, coded, output, Ages>> /\ pc' = [pc EXCEPT ![t] = "got"]
        /\ item' = [item EXCEPT ![t] = NullItem]
    BY <1>6 DEF GetAborted, codec, bounds, Ages
  <2> QED
    BY <1>3, <2>1, OrderTypes
<1>7. ASSUME NEW t \in Threads, Raise(t) PROVE InOrder'
  <2>1. /\ UNCHANGED <<frames, coded, output, Ages>> /\ pc' = [pc EXCEPT ![t] = "idle"]
        /\ item' = [item EXCEPT ![t] = NullItem]
    BY <1>7 DEF Raise, codec, bounds, Ages
  <2> QED
    BY <1>3, <2>1, OrderTypes
<1> DEFINE NewFresh(p) == /\ p.frame <= calls' /\ p.stamp <= m_count'
                          /\ (p.stamp = m_count' => p.frame > returned')
           NewFrames == {p \in Frames : NewFresh(p)}
           NewPackets == {p \in Packets : NewFresh(p)}
\* What has to be shown of the state after the step.
<1>8. ASSUME returned' <= calls',
             \A i \in 1 .. Len(frames') : frames'[i] \in NewFrames,
             \A i \in 1 .. Len(coded') : coded'[i] \in NewPackets,
             \A i \in 1 .. Len(output') : output'[i] \in NewPackets,
             \A u \in Threads : pc'[u] = "got" =>
               item'[u].bytes = 0 \/ item'[u] \in NewPackets
      PROVE  InOrder'
  BY <1>8 DEF InOrder, Fresh
\* What was under way before it stays fresh.
<1>9. ASSUME \/ UNCHANGED Ages
             \/ calls' = calls + 1 /\ UNCHANGED <<m_count, returned>>
             \/ m_count' = m_count + 1 /\ UNCHANGED calls
      PROVE  /\ \A i \in 1 .. Len(frames) : frames[i] \in NewFrames
             /\ \A i \in 1 .. Len(coded) : coded[i] \in NewPackets
             /\ \A i \in 1 .. Len(output) : output[i] \in NewPackets
             /\ \A u \in Threads : pc[u] = "got" =>
                  item[u].bytes = 0 \/ item[u] \in NewPackets
  <2>1. \A p \in Frames : Fresh(p) => p \in NewFrames
    BY <1>9, FreshKept
  <2>2. \A p \in Packets : Fresh(p) => p \in NewPackets
    BY <1>9, FreshKept
  <2>3. \A u \in Threads : item[u] \in Packets
    BY OrderTypes
  <2> HIDE DEF NewFrames, NewPackets
  <2> QED
    BY <1>0, <2>1, <2>2, <2>3 DEF InOrder
<1>10. ASSUME NEW t \in Threads, Encode(t) PROVE InOrder'
  <2>1. /\ frames' = Append(frames, [frame |-> calls + 1, stamp |-> m_count])
        /\ UNCHANGED <<coded, output, item, m_count, returned>> /\ calls' = calls + 1
        /\ pc' = [pc EXCEPT ![t] = "enter"]
    BY <1>10 DEF Encode
  <2>2. calls \in Nat /\ m_count \in Nat /\ returned \in Nat /\ returned <= calls
    BY OrderTypes DEF InOrder
  <2>3. PICK e \in Frames : e = [frame |-> calls + 1, stamp |-> m_count]
    BY <2>2, FrameType
  <2>4. e \in NewFrames
    <3>1. e.frame = calls + 1 /\ e.stamp = m_count
      BY <2>3
    <3> QED
      BY <2>1, <2>2, <3>1
  <2>5. /\ \A i \in 1 .. Len(frames) : frames[i] \in NewFrames
        /\ \A i \in 1 .. Len(coded) : coded[i] \in NewPackets
        /\ \A i \in 1 .. Len(output) : output[i] \in NewPackets
        /\ \A u \in Threads : pc[u] = "got" =>
             item[u].bytes = 0 \/ item[u] \in NewPackets
    BY <1>9, <2>1
  <2>6. returned' <= calls'
    BY <2>1, <2>2
  <2>7. \A u \in Threads : pc'[u] = "got" => pc[u] = "got"
    BY <2>1, OrderTypes
  <2> HIDE DEF NewFrames, NewPackets
  <2>8. \A i \in 1 .. Len(frames') : frames'[i] \in NewFrames
    BY <2>1, <2>3, <2>4, <2>5, AppendAll, OrderTypes
  <2> QED
    BY <1>8, <2>1, <2>5, <2>6, <2>7, <2>8
<1>11. ASSUME NEW t \in Threads, GetOutput(t) PROVE InOrder'
  <2>1. /\ UNCHANGED <<frames, coded, Ages>> /\ output # << >> /\ output' = Tail(output)
        /\ item' = [item EXCEPT ![t] = Head(output)] /\ pc' = [pc EXCEPT ![t] = "got"]
    BY <1>11 DEF GetOutput, codec, bounds, Ages
  <2>2. /\ \A i \in 1 .. Len(frames) : frames[i] \in NewFrames
        /\ \A i \in 1 .. Len(coded) : coded[i] \in NewPackets
        /\ \A i \in 1 .. Len(output) : output[i] \in NewPackets
        /\ \A u \in Threads : pc[u] = "got" =>
             item[u].bytes = 0 \/ item[u] \in NewPackets
    BY <1>9, <2>1
  <2>3. returned' <= calls'
    BY <2>1 DEF InOrder, Ages
  <2> HIDE DEF NewFrames, NewPackets
  <2>4. Head(output) \in NewPackets /\ \A i \in 1 .. Len(output') : output'[i] \in NewPackets
    BY <2>1, <2>2, TailAll, OrderTypes
  <2>5. \A u \in Threads : pc'[u] = "got" =>
          item'[u].bytes = 0 \/ item'[u] \in NewPackets
    BY <2>1, <2>2, <2>4, OrderTypes
  <2> QED
    BY <1>8, <2>1, <2>2, <2>3, <2>4, <2>5
<1>12. ASSUME NEW t \in Threads, Return(t) PROVE InOrder'
  <2>1. CASE ~item[t].mapped
    <3>1. UNCHANGED <<pc, item, frames, coded, output, Ages>>
      BY <1>12, <2>1 DEF Return, bounds, Ages
    <3> QED
      BY <1>3, <3>1
  <2>2. CASE item[t].mapped
    <3>1. /\ UNCHANGED <<frames, coded, output, calls>> /\ m_count' = m_count + 1
          /\ returned' = item[t].frame /\ pc' = [pc EXCEPT ![t] = "idle"]
          /\ item' = [item EXCEPT ![t] = NullItem]
          /\ pc[t] = "got" /\ item[t].bytes # 0
      BY <1>12, <2>2 DEF Return, Refused, bounds
    <3>2. /\ \A i \in 1 .. Len(frames) : frames[i] \in NewFrames
          /\ \A i \in 1 .. Len(coded) : coded[i] \in NewPackets
          /\ \A i \in 1 .. Len(output) : output[i] \in NewPackets
          /\ \A u \in Threads : pc[u] = "got" =>
               item[u].bytes = 0 \/ item[u] \in NewPackets
      BY <1>9, <3>1
    <3>3. returned' <= calls'
      BY <3>1 DEF InOrder, Fresh
    <3> HIDE DEF NewFrames, NewPackets
    <3>4. \A u \in Threads : pc'[u] = "got" => pc[u] = "got" /\ item'[u] = item[u]
      BY <3>1, OrderTypes
    <3> QED
      BY <1>8, <3>1, <3>2, <3>3, <3>4
  <2> QED
    BY <2>1, <2>2
<1>13. CASE DequeueOutput
  <2>1. /\ UNCHANGED <<frames, pc, item, Ages>> /\ coded # << >>
        /\ output' = Append(output, Head(coded)) /\ coded' = Tail(coded)
    BY <1>13 DEF DequeueOutput, bounds, Ages, Base, QueuesPlaced
  <2>2. /\ \A i \in 1 .. Len(frames) : frames[i] \in NewFrames
        /\ \A i \in 1 .. Len(coded) : coded[i] \in NewPackets
        /\ \A i \in 1 .. Len(output) : output[i] \in NewPackets
        /\ \A u \in Threads : pc[u] = "got" =>
             item[u].bytes = 0 \/ item[u] \in NewPackets
    BY <1>9, <2>1
  <2>3. returned' <= calls'
    BY <2>1 DEF InOrder, Ages
  <2> HIDE DEF NewFrames, NewPackets
  <2>4. Head(coded) \in NewPackets /\ \A i \in 1 .. Len(coded') : coded'[i] \in NewPackets
    BY <2>1, <2>2, TailAll, OrderTypes
  <2>5. Head(coded) \in Packets
    BY <2>1, Taken, OrderTypes
  <2>6. \A i \in 1 .. Len(output') : output'[i] \in NewPackets
    BY <2>1, <2>2, <2>4, <2>5, AppendAll, OrderTypes
  <2> QED
    BY <1>8, <2>1, <2>2, <2>3, <2>4, <2>6
<1>14. CASE CodecMakes
  <2>1. /\ UNCHANGED <<output, pc, item, Ages>> /\ frames # << >>
        /\ frames' = Tail(frames)
    BY <1>14 DEF CodecMakes, bounds, Ages
  <2>2. PICK bytes \in {0, 1} : coded' = Append(coded, Packet(Head(frames), bytes))
    BY <1>14 DEF CodecMakes
  <2>3. /\ \A i \in 1 .. Len(frames) : frames[i] \in NewFrames
        /\ \A i \in 1 .. Len(coded) : coded[i] \in NewPackets
        /\ \A i \in 1 .. Len(output) : output[i] \in NewPackets
        /\ \A u \in Threads : pc[u] = "got" =>
             item[u].bytes = 0 \/ item[u] \in NewPackets
    BY <1>9, <2>1
  <2>4. returned' <= calls'
    BY <2>1 DEF InOrder, Ages
  <2>5. Head(frames) \in NewFrames /\ \A i \in 1 .. Len(frames') : frames'[i] \in NewFrames
    <3> HIDE DEF NewFrames
    <3> QED
      BY <2>1, <2>3, TailAll, OrderTypes
  <2>6. /\ Packet(Head(frames), bytes) \in Packets
        /\ Packet(Head(frames), bytes).frame = Head(frames).frame
        /\ Packet(Head(frames), bytes).stamp = Head(frames).stamp
    BY <2>5, PacketType DEF Packet
  <2>7. Packet(Head(frames), bytes) \in NewPackets
    BY <2>5, <2>6
  <2> HIDE DEF NewFrames, NewPackets
  <2>8. \A i \in 1 .. Len(coded') : coded'[i] \in NewPackets
    BY <2>2, <2>3, <2>6, <2>7, AppendAll, OrderTypes
  <2> QED
    BY <1>8, <2>1, <2>3, <2>4, <2>5, <2>8
<1>15. CASE PollIn \/ PollEnds \/ DequeueInput \/ CodecTakes \/ UNCHANGED vars
  <2>1. UNCHANGED <<pc, item, frames, coded, output, Ages>>
    BY <1>15 DEF PollIn, PollEnds, DequeueInput, CodecTakes, vars, codec, bounds, Ages
  <2> QED
    BY <1>3, <2>1
<1> QED
  BY <1>1, <1>2, <1>4, <1>5, <1>6, <1>7, <1>10, <1>11, <1>12, <1>13, <1>14, <1>15
     DEF Next, PyCall, InCall, Finish, PollThread

-----------------------------------------------------------------------------
(* The inductive invariant.                                                 *)

EInv ==
    /\ Base
    /\ Finite
    /\ InputsConserved /\ InputsMatch
    /\ CapturesConserved
    /\ WaitersMatch
    /\ InOrder

LEMMA InitInv == Init => EInv
<1> SUFFICES ASSUME Init PROVE EInv
  OBVIOUS
<1>1. TypeOK
  <2>1. item \in [Threads -> Packets] /\ pc \in [Threads -> Places]
    BY NullItemType DEF Init, Places
  <2>2. /\ frames \in Seq(Frames)
        /\ coded \in Seq(Packets) /\ output \in Seq(Packets)
    BY Emptied DEF Init
  <2> QED
    BY <2>1, <2>2, TypeOKTypes DEF Init, Types
<1>2. ThreadsPlaced
  BY DEF Init, ThreadsPlaced
<1>3. QueuesPlaced /\ InOrder
  BY Emptied DEF Init, QueuesPlaced, InOrder
<1>4. Holders = {} /\ Waiters = {}
  BY DEF Init, Holders, Waiters, InGetOutput
<1>5. Finite
  BY <1>4, FS_EmptySet DEF Finite
<1>6. InputsConserved /\ InputsMatch /\ CapturesConserved /\ WaitersMatch
  BY DEF Init, InputsConserved, InputsMatch, CapturesConserved, WaitersMatch
<1> QED
  BY <1>1, <1>2, <1>3, <1>5, <1>6 DEF EInv, Base

\* The invariant holds of every behaviour of the encoder.
THEOREM Invariance == Spec => []EInv
<1>1. EInv /\ [Next]_vars => EInv'
  <2> SUFFICES ASSUME EInv, [Next]_vars PROVE EInv'
    OBVIOUS
  <2>1. TypeOK' /\ ThreadsPlaced' /\ QueuesPlaced'
    BY TypeStep, ThreadsStep, QueuesStep DEF EInv
  <2>2. InputsConserved' /\ InputsMatch'
    BY InputsStep DEF EInv
  <2>3. IsFiniteSet(Holders') /\ CapturesConserved'
    BY CapturesStep DEF EInv, Finite
  <2>4. IsFiniteSet(Waiters') /\ WaitersMatch'
    BY WaitersStep DEF EInv, Finite
  <2>5. InOrder'
    BY OrderStep DEF EInv
  <2> QED
    BY <2>1, <2>2, <2>3, <2>4, <2>5 DEF EInv, Base, Finite
<1> QED
  BY InitInv, <1>1, PTL DEF Spec

\* Every variable keeps its type, whatever is called when.
THEOREM TypeCorrect == Spec => []TypeOK
<1>1. EInv => TypeOK
  BY DEF EInv, Base
<1> QED
  BY <1>1, Invariance, PTL

\* No buffer is lost or made: encode() and the poll thread only move them.
THEOREM BufferSafety == Spec => []BuffersConserved
<1>1. EInv => BuffersConserved
  BY DEF EInv, InputsConserved, CapturesConserved, BuffersConserved
<1> QED
  BY <1>1, Invariance, PTL

\* A frame or a packet is under way for every call inside GetOutput, and input
\* buffers run out only when as many calls are under way as there are buffers.
THEOREM WaiterSafety == Spec => []WaitersServed
<1>1. ASSUME EInv PROVE WaitersServed
  <2>1. SUFFICES ASSUME encoder, ~abort, fault = "none"
        PROVE  /\ Cardinality(Waiters) = Len(frames) + Len(coded) + Len(output)
               /\ available >= InputBuffers - Cardinality(Waiters)
    BY DEF WaitersServed, Waiters
  <2>2. Cardinality(Waiters) = Len(frames) + Len(coded) + Len(output)
    BY <1>1, <2>1 DEF EInv, WaitersMatch
  <2>3. available + inputs + doneInputs = InputBuffers
    BY <1>1, <2>1 DEF EInv, InputsConserved
  <2>4. inputs + doneInputs <= Len(frames) + Len(coded)
    <3>1. inputs + doneInputs + (IF poll = "output" THEN 1 ELSE 0) = Len(frames) + Len(coded)
      BY <1>1, <2>1 DEF EInv, InputsMatch
    <3> QED
      BY <1>1, <3>1, Counts DEF EInv
  <2> QED
    BY <1>1, <2>2, <2>3, <2>4, Counts, EncoderAssumption DEF EInv, EncoderAssumption
<1> QED
  BY <1>1, Invariance, PTL

\* encode() returns packets in the order of their frames, each at most once,
\* also when several threads call it.
THEOREM OrderSafety == Spec => PacketsInOrder
<1>1. ASSUME EInv, [Next]_vars, returned' # returned PROVE returned' > returned
  <2>1. PICK t \in Threads : Return(t)
    BY <1>1 DEF Next, PyCall, InCall, Finish, PollThread, Create, SetResolution,
                Dealloc, Encode, EncodeFails, GetOutput, WaitOutput, GetAborted,
                Resized, Deallocated, Joined, DestroyedInUse, Raise, Abort, PollIn,
                DequeueInput, DequeueOutput, PollEnds, CodecTakes, CodecMakes, vars
  <2>2. /\ pc[t] = "got" /\ item[t].bytes # 0 /\ item[t].stamp = m_count
        /\ returned' = item[t].frame
    BY <1>1, <2>1 DEF Return, Refused
  <2>3. Fresh(item[t])
    BY <1>1, <2>2 DEF EInv, InOrder
  <2> QED
    BY <2>2, <2>3 DEF Fresh
<1>2. EInv /\ [Next]_vars => [returned' > returned]_returned
  BY <1>1
<1> QED
  BY <1>2, Invariance, PTL DEF Spec, PacketsInOrder
=============================================================================
