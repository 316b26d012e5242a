------------------------------ MODULE Encoder ------------------------------
(* The H.264 encoder of kencoder: Python threads call encode() and change    *)
(* the resolution under the GIL, which encode() gives up only while it waits *)
(* for its packet; the poll thread of H264Encoder moves buffers back from    *)
(* the codec, which is the kernel's. A buffer has no name: input buffers are *)
(* counted, and so are the capture buffers the codec has yet to fill.        *)
EXTENDS Naturals, Sequences, FiniteSets

CONSTANTS
    Threads,        \* the Python threads
    InputBuffers,   \* NUM_OUTPUT_BUFFERS
    CaptureBuffers, \* NUM_CAPTURE_BUFFERS
    MaxCalls,       \* bound: calls of encode()
    MaxResizes,     \* bound: changes of the resolution
    None            \* no thread, no item

ASSUME EncoderAssumption ==
    /\ InputBuffers \in Nat \ {0}
    /\ CaptureBuffers \in Nat \ {0}
    /\ MaxCalls \in Nat
    /\ MaxResizes \in Nat
    /\ None \notin Threads

VARIABLES
    object,     \* the Python Encoder object exists
    m_count,    \* its m_count, the time stamp of the next frame
    encoder,    \* the H264Encoder exists (g_encoder of run.cpp)
    abort,      \* abort_
    poll,       \* place of the poll thread
    available,  \* length of input_buffers_available_
    inputs,     \* input buffers the codec is not done with
    doneInputs, \* input buffers the codec is done with, not dequeued
    frames,     \* frames queued to the codec: [frame, stamp]
    empty,      \* capture buffers the codec can fill
    coded,      \* capture buffers filled, not dequeued: packets
    output,     \* output_queue_
    gil, pc,    \* holder of the GIL, place of every Python thread
    item,       \* the packet a call has got from GetOutput
    calls, resizes,
    returned,   \* the frame whose packet was returned last
    lost,       \* capture buffers that failed calls have kept
    fault       \* undefined behaviour, or an exception nobody catches

codec == <<inputs, doneInputs, frames, empty, coded>>
bounds == <<calls, resizes>>
vars == <<object, m_count, encoder, abort, poll, available, codec, output, gil,
          pc, item, bounds, returned, lost, fault>>

\* A packet has bytes 0 if the codec failed; mapped tells whether its memory
\* is still that of a capture buffer.
Packet(f, bytes) == [frame |-> f.frame, stamp |-> f.stamp, bytes |-> bytes,
                     mapped |-> TRUE]

NullItem == [frame |-> 0, stamp |-> 0, bytes |-> 0, mapped |-> FALSE]

Init ==
    /\ object = FALSE /\ m_count = 0
    /\ encoder = FALSE /\ abort = FALSE /\ poll = "off"
    /\ available = 0
    /\ inputs = 0 /\ doneInputs = 0
    /\ frames = << >> /\ empty = 0 /\ coded = << >>
    /\ output = << >>
    /\ gil = None
    /\ pc = [t \in Threads |-> "idle"]
    /\ item = [t \in Threads |-> NullItem]
    /\ calls = 0 /\ resizes = 0
    /\ returned = 0 /\ lost = 0
    /\ fault = "none"

-----------------------------------------------------------------------------
(* keInit and keExit.                                                       *)

\* The constructor: every buffer is where it starts, or (it has thrown) there
\* is no encoder.
Construct(ok) ==
    /\ encoder' = ok
    /\ abort' = FALSE
    /\ poll' = IF ok THEN "poll" ELSE "off"
    /\ available' = IF ok THEN InputBuffers ELSE 0
    /\ inputs' = 0 /\ doneInputs' = 0
    /\ frames' = << >> /\ coded' = << >> /\ output' = << >>
    /\ empty' = IF ok THEN CaptureBuffers ELSE 0
    /\ lost' = 0

Idle(t) == pc[t] = "idle" /\ gil = None /\ fault = "none"
InGetOutput(t) == pc[t] \in {"enter", "waiting"}

\* Encoder(): a second object is refused; one whose encoder cannot be opened
\* is freed again.
Create(t) ==
    /\ Idle(t)
    /\ ~object
    /\ \E ok \in BOOLEAN : Construct(ok) /\ object' = ok
    /\ m_count' = 0
    /\ UNCHANGED <<gil, pc, item, bounds, returned, fault>>

\* keExit in thread t, up to the join of the poll thread.
Abort(t, place) ==
    /\ abort' = encoder
    /\ gil' = t
    /\ pc' = [pc EXCEPT ![t] = place]
    /\ UNCHANGED <<object, m_count, encoder, poll, available, codec, output,
                   item, calls, returned, lost, fault>>

\* The resolution is set to another one.
SetResolution(t) ==
    /\ Idle(t)
    /\ object
    /\ resizes < MaxResizes
    /\ resizes' = resizes + 1
    /\ Abort(t, "resize")

\* The object's last reference goes: no call is under way.
Dealloc(t) ==
    /\ Idle(t)
    /\ object
    /\ \A u \in Threads : pc[u] = "idle"
    /\ Abort(t, "dealloc")
    /\ UNCHANGED resizes

\* The poll thread is joined and the encoder destroyed, with any call that is
\* still inside GetOutput; packets that calls hold lose their memory.
Joined(t) ==
    /\ gil = t
    /\ fault = "none"
    /\ encoder => poll = "ended"
    /\ ~\E u \in Threads : InGetOutput(u)
    /\ gil' = None
    /\ pc' = [pc EXCEPT ![t] = "idle"]
    /\ item' = [u \in Threads |-> [item[u] EXCEPT !.mapped = FALSE]]
    /\ UNCHANGED <<m_count, bounds, returned, fault>>

Resized(t) ==
    /\ pc[t] = "resize"
    /\ Joined(t)
    /\ \E ok \in BOOLEAN : Construct(ok)
    /\ UNCHANGED object

Deallocated(t) ==
    /\ pc[t] = "dealloc"
    /\ Joined(t)
    /\ Construct(FALSE)
    /\ object' = FALSE

DestroyedInUse(t) ==
    /\ gil = t
    /\ fault = "none"
    /\ poll = "ended"
    /\ \E u \in Threads : InGetOutput(u)
    /\ fault' = "destroyed in use"
    /\ UNCHANGED <<object, m_count, encoder, abort, poll, available, codec,
                   output, gil, pc, item, bounds, returned, lost>>

-----------------------------------------------------------------------------
(* encode().                                                                *)

\* EncodeBuffer, and the GIL is released. An exception passes through the C
\* code of the module, which ends the program.
Encode(t) ==
    /\ Idle(t)
    /\ object
    /\ encoder /\ available > 0
    /\ calls < MaxCalls
    /\ calls' = calls + 1
    /\ available' = available - 1
    /\ inputs' = inputs + 1
    /\ frames' = Append(frames, [frame |-> calls + 1, stamp |-> m_count])
    /\ pc' = [pc EXCEPT ![t] = "enter"]
    /\ UNCHANGED <<object, m_count, encoder, abort, poll, doneInputs, empty,
                   coded, output, gil, item, resizes, returned, lost, fault>>

EncodeFails(t) ==
    /\ Idle(t)
    /\ object
    /\ calls < MaxCalls
    /\ ~encoder \/ available = 0
    /\ fault' = IF encoder THEN "no input buffer" ELSE "no encoder"
    /\ UNCHANGED <<object, m_count, encoder, abort, poll, available, codec,
                   output, gil, pc, item, bounds, returned, lost>>

\* GetOutput looks at the queue, waits for at most 200 ms, looks at abort_ and
\* then at the queue again.
GetOutput(t) ==
    /\ InGetOutput(t)
    /\ fault = "none"
    /\ output # << >>
    /\ pc[t] = "waiting" => ~abort
    /\ item' = [item EXCEPT ![t] = Head(output)]
    /\ output' = Tail(output)
    /\ pc' = [pc EXCEPT ![t] = "got"]
    /\ UNCHANGED <<object, m_count, encoder, abort, poll, available, codec, gil,
                   bounds, returned, lost, fault>>

WaitOutput(t) ==
    /\ pc[t] = "enter"
    /\ fault = "none"
    /\ output = << >>
    /\ pc' = [pc EXCEPT ![t] = "waiting"]
    /\ UNCHANGED <<object, m_count, encoder, abort, poll, available, codec,
                   output, gil, item, bounds, returned, lost, fault>>

GetAborted(t) ==
    /\ pc[t] = "waiting"
    /\ fault = "none"
    /\ abort
    /\ item' = [item EXCEPT ![t] = NullItem]
    /\ pc' = [pc EXCEPT ![t] = "got"]
    /\ UNCHANGED <<object, m_count, encoder, abort, poll, available, codec,
                   output, gil, bounds, returned, lost, fault>>

\* Variant: a stale packet is not refused.
RefusedEmptyOnly(p) == p.bytes = 0

\* With the GIL again: "encoder returned null packet" and "stale frame" are
\* raised without OutputDone.
Refused(p) == p.bytes = 0 \/ p.stamp # m_count

\* Variant: a refused packet makes the call wait for another one.
RaiseRetries(t) ==
    /\ pc[t] = "got" /\ gil = None /\ fault = "none"
    /\ Refused(item[t])
    /\ lost' = lost + (IF item[t].mapped THEN 1 ELSE 0)
    /\ pc' = [pc EXCEPT ![t] = "enter"]
    /\ item' = [item EXCEPT ![t] = NullItem]
    /\ UNCHANGED <<object, m_count, encoder, abort, poll, available, codec,
                   output, gil, bounds, returned, fault>>

Raise(t) ==
    /\ pc[t] = "got" /\ gil = None /\ fault = "none"
    /\ Refused(item[t])
    /\ lost' = lost + (IF item[t].mapped THEN 1 ELSE 0)
    /\ pc' = [pc EXCEPT ![t] = "idle"]
    /\ item' = [item EXCEPT ![t] = NullItem]
    /\ UNCHANGED <<object, m_count, encoder, abort, poll, available, codec,
                   output, gil, bounds, returned, fault>>

\* Variant: OutputDone is forgotten.
ReturnKeepsBuffer(t) ==
    /\ pc[t] = "got" /\ gil = None /\ fault = "none"
    /\ ~Refused(item[t])
    /\ m_count' = m_count + 1
    /\ returned' = item[t].frame
    /\ pc' = [pc EXCEPT ![t] = "idle"]
    /\ item' = [item EXCEPT ![t] = NullItem]
    /\ UNCHANGED <<object, encoder, abort, poll, available, codec, output, gil,
                   bounds, lost, fault>>

\* The packet is copied out and its buffer goes back to the codec (OutputDone).
Return(t) ==
    /\ pc[t] = "got" /\ gil = None /\ fault = "none"
    /\ ~Refused(item[t])
    /\ IF item[t].mapped
         THEN /\ m_count' = m_count + 1
              /\ returned' = item[t].frame
              /\ empty' = empty + 1
              /\ pc' = [pc EXCEPT ![t] = "idle"]
              /\ item' = [item EXCEPT ![t] = NullItem]
              /\ UNCHANGED fault
         ELSE /\ fault' = "packet unmapped"
              /\ UNCHANGED <<m_count, returned, empty, pc, item>>
    /\ UNCHANGED <<object, encoder, abort, poll, available, inputs, doneInputs,
                   frames, coded, output, gil, bounds, lost>>

-----------------------------------------------------------------------------
(* The poll thread. POLLIN is raised when a packet is there; the dequeue of   *)
(* an input buffer that comes first blocks until one is done.                *)

PollIn ==
    /\ poll = "poll" /\ fault = "none"
    /\ coded # << >>
    /\ poll' = "input"
    /\ UNCHANGED <<object, m_count, encoder, abort, available, codec, output,
                   gil, pc, item, bounds, returned, lost, fault>>

DequeueInput ==
    /\ poll = "input" /\ fault = "none"
    /\ doneInputs > 0
    /\ doneInputs' = doneInputs - 1
    /\ available' = available + 1
    /\ poll' = "output"
    /\ UNCHANGED <<object, m_count, encoder, abort, inputs, frames, empty, coded,
                   output, gil, pc, item, bounds, returned, lost, fault>>

\* Variant: an empty packet is not put into output_queue_.
DequeueOutputSkips ==
    /\ poll = "output" /\ fault = "none"
    /\ output' = IF Head(coded).bytes = 0 THEN output
                                         ELSE Append(output, Head(coded))
    /\ coded' = Tail(coded)
    /\ poll' = "poll"
    /\ UNCHANGED <<object, m_count, encoder, abort, available, inputs,
                   doneInputs, frames, empty, gil, pc, item, bounds, returned,
                   lost, fault>>

DequeueOutput ==
    /\ poll = "output" /\ fault = "none"
    /\ output' = Append(output, Head(coded))
    /\ coded' = Tail(coded)
    /\ poll' = "poll"
    /\ UNCHANGED <<object, m_count, encoder, abort, available, inputs,
                   doneInputs, frames, empty, gil, pc, item, bounds, returned,
                   lost, fault>>

PollEnds ==
    /\ poll = "poll" /\ fault = "none"
    /\ abort
    /\ poll' = "ended"
    /\ UNCHANGED <<object, m_count, encoder, abort, available, codec, output,
                   gil, pc, item, bounds, returned, lost, fault>>

-----------------------------------------------------------------------------
(* The codec makes one packet of every frame, in order, and is done with the  *)
(* frame's buffer before or after that.                                      *)

CodecTakes ==
    /\ encoder /\ fault = "none"
    /\ inputs > 0
    /\ inputs' = inputs - 1
    /\ doneInputs' = doneInputs + 1
    /\ UNCHANGED <<object, m_count, encoder, abort, poll, available, frames,
                   empty, coded, output, gil, pc, item, bounds, returned, lost,
                   fault>>

CodecMakes ==
    /\ encoder /\ fault = "none"
    /\ frames # << >> /\ empty > 0
    /\ \E bytes \in {0, 1} : coded' = Append(coded, Packet(Head(frames), bytes))
    /\ frames' = Tail(frames)
    /\ empty' = empty - 1
    /\ UNCHANGED <<object, m_count, encoder, abort, poll, available, inputs,
                   doneInputs, output, gil, pc, item, bounds, returned, lost,
                   fault>>

-----------------------------------------------------------------------------
PyCall(t) ==
    Create(t) \/ SetResolution(t) \/ Dealloc(t) \/ Encode(t) \/ EncodeFails(t)

InCall(t) ==
    \/ GetOutput(t) \/ WaitOutput(t) \/ GetAborted(t)
    \/ Resized(t) \/ Deallocated(t) \/ DestroyedInUse(t)

Finish(t) == Raise(t) \/ Return(t)

PollThread == PollIn \/ DequeueInput \/ DequeueOutput \/ PollEnds

Next ==
    \/ \E t \in Threads : PyCall(t) \/ InCall(t) \/ Finish(t)
    \/ PollThread
    \/ CodecTakes
    \/ CodecMakes

Spec == Init /\ [][Next]_vars

\* Calls are not forced. A thread that keeps asking for the GIL gets it.
Fairness ==
    /\ \A t \in Threads : WF_vars(InCall(t)) /\ SF_vars(Finish(t))
    /\ WF_vars(PollThread)
    /\ WF_vars(CodecTakes)
    /\ WF_vars(CodecMakes)

LiveSpec == Spec /\ Fairness

-----------------------------------------------------------------------------
(* Properties.                                                              *)

Packets == [frame : Nat, stamp : Nat, bytes : {0, 1}, mapped : BOOLEAN]

TypeOK ==
    /\ object \in BOOLEAN /\ m_count \in Nat
    /\ encoder \in BOOLEAN /\ abort \in BOOLEAN
    /\ poll \in {"off", "poll", "input", "output", "ended"}
    /\ available \in Nat
    /\ inputs \in Nat /\ doneInputs \in Nat
    /\ frames \in Seq([frame : Nat, stamp : Nat])
    /\ empty \in Nat
    /\ coded \in Seq(Packets) /\ output \in Seq(Packets)
    /\ gil \in Threads \cup {None}
    /\ pc \in [Threads -> {"idle", "enter", "waiting", "got", "resize", "dealloc"}]
    /\ item \in [Threads -> Packets]
    /\ calls \in Nat /\ resizes \in Nat
    /\ returned \in Nat /\ lost \in Nat
    /\ fault \in {"none", "destroyed in use", "no input buffer", "no encoder",
                  "packet unmapped"}

Holders == {t \in Threads : pc[t] = "got" /\ item[t].mapped}

\* A capture buffer is with the codec, in a queue or with a call, or it was kept
\* by a call that failed; and every input buffer is somewhere, too.
BuffersConserved ==
    encoder =>
      /\ empty + Len(coded) + Len(output) + Cardinality(Holders) + lost
           = CaptureBuffers
      /\ available + inputs + doneInputs = InputBuffers

\* Every call that waits for a packet has a frame or a packet coming, so none
\* waits for what was given to another one; and the input buffers do not run out
\* with fewer calls under way than there are buffers.
WaitersServed ==
    encoder /\ ~abort /\ fault = "none" =>
      LET waiters == Cardinality({t \in Threads : InGetOutput(t)})
      IN /\ waiters = Len(frames) + Len(coded) + Len(output)
         /\ available >= InputBuffers - waiters

\* Packets are returned in the order in which their frames came in, and none is
\* returned twice, however many threads encode: the stamps see to that.
PacketsInOrder == [][returned' > returned]_returned

\* A call of encode() ends, unless all capture buffers were lost to failed calls.
EncodeReturns ==
    \A t \in Threads :
      InGetOutput(t) ~> \/ ~InGetOutput(t)
                        \/ lost = CaptureBuffers
                        \/ fault # "none"
=============================================================================
