-------------------------- MODULE RPiPipelineProofs -------------------------
(* The Raspberry Pi pipeline handler for any set of requests, any number of   *)
(* buffers and any number of dropped frames: its first request is there when  *)
(* it is used unchecked, it implements RequestPipe, the ISP's input has room  *)
(* for what it is sent, a completed request holds one frame, and every buffer *)
(* is in one place.                                                           *)
EXTENDS RPiPipeline, SequenceTheorems, FiniteSetTheorems, WellFoundedInduction,
        TLAPS

Frames == [buf : Buffers, frame : Nat]
StreamType == [available : Seq(Buffers), waiting : Seq(Buffers \cup {Null}),
               device : Seq(Buffers)]
RequestType == [status : {"app", "queued", "complete", "cancelled"},
                pending : SUBSET Requested, got : [Requested -> Nat],
                metadata : Nat]
DataType == [state : {"Stopped", "Idle", "Busy", "IpaComplete"},
             requestQueue : Seq(Requests), bayerQueue : Seq(Frames),
             embeddedQueue : Seq(Frames), dropFrameCount : Nat,
             ispOutputCount : Nat]

Prepares == [type : {"signalIspPrepare"}, bayer : Frames,
             embedded : Frames \cup {Null}]
IpaMessages == Prepares \cup [type : {"signalStatReady"}]
HandlerMessages == [type : {"embeddedComplete"}, embedded : Frames]
                   \cup [type : {"runIsp"}, bayer : Frames]
                   \cup [type : {"statsMetadataComplete"}, metadata : Nat]

\* The type invariant with its sets named, and with the messages.
Types ==
    /\ running \in BOOLEAN
    /\ queued \in 0 .. MaxQueued
    /\ request \in [Requests -> RequestType]
    /\ data \in DataType
    /\ stream \in [Queued -> StreamType]
    /\ jobs \in Seq(Frames)
    /\ finished \in SUBSET IspStreams
    /\ done \in [Streams -> Seq(Frames)]
    /\ ready \in SUBSET Streams
    /\ posted \in Seq(Requests)
    /\ ipaFrame \in Nat
    /\ frame \in Nat
    /\ messages \in Seq(HandlerMessages)
    /\ toIpa \in Seq(IpaMessages)

\* A stream the poll found ready has a buffer to dequeue until it is served.
ReadyDone == \A s \in ready : done[s] # << >>

LEMMA TypesOK == Types => TypeOK
BY DEF Types, TypeOK, RequestType, DataType, StreamType, Frames

-----------------------------------------------------------------------------
(* Sequences.                                                               *)

LEMMA Appended ==
    ASSUME NEW S, NEW s \in Seq(S), NEW e \in S
    PROVE  /\ Append(s, e) \in Seq(S)
           /\ Len(Append(s, e)) = Len(s) + 1
           /\ Append(s, e) # << >>
           /\ \A i \in 1 .. Len(s) : Append(s, e)[i] = s[i]
           /\ Append(s, e)[Len(s) + 1] = e
OBVIOUS

LEMMA Taken ==
    ASSUME NEW S, NEW s \in Seq(S), s # << >>
    PROVE  /\ Head(s) \in S /\ Head(s) = s[1] /\ Len(s) \in Nat /\ Len(s) > 0
           /\ Tail(s) \in Seq(S)
           /\ Len(Tail(s)) = Len(s) - 1
           /\ \A i \in 1 .. Len(s) - 1 : Tail(s)[i] = s[i + 1]
OBVIOUS

LEMMA Replaced ==
    ASSUME NEW S, NEW s \in Seq(S), Len(s) = 1, NEW e \in S,
           NEW t, t = [s EXCEPT ![1] = e]
    PROVE  t \in Seq(S) /\ Len(t) = 1 /\ t[1] = e
<1>1. 1 \in 1 .. Len(s)
  OBVIOUS
<1> QED
  BY <1>1, ExceptSeq

LEMMA Emptied ==
    ASSUME NEW S
    PROVE  /\ << >> \in Seq(S)
           /\ \A s \in Seq(S) : Len(s) \in Nat /\ (Len(s) = 0 <=> s = << >>)
OBVIOUS

\* Moving the head of a queue to the end of the one before it changes nothing
\* of the two together, and what is at the front of the first is at the front.
LEMMA Moved ==
    ASSUME NEW S, NEW s \in Seq(S), NEW t \in Seq(S), t # << >>
    PROVE  Append(s, Head(t)) \o Tail(t) = s \o t
<1>1. /\ Append(s, Head(t)) \in Seq(S) /\ Tail(t) \in Seq(S)
      /\ Len(Append(s, Head(t))) = Len(s) + 1 /\ Len(Tail(t)) = Len(t) - 1
      /\ Len(s) \in Nat /\ Len(t) \in Nat
  BY Taken, Appended, Emptied
<1> DEFINE u == Append(s, Head(t)) \o Tail(t)
           v == s \o t
<1>2. /\ u \in Seq(S) /\ Len(u) = Len(s) + Len(t)
      /\ \A i \in 1 .. Len(s) + Len(t) :
           u[i] = IF i <= Len(s) + 1 THEN Append(s, Head(t))[i]
                                     ELSE Tail(t)[i - (Len(s) + 1)]
  BY <1>1, ConcatProperties
<1>3. /\ v \in Seq(S) /\ Len(v) = Len(s) + Len(t)
      /\ \A i \in 1 .. Len(s) + Len(t) :
           v[i] = IF i <= Len(s) THEN s[i] ELSE t[i - Len(s)]
  BY <1>1, ConcatProperties
<1>4. ASSUME NEW i \in 1 .. Len(s) + Len(t) PROVE u[i] = v[i]
  <2>1. CASE i <= Len(s)
    BY <1>1, <1>2, <1>3, <2>1, Taken, Appended
  <2>2. CASE i = Len(s) + 1
    BY <1>1, <1>2, <1>3, <2>2, Taken, Appended
  <2>3. CASE i > Len(s) + 1
    <3>1. i - (Len(s) + 1) \in 1 .. Len(t) - 1
      BY <1>1, <2>3
    <3>2. Tail(t)[i - (Len(s) + 1)] = t[i - Len(s)]
      BY <1>1, <3>1, Taken
    <3> QED
      BY <1>1, <1>2, <1>3, <2>3, <3>2
  <2> QED
    BY <1>1, <2>1, <2>2, <2>3
<1> HIDE DEF u, v
<1>5. u = v
  BY <1>1, <1>2, <1>3, <1>4, SeqEqual
<1> QED
  BY <1>5 DEF u, v

\* An element added to the second of two queues comes last in both together.
LEMMA Postponed ==
    ASSUME NEW S, NEW s \in Seq(S), NEW t \in Seq(S), NEW e \in S
    PROVE  s \o Append(t, e) = Append(s \o t, e)
<1>1. /\ <<e>> \in Seq(S) /\ s \o t \in Seq(S)
      /\ Append(t, e) = t \o <<e>>
      /\ Append(s \o t, e) = (s \o t) \o <<e>>
  <2>1. s \o t \in Seq(S) /\ <<e>> \in Seq(S)
    BY ConcatProperties
  <2> QED
    BY <2>1, AppendIsConcat
<1> QED
  BY <1>1, ConcatAssociative

LEMMA Fronts ==
    ASSUME NEW S, NEW s \in Seq(S), s # << >>, NEW t \in Seq(S)
    PROVE  /\ s \o t # << >> /\ Head(s \o t) = Head(s)
           /\ Tail(s \o t) = Tail(s) \o t
<1>1. /\ Tail(s) \in Seq(S) /\ Len(Tail(s)) = Len(s) - 1
      /\ Len(s) \in Nat /\ Len(s) > 0 /\ Len(t) \in Nat
  BY Taken, Emptied
<1> DEFINE c == s \o t
           v == Tail(s) \o t
<1>2. /\ c \in Seq(S) /\ Len(c) = Len(s) + Len(t) /\ c # << >>
      /\ \A i \in 1 .. Len(s) + Len(t) :
           c[i] = IF i <= Len(s) THEN s[i] ELSE t[i - Len(s)]
  <2>1. /\ c \in Seq(S) /\ Len(c) = Len(s) + Len(t)
        /\ \A i \in 1 .. Len(s) + Len(t) :
             c[i] = IF i <= Len(s) THEN s[i] ELSE t[i - Len(s)]
    BY ConcatProperties
  <2>2. Len(c) # 0
    BY <1>1, <2>1
  <2> HIDE DEF c
  <2> QED
    BY <2>1, <2>2, Emptied
<1>3. /\ v \in Seq(S) /\ Len(v) = Len(s) - 1 + Len(t)
      /\ \A i \in 1 .. Len(s) - 1 + Len(t) :
           v[i] = IF i <= Len(s) - 1 THEN Tail(s)[i] ELSE t[i - (Len(s) - 1)]
  BY <1>1, ConcatProperties
<1> HIDE DEF c, v
<1>4. /\ Head(c) = c[1] /\ Tail(c) \in Seq(S) /\ Len(Tail(c)) = Len(s) + Len(t) - 1
      /\ \A i \in 1 .. Len(s) + Len(t) - 1 : Tail(c)[i] = c[i + 1]
  BY <1>2, Taken
<1>5. ASSUME NEW i \in 1 .. Len(s) + Len(t) - 1 PROVE Tail(c)[i] = v[i]
  <2>1. CASE i <= Len(s) - 1
    BY <1>1, <1>2, <1>3, <1>4, <2>1, Taken
  <2>2. CASE ~(i <= Len(s) - 1)
    <3>1. i + 1 \in 1 .. Len(s) + Len(t) /\ ~(i + 1 <= Len(s))
      BY <1>1, <2>2
    <3> QED
      BY <1>1, <1>2, <1>3, <1>4, <2>2, <3>1
  <2> QED
    BY <2>1, <2>2
<1>6. Tail(c) = v
  <2>1. Len(Tail(c)) = Len(v)
    BY <1>1, <1>3, <1>4
  <2> QED
    BY <1>1, <1>3, <1>4, <1>5, <2>1, SeqEqual
<1>7. Head(c) = Head(s)
  BY <1>1, <1>2, <1>4, Taken
<1> QED
  BY <1>2, <1>6, <1>7 DEF c, v
-----------------------------------------------------------------------------
(* RPi::Stream.                                                             *)

\* A set of natural numbers with a bound has a greatest element, by strict
\* inclusion of the intervals above its elements.
LEMMA GreatestUpTo ==
    ASSUME NEW hi \in Nat, NEW T, T \subseteq 0 .. hi, T # {}
    PROVE  \E x \in T : \A y \in T : y <= x
<1> DEFINE Above == {k .. hi : k \in T}
           R == StrictSubsetOrdering(0 .. hi)
<1>1. IsWellFoundedOn(R, SUBSET (0 .. hi))
  <2>1. IsFiniteSet(0 .. hi)
    BY FS_Interval
  <2> QED
    BY <2>1, FS_FiniteSubsetsOfFinite, FS_StrictSubsetOrderingWellFounded
<1>2. Above \subseteq SUBSET (0 .. hi) /\ Above # {}
  <2>1. \A k \in T : k .. hi \subseteq 0 .. hi
    OBVIOUS
  <2> QED
    BY <2>1
<1>3. PICK B \in Above : \A C \in Above : ~ (<<C, B>> \in R)
  <2> HIDE DEF R, Above
  <2> QED
    BY <1>1, <1>2, WFMin
<1>4. PICK x \in T : B = x .. hi
  OBVIOUS
<1>5. ASSUME NEW y \in T, y > x PROVE FALSE
  <2>1. x \in x .. hi /\ x \notin y .. hi
    BY <1>5
  <2>2. y .. hi \subseteq x .. hi /\ y .. hi # x .. hi
    BY <1>5, <2>1
  <2>3. <<y .. hi, x .. hi>> \in R
    BY <2>2, <1>2, <1>4 DEF StrictSubsetOrdering
  <2> QED
    BY <2>3, <1>3, <1>4
<1> QED
  BY <1>5

\* The waiting buffers up to n ask for at most n of the available ones, and no
\* fewer when n grows.
LEMMA NullsBounds ==
    ASSUME NEW w, NEW n \in Nat
    PROVE  /\ Nulls(w, n) \in Nat /\ Nulls(w, 0) = 0
           /\ \A i \in 1 .. n : Nulls(w, i) <= Nulls(w, n)
           /\ \A i \in 1 .. n : w[i] = Null => Nulls(w, i) >= 1
<1> DEFINE N(m) == {i \in 1 .. m : w[i] = Null}
<1>1. ASSUME NEW m \in Nat
      PROVE  IsFiniteSet(N(m)) /\ Nulls(w, m) = Cardinality(N(m))
                /\ Nulls(w, m) \in Nat
  <2>1. IsFiniteSet(1 .. m) /\ N(m) \subseteq 1 .. m
    BY FS_Interval
  <2>2. IsFiniteSet(N(m))
    BY <2>1, FS_Subset
  <2>3. Nulls(w, m) = Cardinality(N(m))
    BY DEF Nulls
  <2> HIDE DEF N
  <2> QED
    BY <2>2, <2>3, FS_CardinalityType
<1>2. Nulls(w, 0) = 0
  <2>1. N(0) = {}
    OBVIOUS
  <2> HIDE DEF N
  <2> QED
    BY <1>1, <2>1, FS_EmptySet
<1>3. ASSUME NEW i \in 1 .. n PROVE Nulls(w, i) <= Nulls(w, n)
  <2>1. N(i) \subseteq N(n) /\ i \in Nat
    OBVIOUS
  <2> HIDE DEF N
  <2> QED
    BY <1>1, <2>1, FS_Subset
<1>4. ASSUME NEW i \in 1 .. n, w[i] = Null PROVE Nulls(w, i) >= 1
  <2>1. i \in N(i) /\ i \in Nat
    BY <1>4
  <2> HIDE DEF N
  <2>2. Cardinality(N(i)) # 0
    BY <1>1, <2>1, FS_EmptySet
  <2> QED
    BY <1>1, <2>1, <2>2
<1>5. Nulls(w, n) \in Nat
  BY <1>1
<1> QED
  BY <1>2, <1>3, <1>4, <1>5

\* The list that is sent is the longest whose Nulls there are buffers for.
Chosen(w, have, n) ==
    [i \in 1 .. n |-> IF w[i] = Null THEN have[Nulls(w, i)] ELSE w[i]]
SentUpTo(st, have, n) ==
    LET w == st.waiting
    IN [available |-> SubSeq(have, Nulls(w, n) + 1, Len(have)),
        waiting |-> SubSeq(w, n + 1, Len(w)),
        device |-> st.device \o Chosen(w, have, n)]

LEMMA ReturnBufferSent ==
    ASSUME NEW st \in StreamType, NEW b \in Buffers
    PROVE  \E n \in 0 .. Len(st.waiting) :
             /\ Nulls(st.waiting, n) <= Len(Append(st.available, b))
             /\ ReturnBuffer(st, b) = SentUpTo(st, Append(st.available, b), n)
<1> DEFINE w == st.waiting
           have == Append(st.available, b)
           Sent(n) == /\ Nulls(w, n) <= Len(have)
                      /\ n = Len(w) \/ Nulls(w, n + 1) > Len(have)
           sent == CHOOSE n \in 0 .. Len(w) : Sent(n)
<1>1. w \in Seq(Buffers \cup {Null}) /\ Len(w) \in Nat
      /\ have \in Seq(Buffers) /\ Len(have) \in Nat
  BY Appended DEF StreamType
<1>2. ReturnBuffer(st, b) = SentUpTo(st, have, sent)
  BY DEF ReturnBuffer, SentUpTo, Chosen
<1>3. sent \in 0 .. Len(w) /\ Sent(sent)
  <2> DEFINE T == {n \in 0 .. Len(w) : Nulls(w, n) <= Len(have)}
  <2>1. T \subseteq 0 .. Len(w) /\ 0 \in T
    BY <1>1, NullsBounds
  <2>2. PICK x \in T : \A y \in T : y <= x
    BY <1>1, <2>1, GreatestUpTo
  <2>3. Sent(x)
    <3>1. CASE x = Len(w)
      BY <3>1
    <3>2. CASE x # Len(w)
      <4>1. x \in Nat /\ x + 1 \in 0 .. Len(w) /\ x + 1 \notin T
        BY <1>1, <2>2, <3>2
      <4>2. Nulls(w, x + 1) \in Nat
        BY <4>1, NullsBounds
      <4> QED
        BY <1>1, <4>1, <4>2
    <3> QED
      BY <3>1, <3>2
  <2>4. \E n \in 0 .. Len(w) : Sent(n)
    BY <2>3
  <2> HIDE DEF Sent
  <2> QED
    BY <2>4
<1> HIDE DEF sent
<1> QED
  BY <1>2, <1>3

LEMMA ReturnBufferType ==
    ASSUME NEW st \in StreamType, NEW b \in Buffers
    PROVE  ReturnBuffer(st, b) \in StreamType
<1> DEFINE w == st.waiting
           have == Append(st.available, b)
<1>1. /\ w \in Seq(Buffers \cup {Null}) /\ Len(w) \in Nat
      /\ \A i \in 1 .. Len(w) : w[i] \in Buffers \cup {Null}
      /\ have \in Seq(Buffers) /\ Len(have) \in Nat
      /\ \A i \in 1 .. Len(have) : have[i] \in Buffers
      /\ st.device \in Seq(Buffers)
  BY DEF StreamType
<1>2. PICK sent \in 0 .. Len(w) :
        Nulls(w, sent) <= Len(have) /\ ReturnBuffer(st, b) = SentUpTo(st, have, sent)
  BY ReturnBufferSent
<1> DEFINE new == Chosen(w, have, sent)
<1>3. ReturnBuffer(st, b) = [available |-> SubSeq(have, Nulls(w, sent) + 1, Len(have)),
                             waiting |-> SubSeq(w, sent + 1, Len(w)),
                             device |-> st.device \o new]
  BY <1>2 DEF SentUpTo
<1> HIDE DEF w, have
<1>4. /\ sent \in Nat /\ sent <= Len(w)
      /\ Nulls(w, sent) \in Nat /\ Nulls(w, sent) <= Len(have)
  BY <1>1, <1>2, NullsBounds
<1>5. SubSeq(have, Nulls(w, sent) + 1, Len(have)) \in Seq(Buffers)
  <2>1. \A i \in Nulls(w, sent) + 1 .. Len(have) : have[i] \in Buffers
    BY <1>1, <1>4
  <2> QED
    BY <1>1, <1>4, <2>1, SubSeqProperties
<1>6. SubSeq(w, sent + 1, Len(w)) \in Seq(Buffers \cup {Null})
  <2>1. \A i \in sent + 1 .. Len(w) : w[i] \in Buffers \cup {Null}
    BY <1>1, <1>4
  <2> QED
    BY <1>1, <1>4, <2>1, SubSeqProperties
<1>7. new \in Seq(Buffers)
  <2>1. ASSUME NEW i \in 1 .. sent
        PROVE  (IF w[i] = Null THEN have[Nulls(w, i)] ELSE w[i]) \in Buffers
    <3>1. i \in 1 .. Len(w) /\ i \in Nat
      BY <1>1, <1>4
    <3>2. CASE w[i] = Null
      <4>1. Nulls(w, i) \in Nat /\ Nulls(w, i) >= 1 /\ Nulls(w, i) <= Nulls(w, sent)
        BY <1>4, <3>1, <3>2, NullsBounds
      <4> QED
        BY <1>1, <1>4, <3>2, <4>1
    <3>3. CASE w[i] # Null
      BY <1>1, <3>1, <3>3
    <3> QED
      BY <3>2, <3>3
  <2> QED
    BY <1>4, <2>1 DEF Chosen
<1> HIDE DEF new
<1>8. st.device \o new \in Seq(Buffers)
  BY <1>1, <1>7, ConcatProperties
<1> QED
  BY <1>3, <1>5, <1>6, <1>8 DEF StreamType

LEMMA QueueBufferType ==
    ASSUME NEW st \in StreamType, NEW b \in Buffers \cup {Null}
    PROVE  QueueBuffer(st, b) \in StreamType
<1>1. CASE b = Null /\ st.available = << >>
  <2>1. QueueBuffer(st, b) = [st EXCEPT !.waiting = Append(@, Null)]
    BY <1>1 DEF QueueBuffer
  <2>2. Append(st.waiting, Null) \in Seq(Buffers \cup {Null})
    BY DEF StreamType
  <2> QED
    BY <2>1, <2>2 DEF StreamType
<1>2. CASE ~(b = Null /\ st.available = << >>)
  <2> DEFINE buf == IF b = Null THEN Head(st.available) ELSE b
             left == IF b = Null THEN Tail(st.available) ELSE st.available
  <2>1. buf \in Buffers /\ left \in Seq(Buffers)
    BY <1>2, Taken DEF StreamType
  <2>2. QueueBuffer(st, b) =
          IF st.waiting = << >>
            THEN [st EXCEPT !.available = left, !.device = Append(@, buf)]
            ELSE [st EXCEPT !.available = left, !.waiting = Append(@, buf)]
    BY <1>2 DEF QueueBuffer
  <2> HIDE DEF buf, left
  <2>3. /\ Append(st.device, buf) \in Seq(Buffers)
        /\ Append(st.waiting, buf) \in Seq(Buffers \cup {Null})
    BY <2>1 DEF StreamType
  <2> QED
    BY <2>1, <2>2, <2>3 DEF StreamType
<1> QED
  BY <1>1, <1>2

LEMMA StartedStreamType ==
    ASSUME NEW s \in Queued, NEW drop \in Nat
    PROVE  StartedStream(s, drop) \in StreamType
<1>1. \A n \in Nat : Copies(n) \in Seq(Buffers)
  BY DEF Copies, Buffers
<1> DEFINE now == IF drop < BufferCount THEN drop ELSE BufferCount
<1>2. /\ now \in Nat /\ BufferCount - now \in Nat /\ drop - now \in Nat
      /\ BufferCount \in Nat
  BY RPiAssumption DEF RPiAssumption
<1>3. [i \in 1 .. drop - now |-> Null] \in Seq(Buffers \cup {Null})
  BY <1>2
<1>4. StartedStream(s, drop) =
        IF s \in External
          THEN [available |-> Copies(BufferCount - now),
                waiting |-> [i \in 1 .. drop - now |-> Null],
                device |-> Copies(now)]
          ELSE [available |-> << >>, waiting |-> << >>,
                device |-> Copies(BufferCount)]
  BY DEF StartedStream
<1> HIDE DEF now
<1>5. /\ Copies(BufferCount - now) \in Seq(Buffers)
      /\ Copies(now) \in Seq(Buffers)
      /\ Copies(BufferCount) \in Seq(Buffers)
  BY <1>1, <1>2
<1> QED
  BY <1>3, <1>4, <1>5, Emptied DEF StreamType

LEMMA StoppedStreamType == StoppedStream \in StreamType
BY DEF StoppedStream, StreamType
-----------------------------------------------------------------------------
(* handleState.                                                             *)

\* What handleState leaves: the requests, and a frame more for the IPA when the
\* pipeline was started. A busy handler does nothing; any other completes the
\* first request or drops a frame, or neither, before it tries to run.
HandleType(d, rq, t) ==
    /\ data' \in DataType /\ request' \in [Requests -> RequestType]
    /\ data'.state = "Stopped" <=> d.state = "Stopped"
    /\ d.state \in {"Stopped", "Busy"} \/ data'.state = "IpaComplete" =>
         data'.requestQueue = d.requestQueue
    /\ data'.state = "IpaComplete" => d.state = "IpaComplete"
    /\ \/ d.state # "Busy" /\ toIpa' = t /\ data'.state # "Busy"
       \/ d.state = "Busy" /\ toIpa' = t /\ data'.state = "Busy"
       \/ /\ d.state \in {"Idle", "IpaComplete"} /\ data'.state = "Busy"
          /\ data'.requestQueue # << >>
          /\ \E m \in Prepares : toIpa' = Append(t, m)

LEMMA CheckedType ==
    ASSUME NEW d \in DataType, NEW rq \in [Requests -> RequestType],
           d.state = "IpaComplete" => d.requestQueue # << >>
    PROVE  /\ CheckedData(d, rq) \in DataType
           /\ CheckedRequests(d, rq) \in [Requests -> RequestType]
           /\ CheckedData(d, rq).state # d.state =>
                d.state = "IpaComplete" /\ CheckedData(d, rq).state = "Idle"
           /\ CheckedData(d, rq).state = d.state => CheckedData(d, rq) = d
<1>1. CASE Completes(d, rq)
  <2>1. d.state = "IpaComplete" /\ d.requestQueue # << >>
        /\ d.requestQueue \in Seq(Requests)
    BY <1>1 DEF Completes, DataType
  <2>2. Tail(d.requestQueue) \in Seq(Requests) /\ Head(d.requestQueue) \in Requests
    BY <2>1, Taken
  <2>3. CheckedData(d, rq)
          = [d EXCEPT !.state = "Idle", !.requestQueue = Tail(@)]
    BY <1>1 DEF CheckedData
  <2>4. CheckedRequests(d, rq)
          = [rq EXCEPT ![Head(d.requestQueue)].status = "complete"]
    BY <1>1 DEF CheckedRequests
  <2>5. CheckedData(d, rq) \in DataType /\ CheckedData(d, rq).state = "Idle"
    BY <2>2, <2>3 DEF DataType
  <2>6. [rq[Head(d.requestQueue)] EXCEPT !.status = "complete"] \in RequestType
    BY <2>2 DEF RequestType
  <2> QED
    BY <2>1, <2>2, <2>4, <2>5, <2>6
<1>2. CASE ~Completes(d, rq) /\ Drops(d)
  <2>1. CheckedData(d, rq)
          = [d EXCEPT !.state = "Idle", !.dropFrameCount = @ - 1]
    BY <1>2 DEF CheckedData
  <2>2. d.dropFrameCount - 1 \in Nat
    BY <1>2 DEF Drops, DataType
  <2> QED
    BY <1>2, <2>1, <2>2 DEF DataType, CheckedRequests, Drops
<1>3. CASE ~Completes(d, rq) /\ ~Drops(d)
  BY <1>3 DEF CheckedData, CheckedRequests
<1> QED
  BY <1>1, <1>2, <1>3

LEMMA HandleTypes ==
    ASSUME NEW d \in DataType, NEW rq \in [Requests -> RequestType], NEW t,
           d.state = "IpaComplete" => d.requestQueue # << >>,
           HandleState(d, rq, t)
    PROVE  HandleType(d, rq, t)
<1> DEFINE c == CheckedData(d, rq)
<1>1. /\ c \in DataType /\ CheckedRequests(d, rq) \in [Requests -> RequestType]
      /\ c.state # d.state => d.state = "IpaComplete" /\ c.state = "Idle"
      /\ c.state = d.state => c = d
  BY CheckedType
<1>2. /\ data' = TryRunPipeline(c) /\ request' = CheckedRequests(d, rq)
      /\ toIpa' = IF CanRun(c) THEN Append(t, IspPrepare(c)) ELSE t
  BY DEF HandleState
<1> HIDE DEF c
<1>3. CASE CanRun(c)
  <2>1. /\ c.state = "Idle" /\ c.requestQueue # << >>
        /\ c.bayerQueue # << >> /\ c.embeddedQueue # << >>
    BY <1>3 DEF CanRun
  <2>2. /\ Head(c.bayerQueue) \in Frames /\ Tail(c.bayerQueue) \in Seq(Frames)
        /\ Head(c.embeddedQueue) \in Frames
        /\ Tail(c.embeddedQueue) \in Seq(Frames)
    BY <1>1, <2>1, Taken DEF DataType
  <2>3. data' = [c EXCEPT !.state = "Busy", !.bayerQueue = Tail(@),
                          !.embeddedQueue = Tail(@)]
    BY <1>2, <1>3 DEF TryRunPipeline
  <2>4. /\ data' \in DataType /\ data'.state = "Busy"
        /\ data'.requestQueue = c.requestQueue
    BY <1>1, <2>2, <2>3 DEF DataType
  <2>5. IspPrepare(c) \in Prepares
    BY <2>2 DEF IspPrepare, Prepares
  <2> QED
    BY <1>1, <1>2, <1>3, <2>1, <2>4, <2>5 DEF HandleType, DataType
<1>4. CASE ~CanRun(c)
  BY <1>1, <1>2, <1>4 DEF TryRunPipeline, HandleType, DataType
<1> QED
  BY <1>3, <1>4
-----------------------------------------------------------------------------
(* The inductive invariant. While the handler is busy one thing is under way  *)
(* in the IPA, the ISP or the messages, and it is what ends in                *)
(* statsMetadataComplete; otherwise nothing is.                               *)

EmbeddedFirst(m) == m # << >> /\ m[1].type = "embeddedComplete"

\* Frames under way to the IPA, from it, and up to their statistics in the ISP:
\* `embeddedComplete' comes while the IPA has the frame or before its `runIsp'.
Flight(t, m, j, f, n) ==
    Len(t) + (Len(m) - (IF EmbeddedFirst(m) THEN 1 ELSE 0))
      + (Len(j) - (IF "Stats" \in f THEN 1 ELSE 0)) + Len(n)

OneJob(state, t, m, j, f, n) ==
    /\ Flight(t, m, j, f, n) = IF state = "Busy" THEN 1 ELSE 0
    /\ j = << >> => f = {}
    /\ \A i \in 2 .. Len(m) : m[i].type # "embeddedComplete"
    /\ EmbeddedFirst(m) /\ Len(m) = 1 => t # << >>
    /\ EmbeddedFirst(m) /\ t # << >> =>
         t[1].type = "signalIspPrepare" /\ t[1].embedded = Null

OneFlight ==
    OneJob(data.state, toIpa, messages, jobs, finished, done["Stats"])

Phases ==
    /\ running => data.state # "Stopped"
    /\ data.state = "Stopped" => data.requestQueue = << >> /\ posted = << >>
    /\ FirstRequestExists

PipelineInv == Types /\ ReadyDone /\ Phases /\ OneFlight

\* The arithmetic of the next lemma.
LEMMA Sums ==
    ASSUME NEW a \in Nat, NEW b \in Nat, NEW c \in Nat, NEW d \in Nat,
           NEW e \in {0, 1}, NEW s \in {0, 1}, e <= b, s <= c,
           e = 1 /\ b = 1 => a > 0, NEW busy \in BOOLEAN,
           a + (b - e) + (c - s) + d = IF busy THEN 1 ELSE 0
    PROVE  /\ ~busy => a = 0 /\ b = 0 /\ d = 0 /\ c = s
           /\ a > 0 => busy /\ a = 1 /\ d = 0 /\ c = s /\ b = e
           /\ b > 0 /\ e = 0 => busy /\ b = 1 /\ a = 0 /\ d = 0 /\ c = s
           /\ d > 0 => busy /\ d = 1 /\ a = 0 /\ b = 0 /\ c = s
OBVIOUS

\* No part of the sum is negative, so that each is at most 1.
LEMMA FlightParts ==
    ASSUME NEW t \in Seq(IpaMessages), NEW m \in Seq(HandlerMessages),
           NEW j \in Seq(Frames), NEW f, NEW n \in Seq(Frames), NEW state,
           OneJob(state, t, m, j, f, n)
    PROVE  /\ Len(t) \in Nat /\ Len(m) \in Nat /\ Len(j) \in Nat /\ Len(n) \in Nat
           /\ EmbeddedFirst(m) => Len(m) >= 1
           /\ ~EmbeddedFirst(m) => Len(m) <= 1
           /\ Len(m) <= 2
           /\ "Stats" \in f => Len(j) >= 1
           /\ state # "Busy" =>
                /\ t = << >> /\ m = << >> /\ n = << >>
                /\ Len(j) = IF "Stats" \in f THEN 1 ELSE 0
           /\ t # << >> => /\ state = "Busy" /\ Len(t) = 1 /\ n = << >>
                           /\ Len(j) = IF "Stats" \in f THEN 1 ELSE 0
                           /\ m = << >> \/ (EmbeddedFirst(m) /\ Len(m) = 1)
           /\ m # << >> /\ ~EmbeddedFirst(m) =>
                /\ state = "Busy" /\ Len(m) = 1 /\ t = << >> /\ n = << >>
                /\ Len(j) = IF "Stats" \in f THEN 1 ELSE 0
           /\ n # << >> => /\ state = "Busy" /\ Len(n) = 1
                           /\ t = << >> /\ m = << >>
                           /\ Len(j) = IF "Stats" \in f THEN 1 ELSE 0
<1> DEFINE e == IF EmbeddedFirst(m) THEN 1 ELSE 0
           s == IF "Stats" \in f THEN 1 ELSE 0
<1>1. /\ Len(t) \in Nat /\ Len(m) \in Nat /\ Len(j) \in Nat /\ Len(n) \in Nat
      /\ Len(t) = 0 <=> t = << >>
      /\ Len(m) = 0 <=> m = << >>
      /\ Len(j) = 0 <=> j = << >>
      /\ Len(n) = 0 <=> n = << >>
  BY Emptied
<1>2. /\ e \in {0, 1} /\ (e = 1 <=> EmbeddedFirst(m)) /\ e <= Len(m)
      /\ EmbeddedFirst(m) /\ Len(m) = 1 => Len(t) > 0
  BY <1>1 DEF EmbeddedFirst, OneJob
<1>3. s \in {0, 1} /\ (s = 1 <=> "Stats" \in f) /\ s <= Len(j)
  BY <1>1 DEF OneJob
<1>4. /\ Len(t) + (Len(m) - e) + (Len(j) - s) + Len(n) = IF state = "Busy" THEN 1 ELSE 0
  BY DEF OneJob, Flight
<1> HIDE DEF e
<1>5. Len(j) = (IF "Stats" \in f THEN 1 ELSE 0) <=> Len(j) = s
  OBVIOUS
<1> HIDE DEF s
<1>6. /\ ~EmbeddedFirst(m) => Len(m) <= 1
      /\ EmbeddedFirst(m) => Len(m) >= 1
      /\ Len(m) <= 2
      /\ "Stats" \in f => Len(j) >= 1
  BY <1>1, <1>2, <1>3, <1>4
<1> DEFINE lt == Len(t)
           lm == Len(m)
           lj == Len(j)
           ln == Len(n)
           busy == state = "Busy"
<1>7. /\ ~busy => lt = 0 /\ lm = 0 /\ ln = 0 /\ lj = s
      /\ lt > 0 => busy /\ lt = 1 /\ ln = 0 /\ lj = s /\ lm = e
      /\ lm > 0 /\ e = 0 => busy /\ lm = 1 /\ lt = 0 /\ ln = 0 /\ lj = s
      /\ ln > 0 => busy /\ ln = 1 /\ lt = 0 /\ lm = 0 /\ lj = s
  <2>1. /\ lt \in Nat /\ lm \in Nat /\ lj \in Nat /\ ln \in Nat
        /\ e \in {0, 1} /\ s \in {0, 1} /\ e <= lm /\ s <= lj
        /\ e = 1 /\ lm = 1 => lt > 0
        /\ busy \in BOOLEAN
        /\ lt + (lm - e) + (lj - s) + ln = IF busy THEN 1 ELSE 0
    BY <1>1, <1>2, <1>3, <1>4
  <2> HIDE DEF lt, lm, lj, ln, busy
  <2> QED
    BY <2>1, Sums
<1>8. /\ t # << >> => Len(t) > 0
      /\ m # << >> => Len(m) > 0
      /\ n # << >> => Len(n) > 0
  BY <1>1
<1>9. ~EmbeddedFirst(m) => e = 0
  BY <1>2
<1>10. Len(m) = e => m = << >> \/ (EmbeddedFirst(m) /\ Len(m) = 1)
  BY <1>1, <1>2
<1> QED
  BY <1>1, <1>5, <1>6, <1>7, <1>8, <1>9, <1>10

\* What is under way when a message other than embeddedComplete, or a buffer of
\* statistics, has come.
LEMMA OnlyMessage ==
    ASSUME NEW t \in Seq(IpaMessages), NEW m \in Seq(HandlerMessages),
           NEW j \in Seq(Frames), NEW f, NEW n \in Seq(Frames), NEW state,
           OneJob(state, t, m, j, f, n), m # << >>, ~EmbeddedFirst(m)
    PROVE  /\ state = "Busy" /\ Len(m) = 1 /\ t = << >> /\ n = << >>
           /\ Len(j) = IF "Stats" \in f THEN 1 ELSE 0
BY FlightParts

LEMMA OnlyStats ==
    ASSUME NEW t \in Seq(IpaMessages), NEW m \in Seq(HandlerMessages),
           NEW j \in Seq(Frames), NEW f, NEW n \in Seq(Frames), NEW state,
           OneJob(state, t, m, j, f, n), n # << >>
    PROVE  /\ state = "Busy" /\ Len(n) = 1 /\ t = << >> /\ m = << >>
           /\ Len(j) = IF "Stats" \in f THEN 1 ELSE 0
BY FlightParts

\* handleState keeps it, and the phases.
LEMMA Handled ==
    ASSUME PipelineInv, NEW d \in DataType,
           NEW rq \in [Requests -> RequestType], NEW t \in Seq(IpaMessages),
           HandleState(d, rq, t),
           running' = running, running => d.state # "Stopped",
           d.state = "Stopped" => d.requestQueue = << >> /\ posted' = << >>,
           d.state \in {"Busy", "IpaComplete"} => d.requestQueue # << >>,
           messages' \in Seq(HandlerMessages), jobs' \in Seq(Frames),
           done'["Stats"] \in Seq(Frames),
           OneJob(d.state, t, messages', jobs', finished', done'["Stats"])
    PROVE  /\ data' \in DataType /\ request' \in [Requests -> RequestType]
           /\ toIpa' \in Seq(IpaMessages)
           /\ Phases' /\ OneFlight'
<1>1. HandleType(d, rq, t)
  BY HandleTypes
<1>2. Phases'
  <2>1. data'.state = "Stopped" <=> d.state = "Stopped"
    BY <1>1 DEF HandleType
  <2>2. running' => data'.state # "Stopped"
    BY <2>1
  <2>3. data'.state = "Stopped" => data'.requestQueue = << >> /\ posted' = << >>
    BY <1>1, <2>1 DEF HandleType
  <2>4. data'.state \in {"Busy", "IpaComplete"} => data'.requestQueue # << >>
    <3>1. CASE d.state = "Busy" \/ data'.state = "IpaComplete"
      <4>1. data'.requestQueue = d.requestQueue
        BY <1>1, <3>1 DEF HandleType
      <4>2. d.state \in {"Busy", "IpaComplete"}
        BY <1>1, <3>1 DEF HandleType
      <4> QED
        BY <4>1, <4>2
    <3>2. CASE d.state # "Busy" /\ data'.state = "Busy"
      BY <1>1, <3>2 DEF HandleType
    <3> QED
      BY <3>1, <3>2
  <2> QED
    BY <2>2, <2>3, <2>4 DEF Phases, FirstRequestExists
<1>3. CASE toIpa' = t /\ (data'.state = "Busy" <=> d.state = "Busy")
  <2>1. OneFlight'
    BY <1>3 DEF OneFlight, OneJob
  <2> QED
    BY <1>1, <1>2, <1>3, <2>1 DEF HandleType
<1>4. ASSUME d.state # "Busy", data'.state = "Busy",
             NEW m \in Prepares, toIpa' = Append(t, m)
      PROVE  OneFlight' /\ toIpa' \in Seq(IpaMessages)
  <2>1. /\ t = << >> /\ messages' = << >> /\ done'["Stats"] = << >>
        /\ Len(jobs') = IF "Stats" \in finished' THEN 1 ELSE 0
    <3> DEFINE m1 == messages'
               j1 == jobs'
               f1 == finished'
               n1 == done'["Stats"]
    <3>1. /\ m1 \in Seq(HandlerMessages) /\ j1 \in Seq(Frames)
          /\ n1 \in Seq(Frames) /\ OneJob(d.state, t, m1, j1, f1, n1)
      OBVIOUS
    <3> HIDE DEF m1, j1, f1, n1
    <3>2. /\ t = << >> /\ m1 = << >> /\ n1 = << >>
          /\ Len(j1) = IF "Stats" \in f1 THEN 1 ELSE 0
      BY <1>4, <3>1, FlightParts
    <3> QED
      BY <3>2 DEF m1, j1, f1, n1
  <2>2. toIpa' \in Seq(IpaMessages) /\ Len(toIpa') = 1
    BY <1>4, <2>1, Appended, Emptied DEF IpaMessages
  <2>3. ~EmbeddedFirst(messages') /\ Len(messages') = 0 /\ Len(done'["Stats"]) = 0
    BY <2>1, Emptied DEF EmbeddedFirst
  <2>4. Flight(toIpa', messages', jobs', finished', done'["Stats"]) = 1
    <3> DEFINE k == Len(jobs') - (IF "Stats" \in finished' THEN 1 ELSE 0)
    <3>1. k = 0
      BY <2>1
    <3>2. Flight(toIpa', messages', jobs', finished', done'["Stats"])
            = Len(toIpa') + (Len(messages') - 0) + k + Len(done'["Stats"])
      BY <2>3 DEF Flight
    <3> HIDE DEF k
    <3> QED
      BY <2>2, <2>3, <3>1, <3>2
  <2>5. OneJob(data'.state, toIpa', messages', jobs', finished', done'["Stats"])
    BY <1>4, <2>3, <2>4 DEF OneJob
  <2> QED
    BY <2>2, <2>5 DEF OneFlight
<1> QED
  BY <1>1, <1>2, <1>3, <1>4 DEF HandleType
-----------------------------------------------------------------------------
(* The steps.                                                               *)

LEMMA NothingFlies ==
    ASSUME NEW state, state # "Busy"
    PROVE  OneJob(state, << >>, << >>, << >>, {}, << >>)
BY DEF OneJob, Flight, EmbeddedFirst

LEMMA InitStep == Init => PipelineInv
<1> SUFFICES ASSUME Init PROVE PipelineInv
  OBVIOUS
<1>1. Types
  <2>1. FreshRequest \in RequestType /\ StoppedData \in DataType
    BY Emptied DEF FreshRequest, StoppedData, RequestType, DataType, NoFrame
  <2>2. << >> \in Seq(HandlerMessages) /\ << >> \in Seq(IpaMessages)
    BY Emptied
  <2>3. /\ request \in [Requests -> RequestType] /\ stream \in [Queued -> StreamType]
        /\ done \in [Streams -> Seq(Frames)]
    BY <2>1, StoppedStreamType, Emptied DEF Init
  <2>4. queued \in 0 .. MaxQueued /\ ipaFrame \in Nat
    BY RPiAssumption DEF Init, RPiAssumption, NoFrame
  <2> QED
    BY <2>1, <2>2, <2>3, <2>4, Emptied DEF Init, Types
<1>2. ReadyDone /\ Phases
  BY DEF Init, ReadyDone, Phases, StoppedData, FirstRequestExists
<1>3. OneFlight
  <2>1. "Stats" \in Streams
    BY DEF Streams, IspStreams, IspOutputs
  <2> QED
    BY <2>1, NothingFlies DEF Init, OneFlight, StoppedData
<1> QED
  BY <1>1, <1>2, <1>3 DEF PipelineInv

LEMMA StartStep ==
    ASSUME PipelineInv, Start PROVE PipelineInv'
<1>1. PICK drop \in DropCounts :
        /\ stream' = [s \in Queued |-> StartedStream(s, drop)]
        /\ data' = [StoppedData EXCEPT !.state = "Idle",
                                       !.dropFrameCount = drop]
  BY DEF Start
<1>2. drop \in Nat
  BY RPiAssumption DEF RPiAssumption
<1>3. Types'
  <2>1. FreshRequest \in RequestType /\ data' \in DataType
    BY <1>1, <1>2, Emptied
    DEF FreshRequest, StoppedData, RequestType, DataType, NoFrame
  <2>2. stream' \in [Queued -> StreamType]
    BY <1>1, <1>2, StartedStreamType
  <2>3. queued' \in 0 .. MaxQueued
    BY RPiAssumption DEF RPiAssumption, Start
  <2> QED
    BY <2>1, <2>2, <2>3 DEF PipelineInv, Types, Start
<1>4. ReadyDone' /\ Phases'
  BY <1>1 DEF PipelineInv, ReadyDone, Phases, StoppedData, FirstRequestExists, Start
<1>5. OneFlight'
  BY <1>1 DEF PipelineInv, OneFlight, OneJob, StoppedData, Start
<1> QED
  BY <1>3, <1>4, <1>5 DEF PipelineInv

LEMMA QueueRequestStep ==
    ASSUME PipelineInv, NEW r \in Requests, QueueRequest(r) PROVE PipelineInv'
<1>1. [FreshRequest EXCEPT !.status = "queued", !.pending = Requested]
        \in RequestType
  BY DEF FreshRequest, RequestType, NoFrame
<1>2. queued' \in 0 .. MaxQueued
  BY RPiAssumption DEF RPiAssumption, QueueRequest, PipelineInv, Types
<1>3. Types'
  BY <1>1, <1>2, Appended DEF PipelineInv, Types, QueueRequest
<1>4. ReadyDone' /\ Phases' /\ OneFlight'
  BY DEF PipelineInv, ReadyDone, Phases, FirstRequestExists, OneFlight, QueueRequest
<1> QED
  BY <1>3, <1>4 DEF PipelineInv

LEMMA CallStopStep ==
    ASSUME PipelineInv, CallStop PROVE PipelineInv'
BY DEF PipelineInv, Types, ReadyDone, Phases, FirstRequestExists, OneFlight, CallStop

LEMMA StopStep ==
    ASSUME PipelineInv, Stop PROVE PipelineInv'
<1>1. Types'
  <2>1. StoppedData \in DataType
    BY Emptied DEF StoppedData, DataType
  <2>2. request' \in [Requests -> RequestType]
    <3>1. PICK unset \in SUBSET Requests :
            request' = [r \in Requests |->
              IF request[r].status # "queued" THEN request[r]
              ELSE [request[r] EXCEPT
                      !.pending = {},
                      !.status = IF \E s \in request[r].pending :
                                         Marked(s, r) \/ r \in unset
                                   THEN "cancelled" ELSE "complete"]]
      BY DEF Stop
    <3> QED
      BY <3>1 DEF PipelineInv, Types, RequestType
  <2> QED
    BY <2>1, <2>2, StoppedStreamType, Emptied DEF PipelineInv, Types, Stop
<1>2. ReadyDone' /\ Phases'
  BY DEF ReadyDone, Phases, FirstRequestExists, StoppedData, Stop, StopCalled
<1>3. OneFlight'
  <2>1. "Stats" \in Streams
    BY DEF Streams, IspStreams, IspOutputs
  <2> QED
    BY <2>1, NothingFlies DEF OneFlight, StoppedData, Stop
<1> QED
  BY <1>1, <1>2, <1>3 DEF PipelineInv

LEMMA PollStep ==
    ASSUME PipelineInv, Poll PROVE PipelineInv'
BY DEF PipelineInv, Types, ReadyDone, Phases, FirstRequestExists, OneFlight, Poll
\* The IPA.
LEMMA IpaMessageTypes ==
    ASSUME PipelineInv, toIpa # << >>
    PROVE  /\ Head(toIpa) \in IpaMessages /\ Head(toIpa) = toIpa[1]
           /\ Len(toIpa) = 1 /\ Tail(toIpa) = << >> /\ data.state = "Busy"
           /\ done["Stats"] = << >> /\ done["Stats"] \in Seq(Frames)
           /\ Len(jobs) - (IF "Stats" \in finished THEN 1 ELSE 0) = 0
           /\ messages = << >> \/ (EmbeddedFirst(messages) /\ Len(messages) = 1)
<1>1. /\ toIpa \in Seq(IpaMessages) /\ messages \in Seq(HandlerMessages)
      /\ jobs \in Seq(Frames) /\ done["Stats"] \in Seq(Frames)
      /\ OneJob(data.state, toIpa, messages, jobs, finished, done["Stats"])
  BY DEF PipelineInv, Types, OneFlight, Streams, IspStreams, IspOutputs
<1>2. /\ data.state = "Busy" /\ Len(toIpa) = 1 /\ done["Stats"] = << >>
      /\ Len(jobs) = IF "Stats" \in finished THEN 1 ELSE 0
      /\ messages = << >> \/ (EmbeddedFirst(messages) /\ Len(messages) = 1)
  BY <1>1, FlightParts
<1>3. /\ Head(toIpa) \in IpaMessages /\ Head(toIpa) = toIpa[1]
      /\ Tail(toIpa) \in Seq(IpaMessages) /\ Len(Tail(toIpa)) = 0
  BY <1>1, <1>2, Taken
<1>4. Tail(toIpa) = << >>
  BY <1>3, Emptied
<1> QED
  BY <1>1, <1>2, <1>3, <1>4

LEMMA FlightInIpa ==
    ASSUME PipelineInv, toIpa # << >>, UNCHANGED <<jobs, finished, done>>,
           Len(toIpa') \in Nat, Len(messages') \in Nat
    PROVE  Flight(toIpa', messages', jobs', finished', done'["Stats"])
             = Len(toIpa')
               + (Len(messages') - (IF EmbeddedFirst(messages') THEN 1 ELSE 0))
<1>1. /\ Len(jobs) - (IF "Stats" \in finished THEN 1 ELSE 0) = 0
      /\ done["Stats"] = << >>
  BY IpaMessageTypes
<1>2. /\ Len(jobs') - (IF "Stats" \in finished' THEN 1 ELSE 0) = 0
      /\ Len(done'["Stats"]) = 0
  BY <1>1, Emptied
<1> DEFINE k == Len(jobs') - (IF "Stats" \in finished' THEN 1 ELSE 0)
           l == Len(messages') - (IF EmbeddedFirst(messages') THEN 1 ELSE 0)
<1>3. Flight(toIpa', messages', jobs', finished', done'["Stats"])
        = Len(toIpa') + l + k + Len(done'["Stats"])
  BY DEF Flight
<1>4. l \in Int /\ k = 0
  BY <1>2
<1> HIDE DEF k, l
<1>5. Len(toIpa') + l + k + Len(done'["Stats"]) = Len(toIpa') + l
  BY <1>2, <1>4
<1> QED
  BY <1>3, <1>5 DEF l

LEMMA IpaEmbeddedStep ==
    ASSUME PipelineInv, IpaEmbedded PROVE PipelineInv'
<1> DEFINE h == Head(toIpa)
           m == [type |-> "embeddedComplete", embedded |-> h.embedded]
<1>1. /\ toIpa # << >> /\ h.type = "signalIspPrepare" /\ h.embedded # Null
      /\ messages' = Append(messages, m)
      /\ toIpa' = [toIpa EXCEPT ![1].embedded = Null]
      /\ ipaFrame' = h.bayer.frame
      /\ UNCHANGED <<running, queued, request, data, stream, jobs, finished, done,
                     ready, posted, frame>>
  BY DEF IpaEmbedded, Reply
<1>2. /\ h \in IpaMessages /\ h = toIpa[1] /\ Len(toIpa) = 1
      /\ messages = << >> \/ EmbeddedFirst(messages)
      /\ data.state = "Busy"
      /\ toIpa \in Seq(IpaMessages) /\ messages \in Seq(HandlerMessages)
  BY <1>1, IpaMessageTypes DEF PipelineInv, Types
<1> HIDE DEF h
<1>3. h \in Prepares /\ h.bayer.frame \in Nat /\ h.embedded \in Frames
  BY <1>1, <1>2 DEF IpaMessages, Prepares, Frames
<1>4. messages = << >>
  BY <1>1, <1>2 DEF PipelineInv, OneFlight, OneJob
<1>5. /\ messages' \in Seq(HandlerMessages) /\ Len(messages') = 1
      /\ messages'[1] = m /\ EmbeddedFirst(messages')
  <2>1. m \in HandlerMessages
    BY <1>3 DEF HandlerMessages
  <2> QED
    BY <1>1, <1>2, <1>4, <2>1, Appended, Emptied DEF EmbeddedFirst
<1>6. /\ toIpa' \in Seq(IpaMessages) /\ Len(toIpa') = 1 /\ toIpa' # << >>
      /\ toIpa'[1].type = "signalIspPrepare" /\ toIpa'[1].embedded = Null
  <2>1. [h EXCEPT !.embedded = Null] \in Prepares
    BY <1>3 DEF Prepares
  <2>2. toIpa' = [toIpa EXCEPT ![1] = [h EXCEPT !.embedded = Null]]
    BY <1>1, <1>2
  <2>3. /\ toIpa' \in Seq(IpaMessages) /\ Len(toIpa') = 1
        /\ toIpa'[1] = [h EXCEPT !.embedded = Null]
    <3> DEFINE e == [h EXCEPT !.embedded = Null]
    <3>1. 1 \in 1 .. Len(toIpa) /\ e \in IpaMessages
      BY <1>2, <2>1 DEF IpaMessages
    <3>2. toIpa' = [toIpa EXCEPT ![1] = e]
      BY <2>2
    <3> HIDE DEF e
    <3>3. toIpa' \in Seq(IpaMessages) /\ Len(toIpa') = 1 /\ toIpa'[1] = e
      BY <1>2, <3>1, <3>2, Replaced
    <3> QED
      BY <3>3 DEF e
  <2>4. [h EXCEPT !.embedded = Null].type = "signalIspPrepare"
        /\ [h EXCEPT !.embedded = Null].embedded = Null
    BY <1>3 DEF Prepares
  <2>5. toIpa' # << >>
    <3>1. Len(toIpa') = 1
      BY <2>3
    <3> QED
      BY <3>1
  <2> QED
    BY <2>3, <2>4, <2>5
<1>7. Types'
  BY <1>1, <1>3, <1>5, <1>6 DEF PipelineInv, Types
<1>8. ReadyDone' /\ Phases'
  BY <1>1 DEF PipelineInv, ReadyDone, Phases, FirstRequestExists
<1>9. OneFlight'
  <2>1. ~EmbeddedFirst(messages) /\ Len(messages) = 0
    BY <1>4 DEF EmbeddedFirst
  <2>2. Flight(toIpa', messages', jobs', finished', done'["Stats"]) = 1
    <3>1. UNCHANGED <<jobs, finished, done>> /\ toIpa # << >>
      BY <1>1
    <3>2. /\ Len(toIpa') \in Nat /\ Len(messages') \in Nat
          /\ Len(toIpa') + (Len(messages') - (IF EmbeddedFirst(messages') THEN 1 ELSE 0)) = 1
      BY <1>5, <1>6
    <3> QED
      BY <3>1, <3>2, FlightInIpa
  <2>3. data'.state = "Busy" /\ UNCHANGED <<jobs, finished, done>>
    BY <1>1, <1>2
  <2> HIDE DEF m
  <2> QED
    BY <1>5, <1>6, <2>2, <2>3 DEF PipelineInv, OneFlight, OneJob
<1> QED
  BY <1>7, <1>8, <1>9 DEF PipelineInv

LEMMA IpaPreparedStep ==
    ASSUME PipelineInv, IpaPrepared PROVE PipelineInv'
<1> DEFINE h == Head(toIpa)
           m == [type |-> "runIsp", bayer |-> h.bayer]
<1>1. /\ toIpa # << >> /\ h.type = "signalIspPrepare"
      /\ messages' = Append(messages, m) /\ toIpa' = Tail(toIpa)
      /\ UNCHANGED <<running, queued, request, data, stream, jobs, finished, done,
                     ready, posted, ipaFrame, frame>>
  BY DEF IpaPrepared, Reply
<1>2. /\ h \in IpaMessages /\ Len(toIpa) = 1 /\ toIpa' = << >>
      /\ messages = << >> \/ (EmbeddedFirst(messages) /\ Len(messages) = 1)
      /\ messages \in Seq(HandlerMessages)
  BY <1>1, IpaMessageTypes DEF PipelineInv, Types
<1>20. data.state = "Busy"
  BY <1>1, IpaMessageTypes
<1> HIDE DEF h
<1>3. m \in HandlerMessages /\ m.type # "embeddedComplete"
  BY <1>1, <1>2 DEF IpaMessages, Prepares, HandlerMessages
<1> HIDE DEF m
<1>4. /\ messages' \in Seq(HandlerMessages) /\ Len(messages') = Len(messages) + 1
      /\ messages' # << >>
      /\ \A i \in 1 .. Len(messages) : messages'[i] = messages[i]
      /\ messages'[Len(messages) + 1] = m
  BY <1>1, <1>2, <1>3, Appended
<1>5. Types'
  BY <1>1, <1>2, <1>4, Emptied DEF PipelineInv, Types
<1>6. ReadyDone' /\ Phases'
  BY <1>1 DEF PipelineInv, ReadyDone, Phases, FirstRequestExists
<1>7. OneFlight'
  <2>1. CASE messages = << >>
    <3>1. /\ Len(messages') = 1 /\ ~EmbeddedFirst(messages')
          /\ Len(messages) = 0 /\ ~EmbeddedFirst(messages) /\ Len(toIpa') = 0
      BY <1>2, <1>3, <1>4, <2>1 DEF EmbeddedFirst
    <3>2. Flight(toIpa', messages', jobs', finished', done'["Stats"]) = 1
      BY <1>1, <1>2, <3>1, FlightInIpa
    <3> QED
      BY <1>1, <1>2, <1>20, <3>1, <3>2 DEF PipelineInv, OneFlight, OneJob
  <2>2. CASE EmbeddedFirst(messages) /\ Len(messages) = 1
    <3>1. /\ Len(messages') = 2 /\ EmbeddedFirst(messages') /\ Len(toIpa') = 0
          /\ messages'[2].type # "embeddedComplete"
      BY <1>2, <1>3, <1>4, <2>2 DEF EmbeddedFirst
    <3>2. Flight(toIpa', messages', jobs', finished', done'["Stats"]) = 1
      BY <1>1, <1>2, <2>2, <3>1, FlightInIpa
    <3> QED
      BY <1>1, <1>2, <1>20, <3>1, <3>2 DEF PipelineInv, OneFlight, OneJob
  <2> QED
    BY <1>2, <2>1, <2>2
<1> QED
  BY <1>5, <1>6, <1>7 DEF PipelineInv

LEMMA IpaStatReadyStep ==
    ASSUME PipelineInv, IpaStatReady PROVE PipelineInv'
<1> DEFINE h == Head(toIpa)
           m == [type |-> "statsMetadataComplete", metadata |-> ipaFrame]
<1>1. /\ toIpa # << >> /\ h.type = "signalStatReady"
      /\ messages' = Append(messages, m) /\ toIpa' = Tail(toIpa)
      /\ UNCHANGED <<running, queued, request, data, stream, jobs, finished, done,
                     ready, posted, ipaFrame, frame>>
  BY DEF IpaStatReady, Reply
<1>2. /\ h = toIpa[1] /\ Len(toIpa) = 1 /\ toIpa' = << >>
      /\ messages = << >> \/ EmbeddedFirst(messages)
      /\ data.state = "Busy"
      /\ messages \in Seq(HandlerMessages)
  BY <1>1, IpaMessageTypes DEF PipelineInv, Types
<1> HIDE DEF h
<1>3. messages = << >>
  BY <1>1, <1>2 DEF PipelineInv, OneFlight, OneJob
<1>4. m \in HandlerMessages /\ m.type # "embeddedComplete"
  BY DEF HandlerMessages, PipelineInv, Types
<1> HIDE DEF m
<1>5. /\ messages' \in Seq(HandlerMessages) /\ Len(messages') = 1
      /\ messages'[1] = m /\ ~EmbeddedFirst(messages')
      /\ Len(messages) = 0 /\ ~EmbeddedFirst(messages)
  BY <1>1, <1>2, <1>3, <1>4, Appended, Emptied DEF EmbeddedFirst
<1>6. Types'
  BY <1>1, <1>2, <1>5, Emptied DEF PipelineInv, Types
<1>7. ReadyDone' /\ Phases'
  BY <1>1 DEF PipelineInv, ReadyDone, Phases, FirstRequestExists
<1>8. OneFlight'
  <2>1. Flight(toIpa', messages', jobs', finished', done'["Stats"]) = 1
    BY <1>1, <1>2, <1>5, Emptied, FlightInIpa
  <2> QED
    BY <1>1, <1>2, <1>5, <2>1 DEF PipelineInv, OneFlight, OneJob
<1> QED
  BY <1>6, <1>7, <1>8 DEF PipelineInv
\* The hardware.
LEMMA SensorFrameStep ==
    ASSUME PipelineInv, SensorFrame PROVE PipelineInv'
<1> DEFINE taking == {s \in {"Image", "Embedded"} : stream[s].device # << >>}
<1>1. /\ frame' = frame + 1
      /\ done' = [s \in Streams |-> IF s \in taking
                                      THEN Append(done[s], Filled(s))
                                      ELSE done[s]]
      /\ stream' = [s \in Queued |-> IF s \in taking
                        THEN [stream[s] EXCEPT !.device = Tail(@)]
                        ELSE stream[s]]
      /\ UNCHANGED <<running, queued, request, data, jobs, finished, ready,
                     posted, messages, toIpa, ipaFrame>>
  BY DEF SensorFrame
<1>2. ASSUME NEW s \in taking
      PROVE  /\ s \in Queued /\ Filled(s) \in Frames
             /\ [stream[s] EXCEPT !.device = Tail(@)] \in StreamType
  <2>1. s \in Queued /\ stream[s].device # << >>
    BY DEF Queued, Streams, IspStreams, IspOutputs
  <2>2. stream[s] \in StreamType /\ frame \in Nat
    BY <2>1 DEF PipelineInv, Types
  <2>3. stream[s].device \in Seq(Buffers)
    BY <2>2 DEF StreamType
  <2>4. Head(stream[s].device) \in Buffers /\ Tail(stream[s].device) \in Seq(Buffers)
    BY <2>1, <2>3, Taken
  <2>5. Filled(s) \in Frames
    BY <2>2, <2>4 DEF Filled, Frames
  <2>6. [stream[s] EXCEPT !.device = Tail(@)] \in StreamType
    BY <2>2, <2>4 DEF StreamType
  <2> QED
    BY <2>1, <2>5, <2>6
<1> HIDE DEF taking
<1>3. /\ stream' \in [Queued -> StreamType]
      /\ done' \in [Streams -> Seq(Frames)]
      /\ \A s \in Streams : done[s] # << >> => done'[s] # << >>
  <2>1. \A s \in Streams : done[s] \in Seq(Frames)
    BY DEF PipelineInv, Types
  <2>2. \A s \in Streams : s \in taking =>
          /\ Append(done[s], Filled(s)) \in Seq(Frames)
          /\ Append(done[s], Filled(s)) # << >>
    <3> SUFFICES ASSUME NEW s \in Streams, s \in taking
                 PROVE  /\ Append(done[s], Filled(s)) \in Seq(Frames)
                        /\ Append(done[s], Filled(s)) # << >>
      OBVIOUS
    <3>1. done[s] \in Seq(Frames) /\ Filled(s) \in Frames
      BY <1>2, <2>1
    <3> QED
      BY <3>1, Appended
  <2> QED
    BY <1>1, <1>2, <2>1, <2>2 DEF PipelineInv, Types
<1>4. Types'
  BY <1>1, <1>3 DEF PipelineInv, Types
<1>5. ReadyDone' /\ Phases'
  BY <1>1, <1>3 DEF PipelineInv, Types, ReadyDone, Phases, FirstRequestExists
<1>6. OneFlight'
  <2>1. done'["Stats"] = done["Stats"]
    <3>1. "Stats" \in Streams /\ "Stats" \notin taking
      BY DEF Streams, IspStreams, IspOutputs, taking
    <3> QED
      BY <1>1, <3>1
  <2> QED
    BY <1>1, <2>1 DEF PipelineInv, OneFlight
<1> QED
  BY <1>4, <1>5, <1>6 DEF PipelineInv

\* What the ISP finishes of its first job.
LEMMA IspFinishStep ==
    ASSUME PipelineInv, NEW s \in IspStreams, IspFinish(s) PROVE PipelineInv'
<1> DEFINE b == [buf |-> IF s = "Input" THEN Head(jobs).buf
                                        ELSE Head(stream[s].device),
                 frame |-> Head(jobs).frame]
<1>1. /\ jobs # << >> /\ s \notin finished /\ JobStep(s)
      /\ s # "Input" => stream[s].device # << >>
      /\ done' = [done EXCEPT ![s] = Append(@, b)]
      /\ stream' = IF s = "Input" THEN stream
                                  ELSE [stream EXCEPT ![s].device = Tail(@)]
      /\ UNCHANGED <<running, queued, request, data, ready, posted, messages,
                     toIpa, ipaFrame, frame>>
  BY DEF IspFinish
<1>2. /\ jobs \in Seq(Frames) /\ Head(jobs) \in Frames
      /\ Tail(jobs) \in Seq(Frames) /\ Len(Tail(jobs)) = Len(jobs) - 1
      /\ Len(jobs) \in Nat /\ Len(jobs) > 0
      /\ Len(Tail(jobs)) = 0 <=> Tail(jobs) = << >>
  BY <1>1, Taken, Emptied DEF PipelineInv, Types
<1>3. s # "Input" =>
        /\ s \in Queued /\ stream[s] \in StreamType
        /\ Head(stream[s].device) \in Buffers
        /\ Tail(stream[s].device) \in Seq(Buffers)
  <2> SUFFICES ASSUME s # "Input"
               PROVE  /\ s \in Queued /\ stream[s] \in StreamType
                      /\ Head(stream[s].device) \in Buffers
                      /\ Tail(stream[s].device) \in Seq(Buffers)
    OBVIOUS
  <2>1. s \in Queued /\ stream[s] \in StreamType
    BY DEF Queued, Streams, PipelineInv, Types
  <2>2. stream[s].device \in Seq(Buffers) /\ stream[s].device # << >>
    BY <1>1, <2>1 DEF StreamType
  <2> QED
    BY <2>1, <2>2, Taken
<1>4. b \in Frames
  BY <1>2, <1>3 DEF Frames
<1> HIDE DEF b
<1>5. /\ s \in Streams /\ done[s] \in Seq(Frames)
      /\ done \in [Streams -> Seq(Frames)]
      /\ Append(done[s], b) \in Seq(Frames) /\ Append(done[s], b) # << >>
      /\ Len(Append(done[s], b)) = Len(done[s]) + 1
  <2> DEFINE q == done[s]
  <2>1. s \in Streams /\ done \in [Streams -> Seq(Frames)]
    BY DEF PipelineInv, Types, Streams
  <2>2. q \in Seq(Frames)
    BY <2>1
  <2> HIDE DEF q
  <2>3. /\ Append(q, b) \in Seq(Frames) /\ Append(q, b) # << >>
        /\ Len(Append(q, b)) = Len(q) + 1
    BY <1>4, <2>2, Appended
  <2> QED
    BY <2>1, <2>2, <2>3 DEF q
<1>6. done' \in [Streams -> Seq(Frames)] /\ done'[s] = Append(done[s], b)
      /\ \A z \in Streams : z # s => done'[z] = done[z]
  BY <1>1, <1>5
<1>7. stream' \in [Queued -> StreamType]
  <2>1. CASE s = "Input"
    BY <1>1, <2>1 DEF PipelineInv, Types
  <2>2. CASE s # "Input"
    <3>1. [stream[s] EXCEPT !.device = Tail(@)] \in StreamType
      BY <1>3, <2>2 DEF StreamType
    <3> QED
      BY <1>1, <1>3, <2>2, <3>1 DEF PipelineInv, Types
  <2> QED
    BY <2>1, <2>2
<1>8. jobs' \in Seq(Frames) /\ finished' \in SUBSET IspStreams
  <2>1. finished \in SUBSET IspStreams /\ jobs \in Seq(Frames)
    BY DEF PipelineInv, Types
  <2>2. CASE finished \cup {s} = IspStreams
    BY <1>1, <1>2, <2>2 DEF JobStep
  <2>3. CASE finished \cup {s} # IspStreams
    BY <1>1, <2>1, <2>3 DEF JobStep
  <2> QED
    BY <2>2, <2>3
<1>9. Types'
  BY <1>1, <1>6, <1>7, <1>8 DEF PipelineInv, Types
<1>10. ReadyDone' /\ Phases'
  BY <1>1, <1>5, <1>6
  DEF PipelineInv, Types, ReadyDone, Phases, FirstRequestExists
<1>11. OneFlight'
  <2> DEFINE k == Len(jobs) - (IF "Stats" \in finished THEN 1 ELSE 0)
             kk == Len(jobs') - (IF "Stats" \in finished' THEN 1 ELSE 0)
             n == Len(done["Stats"])
             nn == Len(done'["Stats"])
             l == Len(toIpa)
                  + (Len(messages) - (IF EmbeddedFirst(messages) THEN 1 ELSE 0))
  <2>1. "Stats" \in Streams /\ "Stats" \in IspStreams /\ n \in Nat
    BY Emptied DEF Streams, IspStreams, IspOutputs, PipelineInv, Types
  <2>2. k \in Int /\ kk \in Int /\ l \in Int
    <3>1. Len(jobs') \in Nat /\ Len(toIpa) \in Nat /\ Len(messages) \in Nat
      BY <1>8, Emptied DEF PipelineInv, Types
    <3> QED
      BY <1>2, <3>1
  <2>3. kk + nn = k + n
    <3>1. CASE s = "Stats"
      <4>1. nn = n + 1
        BY <1>5, <1>6, <3>1
      <4>2. kk = k - 1
        <5>1. CASE finished \cup {s} = IspStreams
          BY <1>1, <1>2, <3>1, <5>1 DEF JobStep
        <5>2. CASE finished \cup {s} # IspStreams
          BY <1>1, <1>2, <3>1, <5>2 DEF JobStep
        <5> QED
          BY <5>1, <5>2
      <4> HIDE DEF k, kk, n, nn
      <4> QED
        BY <2>1, <2>2, <4>1, <4>2
    <3>2. CASE s # "Stats"
      <4>1. nn = n
        BY <1>6, <2>1, <3>2
      <4>2. kk = k
        <5>1. CASE finished \cup {s} = IspStreams
          <6>1. "Stats" \in finished /\ finished' = {} /\ jobs' = Tail(jobs)
            BY <1>1, <2>1, <3>2, <5>1 DEF JobStep
          <6> QED
            BY <1>2, <6>1
        <5>2. CASE finished \cup {s} # IspStreams
          BY <1>1, <1>2, <3>2, <5>2 DEF JobStep
        <5> QED
          BY <5>1, <5>2
      <4> HIDE DEF k, kk, n, nn
      <4> QED
        BY <2>1, <2>2, <4>1, <4>2
    <3> QED
      BY <3>1, <3>2
  <2>4. nn \in Nat
    BY <1>6, <2>1, Emptied
  <2>5. Flight(toIpa, messages, jobs, finished, done["Stats"]) = l + k + n
    BY DEF Flight
  <2>6. Flight(toIpa', messages', jobs', finished', done'["Stats"]) = l + kk + nn
    BY <1>1 DEF Flight
  <2>7. l + k + n = l + kk + nn
    <3> HIDE DEF k, kk, n, nn, l
    <3> QED
      BY <2>1, <2>2, <2>3, <2>4
  <2>8. jobs' = << >> => finished' = {}
    <3>1. CASE finished \cup {s} = IspStreams
      BY <1>1, <3>1 DEF JobStep
    <3>2. CASE finished \cup {s} # IspStreams
      BY <1>1, <3>2 DEF JobStep
    <3> QED
      BY <3>1, <3>2
  <2> HIDE DEF k, kk, n, nn, l
  <2> QED
    BY <1>1, <2>5, <2>6, <2>7, <2>8 DEF PipelineInv, OneFlight, OneJob
<1> QED
  BY <1>9, <1>10, <1>11 DEF PipelineInv
-----------------------------------------------------------------------------
(* The handlers.                                                            *)

LEMMA HandledStreamType ==
    ASSUME PipelineInv, NEW s \in External, NEW b \in Buffers
    PROVE  HandledStream(s, b) \in [Queued -> StreamType]
<1>1. s \in Queued /\ stream \in [Queued -> StreamType]
  BY DEF External, Queued, Streams, IspStreams, IspOutputs, PipelineInv, Types
<1>2. ReturnBuffer(stream[s], b) \in StreamType
  BY <1>1, ReturnBufferType
<1> QED
  BY <1>1, <1>2 DEF HandledStream

LEMMA CompletedType ==
    ASSUME PipelineInv, NEW s \in Requested, NEW b, NEW f \in Nat
    PROVE  Completed(s, b, f) \in [Requests -> RequestType]
<1>1. request \in [Requests -> RequestType] /\ data.requestQueue \in Seq(Requests)
  BY DEF PipelineInv, Types, DataType
<1>2. CASE IsForRequest(s, b)
  <2>1. b \in Requests
    BY <1>1, <1>2, Taken DEF IsForRequest
  <2>2. request[b] \in RequestType
    BY <1>1, <2>1
  <2>3. [request[b] EXCEPT !.pending = @ \ {s}, !.got[s] = f] \in RequestType
    BY <2>2 DEF RequestType
  <2> QED
    BY <1>1, <1>2, <2>1, <2>3 DEF Completed
<1>3. CASE ~IsForRequest(s, b)
  BY <1>1, <1>3 DEF Completed
<1> QED
  BY <1>2, <1>3

\* The facts every handler starts from.
LEMMA Before ==
    ASSUME PipelineInv
    PROVE  /\ data \in DataType /\ request \in [Requests -> RequestType]
           /\ toIpa \in Seq(IpaMessages) /\ messages \in Seq(HandlerMessages)
           /\ jobs \in Seq(Frames)
           /\ "Stats" \in Streams /\ done["Stats"] \in Seq(Frames)
           /\ running => data.state # "Stopped"
           /\ data.state = "Stopped" => data.requestQueue = << >> /\ posted = << >>
           /\ data.state \in {"Busy", "IpaComplete"} => data.requestQueue # << >>
           /\ OneJob(data.state, toIpa, messages, jobs, finished, done["Stats"])
BY DEF PipelineInv, Types, Phases, FirstRequestExists, OneFlight, Streams,
       IspStreams, IspOutputs

LEMMA QueueRequestDeviceStep ==
    ASSUME PipelineInv, QueueRequestDevice PROVE PipelineInv'
<1> DEFINE r == Head(posted)
           d == [data EXCEPT !.requestQueue = Append(@, r)]
<1>1. /\ ready = {} /\ posted # << >> /\ data.state # "Stopped"
      /\ posted' = Tail(posted)
      /\ stream' = [s \in Queued |->
                      IF s \in External
                        THEN QueueBuffer(stream[s], IF s \in Requested
                                                      THEN r ELSE Null)
                        ELSE stream[s]]
      /\ HandleState(d, request, toIpa)
      /\ UNCHANGED <<running, queued, jobs, finished, done, ready, messages,
                     ipaFrame, frame>>
  BY DEF QueueRequestDevice
<1>2. r \in Requests /\ posted' \in Seq(Requests)
  BY <1>1, Taken DEF PipelineInv, Types
<1> HIDE DEF r
<1>3. Append(data.requestQueue, r) \in Seq(Requests)
      /\ Append(data.requestQueue, r) # << >>
  BY <1>2, Before, Appended DEF DataType
<1>4. /\ d \in DataType /\ d.state = data.state /\ d.requestQueue # << >>
  BY <1>3, Before DEF DataType
<1>5. stream' \in [Queued -> StreamType]
  <2>1. \A s \in Queued : stream[s] \in StreamType
    BY DEF PipelineInv, Types
  <2>2. r \in Buffers \cup {Null} /\ Null \in Buffers \cup {Null}
    BY <1>2 DEF Buffers
  <2>3. \A s \in Queued : QueueBuffer(stream[s], IF s \in Requested THEN r ELSE Null)
                            \in StreamType
    BY <2>1, <2>2, QueueBufferType
  <2> QED
    BY <1>1, <2>1, <2>3
<1> HIDE DEF d
<1>6. /\ data' \in DataType /\ request' \in [Requests -> RequestType]
      /\ toIpa' \in Seq(IpaMessages) /\ Phases' /\ OneFlight'
  BY <1>1, <1>4, Before, Handled
<1>7. Types'
  BY <1>1, <1>2, <1>5, <1>6 DEF PipelineInv, Types
<1>8. ReadyDone'
  BY <1>1 DEF PipelineInv, ReadyDone
<1> QED
  BY <1>6, <1>7, <1>8 DEF PipelineInv

LEMMA EmbeddedCompleteStep ==
    ASSUME PipelineInv, EmbeddedComplete PROVE PipelineInv'
<1> DEFINE e == Head(messages).embedded
<1>1. /\ messages # << >> /\ Head(messages).type = "embeddedComplete"
      /\ messages' = Tail(messages)
      /\ stream' = HandledStream("Embedded", e.buf)
      /\ HandleState(data, request, toIpa)
      /\ UNCHANGED <<running, queued, jobs, finished, done, ready, posted,
                     ipaFrame, frame>>
  BY DEF EmbeddedComplete, Message
<1>2. /\ Head(messages) \in HandlerMessages /\ Head(messages) = messages[1]
      /\ messages' \in Seq(HandlerMessages) /\ Len(messages') = Len(messages) - 1
      /\ \A i \in 1 .. Len(messages) - 1 : messages'[i] = messages[i + 1]
      /\ Len(messages) \in Nat /\ Len(messages) > 0
  BY <1>1, Before, Taken
<1>3. e \in Frames
  BY <1>1, <1>2 DEF HandlerMessages
<1> HIDE DEF e
<1>4. stream' \in [Queued -> StreamType]
  BY <1>1, <1>3, HandledStreamType DEF External, Frames
<1>5. EmbeddedFirst(messages)
  BY <1>1, <1>2 DEF EmbeddedFirst
<1>6. ~EmbeddedFirst(messages')
  <2> SUFFICES ASSUME messages' # << >> PROVE messages'[1].type # "embeddedComplete"
    BY DEF EmbeddedFirst
  <2>1. Len(messages') > 0
    BY <1>2, Emptied
  <2>2. 2 \in 2 .. Len(messages) /\ messages'[1] = messages[2]
    BY <1>2, <2>1
  <2> QED
    BY <2>2, Before DEF OneJob
<1>7. OneJob(data.state, toIpa, messages', jobs, finished, done["Stats"])
  <2>1. Len(messages') - 0 = Len(messages) - 1
    BY <1>2
  <2>2. Flight(toIpa, messages', jobs, finished, done["Stats"])
          = Flight(toIpa, messages, jobs, finished, done["Stats"])
    BY <1>5, <1>6, <2>1 DEF Flight
  <2>3. Len(messages) <= 2
    BY Before, FlightParts
  <2>4. \A i \in 2 .. Len(messages') : messages'[i].type # "embeddedComplete"
    BY <1>2, <2>3
  <2> QED
    BY <1>6, <2>2, <2>4, Before DEF OneJob
<1>8. /\ data' \in DataType /\ request' \in [Requests -> RequestType]
      /\ toIpa' \in Seq(IpaMessages) /\ Phases' /\ OneFlight'
  BY <1>1, <1>2, <1>7, Before, Handled
<1>9. Types'
  BY <1>1, <1>2, <1>4, <1>8 DEF PipelineInv, Types
<1>10. ReadyDone'
  BY <1>1 DEF PipelineInv, ReadyDone
<1> QED
  BY <1>8, <1>9, <1>10 DEF PipelineInv

\* A message that ends the IPA's part of a frame comes alone, to a busy handler.
LEMMA MessageAlone ==
    ASSUME PipelineInv, messages # << >>, messages' = Tail(messages),
           Head(messages).type # "embeddedComplete"
    PROVE  /\ Head(messages) \in HandlerMessages
           /\ messages' = << >> /\ messages' \in Seq(HandlerMessages)
           /\ data.state = "Busy" /\ toIpa = << >> /\ done["Stats"] = << >>
           /\ Len(jobs) = IF "Stats" \in finished THEN 1 ELSE 0
<1>1. /\ Head(messages) \in HandlerMessages /\ Head(messages) = messages[1]
      /\ messages' \in Seq(HandlerMessages) /\ Len(messages') = Len(messages) - 1
  BY Before, Taken
<1>2. ~EmbeddedFirst(messages)
  BY <1>1 DEF EmbeddedFirst
<1>3. /\ data.state = "Busy" /\ Len(messages) = 1 /\ toIpa = << >>
      /\ done["Stats"] = << >>
      /\ Len(jobs) = IF "Stats" \in finished THEN 1 ELSE 0
  <2>1. /\ toIpa \in Seq(IpaMessages) /\ messages \in Seq(HandlerMessages)
        /\ jobs \in Seq(Frames) /\ done["Stats"] \in Seq(Frames)
        /\ OneJob(data.state, toIpa, messages, jobs, finished, done["Stats"])
    BY Before
  <2>2. messages # << >>
    OBVIOUS
  <2> DEFINE n == done["Stats"]
             state == data.state
  <2>3. n \in Seq(Frames) /\ OneJob(state, toIpa, messages, jobs, finished, n)
    BY <2>1
  <2> HIDE DEF n, state
  <2>4. /\ state = "Busy" /\ Len(messages) = 1 /\ toIpa = << >> /\ n = << >>
        /\ Len(jobs) = IF "Stats" \in finished THEN 1 ELSE 0
    BY <1>2, <2>1, <2>2, <2>3, OnlyMessage
  <2> QED
    BY <2>4 DEF n, state
<1>4. Len(messages') = 0
  BY <1>1, <1>3
<1>5. messages' = << >>
  BY <1>1, <1>4, Emptied
<1> QED
  BY <1>1, <1>3, <1>5

LEMMA RunIspStep ==
    ASSUME PipelineInv, RunIsp PROVE PipelineInv'
<1> DEFINE b == Head(messages).bayer
           d == [data EXCEPT !.ispOutputCount = 0]
<1>1. /\ messages # << >> /\ Head(messages).type = "runIsp"
      /\ messages' = Tail(messages) /\ jobs' = Append(jobs, b)
      /\ HandleState(d, request, toIpa)
      /\ UNCHANGED <<running, queued, stream, finished, done, ready, posted,
                     ipaFrame, frame>>
  BY DEF RunIsp, Message
<1>2. /\ Head(messages) \in HandlerMessages
      /\ messages' = << >> /\ messages' \in Seq(HandlerMessages)
      /\ data.state = "Busy" /\ toIpa = << >> /\ done["Stats"] = << >>
      /\ Len(jobs) = IF "Stats" \in finished THEN 1 ELSE 0
  BY <1>1, MessageAlone
<1>3. b \in Frames
  BY <1>1, <1>2 DEF HandlerMessages
<1> HIDE DEF b
<1>4. jobs' \in Seq(Frames) /\ Len(jobs') = Len(jobs) + 1 /\ jobs' # << >>
  BY <1>1, <1>3, Before, Appended
<1>5. /\ d \in DataType /\ d.state = "Busy" /\ d.requestQueue = data.requestQueue
      /\ d.requestQueue # << >>
  BY <1>2, Before DEF DataType
<1> HIDE DEF d
<1>6. OneJob(d.state, toIpa, messages', jobs', finished, done["Stats"])
  <2>1. /\ ~EmbeddedFirst(messages') /\ Len(messages') = 0
        /\ Len(toIpa) = 0 /\ Len(done["Stats"]) = 0
    BY <1>2 DEF EmbeddedFirst
  <2>2. Len(jobs') - (IF "Stats" \in finished THEN 1 ELSE 0) = 1
    BY <1>2, <1>4
  <2>3. Flight(toIpa, messages', jobs', finished, done["Stats"]) = 0 + (0 - 0) + 1 + 0
    BY <2>1, <2>2 DEF Flight
  <2> QED
    BY <1>4, <1>5, <2>1, <2>3 DEF OneJob
<1>7. /\ data' \in DataType /\ request' \in [Requests -> RequestType]
      /\ toIpa' \in Seq(IpaMessages) /\ Phases' /\ OneFlight'
  BY <1>1, <1>2, <1>4, <1>5, <1>6, Before, Handled
<1>8. Types'
  BY <1>1, <1>2, <1>4, <1>7 DEF PipelineInv, Types
<1>9. ReadyDone'
  BY <1>1 DEF PipelineInv, ReadyDone
<1> QED
  BY <1>7, <1>8, <1>9 DEF PipelineInv

LEMMA StatsMetadataCompleteStep ==
    ASSUME PipelineInv, StatsMetadataComplete PROVE PipelineInv'
<1> DEFINE m == Head(messages).metadata
           first == Head(data.requestQueue)
           d == [data EXCEPT !.state = "IpaComplete"]
           rq == [request EXCEPT ![first].metadata = m]
<1>1. /\ messages # << >> /\ Head(messages).type = "statsMetadataComplete"
      /\ messages' = Tail(messages)
      /\ stream' = [stream EXCEPT !["Stats"].device = Append(@, Internal)]
      /\ HandleState(d, rq, toIpa)
      /\ UNCHANGED <<running, queued, jobs, finished, done, ready, posted,
                     ipaFrame, frame>>
  BY DEF StatsMetadataComplete, Message
<1>2. /\ Head(messages) \in HandlerMessages
      /\ messages' = << >> /\ messages' \in Seq(HandlerMessages)
      /\ data.state = "Busy" /\ toIpa = << >> /\ done["Stats"] = << >>
      /\ Len(jobs) = IF "Stats" \in finished THEN 1 ELSE 0
  BY <1>1, MessageAlone
<1>3. m \in Nat
  BY <1>1, <1>2 DEF HandlerMessages
<1>4. first \in Requests /\ data.requestQueue # << >>
  BY <1>2, Before, Taken DEF DataType
<1> HIDE DEF m, first
<1>5. /\ d \in DataType /\ d.state = "IpaComplete"
      /\ d.requestQueue = data.requestQueue
  BY Before DEF DataType
<1>6. rq \in [Requests -> RequestType]
  <2>1. [request[first] EXCEPT !.metadata = m] \in RequestType
    BY <1>3, <1>4, Before DEF RequestType
  <2> QED
    BY <1>4, <2>1, Before
<1> HIDE DEF d, rq
<1>7. stream' \in [Queued -> StreamType]
  <2>1. "Stats" \in Queued /\ stream["Stats"] \in StreamType
    BY DEF Queued, Streams, IspStreams, IspOutputs, PipelineInv, Types
  <2>2. Append(stream["Stats"].device, Internal) \in Seq(Buffers)
    BY <2>1, Appended DEF StreamType, Buffers
  <2>3. [stream["Stats"] EXCEPT !.device = Append(@, Internal)] \in StreamType
    BY <2>1, <2>2 DEF StreamType
  <2> QED
    BY <1>1, <2>1, <2>3 DEF PipelineInv, Types
<1>8. OneJob(d.state, toIpa, messages', jobs, finished, done["Stats"])
  <2>1. /\ ~EmbeddedFirst(messages') /\ Len(messages') = 0
        /\ Len(toIpa) = 0 /\ Len(done["Stats"]) = 0
    BY <1>2 DEF EmbeddedFirst
  <2>2. Len(jobs) - (IF "Stats" \in finished THEN 1 ELSE 0) = 0
    BY <1>2
  <2>3. Flight(toIpa, messages', jobs, finished, done["Stats"]) = 0 + (0 - 0) + 0 + 0
    BY <2>1, <2>2 DEF Flight
  <2> QED
    BY <1>5, <2>1, <2>3, Before DEF OneJob
<1>9. /\ data' \in DataType /\ request' \in [Requests -> RequestType]
      /\ toIpa' \in Seq(IpaMessages) /\ Phases' /\ OneFlight'
  BY <1>1, <1>2, <1>4, <1>5, <1>6, <1>8, Before, Handled
<1>10. Types'
  BY <1>1, <1>2, <1>7, <1>9 DEF PipelineInv, Types
<1>11. ReadyDone'
  BY <1>1 DEF PipelineInv, ReadyDone
<1> QED
  BY <1>9, <1>10, <1>11 DEF PipelineInv
LEMMA DequeueTypes ==
    ASSUME PipelineInv, NEW s \in Streams, Dequeue(s)
    PROVE  /\ done[s] # << >> /\ done[s] \in Seq(Frames) /\ Head(done[s]) \in Frames
           /\ done' \in [Streams -> Seq(Frames)] /\ done'[s] = Tail(done[s])
           /\ Len(done'[s]) = Len(done[s]) - 1 /\ done'["Stats"] \in Seq(Frames)
           /\ \A z \in Streams : z # s => done'[z] = done[z]
           /\ ready' \in SUBSET Streams /\ ReadyDone'
<1>1. s \in ready /\ ready' = ready \ {s} /\ done' = [done EXCEPT ![s] = Tail(@)]
  BY DEF Dequeue
<1>2. /\ done \in [Streams -> Seq(Frames)] /\ ready \in SUBSET Streams
      /\ \A z \in ready : done[z] # << >>
  BY DEF PipelineInv, Types, ReadyDone
<1>3. done[s] # << >> /\ done[s] \in Seq(Frames)
  BY <1>1, <1>2
<1>4. /\ Head(done[s]) \in Frames /\ Tail(done[s]) \in Seq(Frames)
      /\ Len(Tail(done[s])) = Len(done[s]) - 1
  BY <1>3, Taken
<1>5. /\ done' \in [Streams -> Seq(Frames)] /\ done'[s] = Tail(done[s])
      /\ \A z \in Streams : z # s => done'[z] = done[z]
  BY <1>1, <1>2, <1>4
<1>6. "Stats" \in Streams
  BY DEF Streams, IspStreams, IspOutputs
<1>7. ReadyDone'
  BY <1>1, <1>2, <1>5 DEF ReadyDone
<1> QED
  BY <1>1, <1>2, <1>3, <1>4, <1>5, <1>6, <1>7

LEMMA UnicamBufferDequeueStep ==
    ASSUME PipelineInv, NEW s \in {"Image", "Embedded"}, UnicamBufferDequeue(s)
    PROVE  PipelineInv'
<1> DEFINE b == Head(done[s])
           d == IF s = "Image"
                  THEN [data EXCEPT !.bayerQueue = Append(@, b)]
                  ELSE [data EXCEPT !.embeddedQueue = Append(@, b)]
<1>1. /\ Dequeue(s) /\ HandleState(d, request, toIpa)
      /\ UNCHANGED <<running, queued, stream, jobs, finished, posted, messages,
                     ipaFrame, frame>>
  BY DEF UnicamBufferDequeue
<1>2. s \in Streams /\ s # "Stats"
  BY DEF Streams
<1>3. /\ b \in Frames /\ done' \in [Streams -> Seq(Frames)]
      /\ done'["Stats"] = done["Stats"] /\ done'["Stats"] \in Seq(Frames)
      /\ ready' \in SUBSET Streams /\ ReadyDone'
  BY <1>1, <1>2, Before, DequeueTypes
<1> HIDE DEF b
<1>4. /\ d \in DataType /\ d.state = data.state
      /\ d.requestQueue = data.requestQueue
  <2>1. /\ Append(data.bayerQueue, b) \in Seq(Frames)
        /\ Append(data.embeddedQueue, b) \in Seq(Frames)
    BY <1>3, Before, Appended DEF DataType
  <2> QED
    BY <2>1, Before DEF DataType
<1> HIDE DEF d
<1>5. /\ data' \in DataType /\ request' \in [Requests -> RequestType]
      /\ toIpa' \in Seq(IpaMessages) /\ Phases' /\ OneFlight'
  BY <1>1, <1>3, <1>4, Before, Handled
<1>6. Types'
  BY <1>1, <1>3, <1>5 DEF PipelineInv, Types
<1> QED
  BY <1>3, <1>5, <1>6 DEF PipelineInv

LEMMA IspInputDequeueStep ==
    ASSUME PipelineInv, IspInputDequeue PROVE PipelineInv'
<1> DEFINE b == Head(done["Input"])
           rq == Completed("Image", b.buf, b.frame)
<1>1. /\ Dequeue("Input") /\ HandleState(data, rq, toIpa)
      /\ stream' = HandledStream("Image", b.buf)
      /\ UNCHANGED <<running, queued, jobs, finished, posted, messages,
                     ipaFrame, frame>>
  BY DEF IspInputDequeue
<1>2. "Input" \in Streams
  BY DEF Streams, IspStreams
<1>3. /\ b \in Frames /\ done' \in [Streams -> Seq(Frames)]
      /\ done'["Stats"] = done["Stats"] /\ done'["Stats"] \in Seq(Frames)
      /\ ready' \in SUBSET Streams /\ ReadyDone'
  BY <1>1, <1>2, Before, DequeueTypes
<1> HIDE DEF b
<1>4. b.buf \in Buffers /\ b.frame \in Nat
  BY <1>3 DEF Frames
<1>5. rq \in [Requests -> RequestType] /\ stream' \in [Queued -> StreamType]
  BY <1>1, <1>4, CompletedType, HandledStreamType DEF External, Requested
<1> HIDE DEF rq
<1>6. /\ data' \in DataType /\ request' \in [Requests -> RequestType]
      /\ toIpa' \in Seq(IpaMessages) /\ Phases' /\ OneFlight'
  BY <1>1, <1>3, <1>5, Before, Handled
<1>7. Types'
  BY <1>1, <1>3, <1>5, <1>6 DEF PipelineInv, Types
<1> QED
  BY <1>3, <1>6, <1>7 DEF PipelineInv

\* With its statistics, a frame goes back to the IPA.
LEMMA IspOutputDequeueStep ==
    ASSUME PipelineInv, NEW s \in IspOutputs, IspOutputDequeue(s)
    PROVE  PipelineInv'
<1> DEFINE b == Head(done[s])
           d == [data EXCEPT !.ispOutputCount = @ + 1]
           rq == IF s = "Output0" THEN Completed(s, b.buf, b.frame) ELSE request
           m == [type |-> "signalStatReady"]
           t == IF s = "Stats" THEN Append(toIpa, m) ELSE toIpa
<1>1. /\ Dequeue(s) /\ HandleState(d, rq, t)
      /\ stream' = CASE s = "Output0" -> HandledStream(s, b.buf)
                     [] s = "Output1" ->
                          [stream EXCEPT ![s].device = Append(@, b.buf)]
                     [] OTHER -> stream
      /\ UNCHANGED <<running, queued, jobs, finished, posted, messages,
                     ipaFrame, frame>>
  BY DEF IspOutputDequeue
<1>2. s \in Streams /\ s \in Queued
  BY DEF Queued, Streams, IspStreams, IspOutputs
<1>3. /\ done[s] # << >> /\ b \in Frames /\ done' \in [Streams -> Seq(Frames)]
      /\ s # "Stats" => done'["Stats"] = done["Stats"]
      /\ s = "Stats" => Len(done'["Stats"]) = Len(done["Stats"]) - 1
      /\ done'["Stats"] \in Seq(Frames)
      /\ ready' \in SUBSET Streams /\ ReadyDone'
  BY <1>1, <1>2, Before, DequeueTypes
<1> HIDE DEF b
<1>4. b.buf \in Buffers /\ b.frame \in Nat
  BY <1>3 DEF Frames
<1>5. rq \in [Requests -> RequestType]
  BY <1>4, CompletedType, Before DEF Requested
<1>6. stream' \in [Queued -> StreamType]
  <2>1. CASE s = "Output0"
    BY <1>1, <1>4, <2>1, HandledStreamType DEF External
  <2>2. CASE s = "Output1"
    <3>1. stream[s] \in StreamType
      BY <1>2 DEF PipelineInv, Types
    <3>2. Append(stream[s].device, b.buf) \in Seq(Buffers)
      BY <1>4, <3>1, Appended DEF StreamType
    <3>3. [stream[s] EXCEPT !.device = Append(@, b.buf)] \in StreamType
      BY <3>1, <3>2 DEF StreamType
    <3> QED
      BY <1>1, <1>2, <2>2, <3>3 DEF PipelineInv, Types
  <2>3. CASE s = "Stats"
    BY <1>1, <2>3 DEF PipelineInv, Types
  <2> QED
    BY <2>1, <2>2, <2>3 DEF IspOutputs
<1> HIDE DEF rq
<1>7. /\ d \in DataType /\ d.state = data.state
      /\ d.requestQueue = data.requestQueue
  <2>1. data \in DataType /\ data.ispOutputCount \in Nat
    BY Before DEF DataType
  <2> QED
    BY <2>1 DEF DataType
<1> HIDE DEF d
<1>8. t \in Seq(IpaMessages)
      /\ OneJob(d.state, t, messages, jobs, finished, done'["Stats"])
  <2>1. CASE s # "Stats"
    BY <1>3, <1>7, <2>1, Before
  <2>2. CASE s = "Stats"
    <3>1. /\ data.state = "Busy" /\ Len(done["Stats"]) = 1
          /\ toIpa = << >> /\ messages = << >>
          /\ Len(jobs) = IF "Stats" \in finished THEN 1 ELSE 0
      <4>1. /\ toIpa \in Seq(IpaMessages) /\ messages \in Seq(HandlerMessages)
            /\ jobs \in Seq(Frames) /\ done["Stats"] \in Seq(Frames)
            /\ OneJob(data.state, toIpa, messages, jobs, finished, done["Stats"])
            /\ done["Stats"] # << >>
        BY <1>3, <2>2, Before
      <4> DEFINE n == done["Stats"]
                 state == data.state
      <4>2. /\ n \in Seq(Frames) /\ n # << >>
            /\ OneJob(state, toIpa, messages, jobs, finished, n)
        BY <4>1
      <4> HIDE DEF n, state
      <4>3. /\ state = "Busy" /\ Len(n) = 1 /\ toIpa = << >> /\ messages = << >>
            /\ Len(jobs) = IF "Stats" \in finished THEN 1 ELSE 0
        BY <4>1, <4>2, OnlyStats
      <4> QED
        BY <4>3 DEF n, state
    <3>2. Len(done'["Stats"]) = 0
      BY <1>3, <2>2, <3>1
    <3>3. t \in Seq(IpaMessages) /\ Len(t) = 1
      BY <2>2, <3>1, Before, Appended, Emptied DEF IpaMessages
    <3>4. ~EmbeddedFirst(messages) /\ Len(messages) = 0
      BY <3>1 DEF EmbeddedFirst
    <3>5. Len(jobs) - (IF "Stats" \in finished THEN 1 ELSE 0) = 0
      BY <3>1
    <3> HIDE DEF t
    <3>6. Flight(t, messages, jobs, finished, done'["Stats"]) = 1 + (0 - 0) + 0 + 0
      BY <3>2, <3>3, <3>4, <3>5 DEF Flight
    <3> QED
      BY <1>7, <3>1, <3>3, <3>4, <3>6, Before DEF OneJob
  <2> QED
    BY <2>1, <2>2
<1> HIDE DEF t
<1>9. /\ data' \in DataType /\ request' \in [Requests -> RequestType]
      /\ toIpa' \in Seq(IpaMessages) /\ Phases' /\ OneFlight'
  BY <1>1, <1>3, <1>5, <1>7, <1>8, Before, Handled
<1>10. Types'
  BY <1>1, <1>3, <1>6, <1>9 DEF PipelineInv, Types
<1> QED
  BY <1>3, <1>9, <1>10 DEF PipelineInv

-----------------------------------------------------------------------------
LEMMA NextStep ==
    ASSUME PipelineInv, [Next]_vars PROVE PipelineInv'
<1>1. CASE Start
  BY <1>1, StartStep
<1>2. ASSUME NEW r \in Requests, QueueRequest(r) PROVE PipelineInv'
  BY <1>2, QueueRequestStep
<1>3. CASE CallStop
  BY <1>3, CallStopStep
<1>4. CASE Handlers
  <2>1. CASE Messages
    BY <2>1, QueueRequestDeviceStep, StopStep, EmbeddedCompleteStep, RunIspStep,
       StatsMetadataCompleteStep DEF Messages
  <2>2. CASE Poll
    BY <2>2, PollStep
  <2>3. ASSUME NEW s \in {"Image", "Embedded"}, UnicamBufferDequeue(s)
        PROVE  PipelineInv'
    BY <2>3, UnicamBufferDequeueStep
  <2>4. CASE IspInputDequeue
    BY <2>4, IspInputDequeueStep
  <2>5. ASSUME NEW s \in IspOutputs, IspOutputDequeue(s) PROVE PipelineInv'
    BY <2>5, IspOutputDequeueStep
  <2> QED
    BY <1>4, <2>1, <2>2, <2>3, <2>4, <2>5 DEF Handlers
<1>5. CASE Ipa
  BY <1>5, IpaEmbeddedStep, IpaPreparedStep, IpaStatReadyStep DEF Ipa
<1>6. CASE SensorFrame
  BY <1>6, SensorFrameStep
<1>7. CASE Isp
  BY <1>7, IspFinishStep DEF Isp
<1>8. CASE UNCHANGED vars
  BY <1>8
  DEF vars, PipelineInv, Types, ReadyDone, Phases, FirstRequestExists, OneFlight
<1> QED
  BY <1>1, <1>2, <1>3, <1>4, <1>5, <1>6, <1>7, <1>8 DEF Next

\* The handler is busy with one frame at a time, and what it waits for is always
\* on its way in one place.
THEOREM Invariance == Spec => []PipelineInv
<1>1. PipelineInv /\ [Next]_vars => PipelineInv'
  BY NextStep
<1> QED
  BY InitStep, <1>1, PTL DEF Spec

\* Every variable of the handler and of what runs around it keeps its type.
THEOREM TypeCorrect == Spec => []TypeOK
<1>1. PipelineInv => TypeOK
  BY TypesOK DEF PipelineInv
<1> QED
  BY Invariance, <1>1, PTL

\* checkRequestCompleted and statsMetadataComplete find a first request.
THEOREM FirstRequest == Spec => []FirstRequestExists
<1>1. PipelineInv => FirstRequestExists
  BY DEF PipelineInv, Phases
<1> QED
  BY Invariance, <1>1, PTL
-----------------------------------------------------------------------------
(* The refinement. What handleState does to the queue and the requests is     *)
(* RequestPipe's Complete, or nothing it sees.                                *)

LEMMA HandleQueue ==
    ASSUME NEW d \in DataType, NEW rq \in [Requests -> RequestType], NEW t,
           HandleState(d, rq, t), d.state = "IpaComplete" => d.requestQueue # << >>
    PROVE  \/ /\ data'.requestQueue = d.requestQueue
              /\ \A r \in Requests : request'[r].status = rq[r].status
           \/ /\ d.state = "IpaComplete" /\ d.requestQueue # << >>
              /\ data'.requestQueue = Tail(d.requestQueue)
              /\ Head(d.requestQueue) \in Requests
              /\ \A r \in Requests :
                   request'[r].status = IF r = Head(d.requestQueue)
                                          THEN "complete" ELSE rq[r].status
<1> DEFINE c == CheckedData(d, rq)
<1>1. /\ data' = TryRunPipeline(c) /\ request' = CheckedRequests(d, rq)
      /\ c \in DataType
  BY CheckedType DEF HandleState
<1>2. data'.requestQueue = c.requestQueue
  <2> HIDE DEF c
  <2> QED
    BY <1>1 DEF TryRunPipeline, DataType
<1>3. CASE Completes(d, rq)
  <2>1. d.state = "IpaComplete" /\ d.requestQueue # << >>
    BY <1>3 DEF Completes
  <2>2. Head(d.requestQueue) \in Requests
    BY <2>1, Taken DEF DataType
  <2>3. c.requestQueue = Tail(d.requestQueue)
    BY <1>3 DEF CheckedData, DataType
  <2>4. request' = [rq EXCEPT ![Head(d.requestQueue)].status = "complete"]
    BY <1>1, <1>3 DEF CheckedRequests
  <2>5. \A r \in Requests :
          request'[r].status = IF r = Head(d.requestQueue)
                                 THEN "complete" ELSE rq[r].status
    BY <2>2, <2>4 DEF RequestType
  <2> HIDE DEF c
  <2> QED
    BY <1>2, <2>1, <2>2, <2>3, <2>5
<1>4. CASE ~Completes(d, rq)
  <2>1. c.requestQueue = d.requestQueue
    BY <1>4 DEF CheckedData, DataType
  <2>2. request' = rq
    BY <1>1, <1>4 DEF CheckedRequests
  <2> HIDE DEF c
  <2> QED
    BY <1>2, <2>1, <2>2
<1> QED
  BY <1>3, <1>4

Statuses == [r \in Requests |-> request[r].status]

LEMMA HandledPipe ==
    ASSUME PipelineInv, NEW d \in DataType,
           NEW rq \in [Requests -> RequestType], NEW t,
           HandleState(d, rq, t),
           d.state = "IpaComplete" => d.requestQueue # << >>,
           data'.state = "Stopped" <=> data.state = "Stopped",
           d.state = "Stopped" <=> data.state = "Stopped",
           posted' \in Seq(Requests),
           d.requestQueue \o posted' = data.requestQueue \o posted,
           \A r \in Requests : rq[r].status = request[r].status
    PROVE  [Pipe!Next]_(Pipe!vars)
<1>1. d.requestQueue \in Seq(Requests)
  BY DEF DataType
<1>2. CASE /\ data'.requestQueue = d.requestQueue
           /\ \A r \in Requests : request'[r].status = rq[r].status
  <2>1. /\ data'.requestQueue \o posted' = data.requestQueue \o posted
        /\ Statuses' = Statuses
    BY <1>2 DEF Statuses
  <2> QED
    BY <2>1 DEF Pipe!vars, Statuses
<1>3. CASE /\ d.state = "IpaComplete" /\ d.requestQueue # << >>
           /\ data'.requestQueue = Tail(d.requestQueue)
           /\ Head(d.requestQueue) \in Requests
           /\ \A r \in Requests :
                request'[r].status = IF r = Head(d.requestQueue)
                                       THEN "complete" ELSE rq[r].status
  <2>1. /\ data.requestQueue \o posted # << >>
        /\ Head(data.requestQueue \o posted) = Head(d.requestQueue)
        /\ Tail(data.requestQueue \o posted) = data'.requestQueue \o posted'
    <3> DEFINE q == d.requestQueue
               p == posted'
    <3>1. q \in Seq(Requests) /\ q # << >> /\ p \in Seq(Requests)
      BY <1>1, <1>3
    <3>2. q \o p = data.requestQueue \o posted /\ data'.requestQueue = Tail(q)
      BY <1>3
    <3> HIDE DEF q, p
    <3>3. /\ q \o p # << >> /\ Head(q \o p) = Head(q)
          /\ Tail(q \o p) = Tail(q) \o p
      BY <3>1, Fronts
    <3> QED
      BY <3>2, <3>3 DEF q, p
  <2>2. Statuses' = [Statuses EXCEPT ![Head(d.requestQueue)] = "complete"]
    BY <1>3 DEF Statuses
  <2>3. data.state # "Stopped" /\ data'.state # "Stopped"
    BY <1>3
  <2>4. Pipe!Complete
    BY <2>1, <2>2, <2>3 DEF Pipe!Complete, Statuses
  <2> QED
    BY <2>4 DEF Pipe!Next
<1> QED
  BY <1>2, <1>3, HandleQueue

\* A handler leaves the handler's thread as it finds it, on or off.
LEMMA StaysOn ==
    ASSUME PipelineInv, NEW d \in DataType,
           NEW rq \in [Requests -> RequestType], NEW t,
           HandleState(d, rq, t), d.state = "IpaComplete" => d.requestQueue # << >>
    PROVE  data'.state = "Stopped" <=> d.state = "Stopped"
<1>1. HandleType(d, rq, t)
  BY HandleTypes
<1> QED
  BY <1>1 DEF HandleType

LEMMA PipeHandlers ==
    ASSUME PipelineInv, Handlers, ~Stop PROVE [Pipe!Next]_(Pipe!vars)
<1>1. CASE QueueRequestDevice
  <2> DEFINE d == [data EXCEPT !.requestQueue = Append(@, Head(posted))]
  <2>1. /\ posted # << >> /\ posted' = Tail(posted) /\ posted \in Seq(Requests)
        /\ HandleState(d, request, toIpa) /\ data.state # "Stopped"
    BY <1>1 DEF QueueRequestDevice, PipelineInv, Types
  <2>2. Head(posted) \in Requests /\ posted' \in Seq(Requests)
    BY <2>1, Taken
  <2>3. data \in DataType /\ data.requestQueue \in Seq(Requests)
    BY Before DEF DataType
  <2>4. /\ Append(data.requestQueue, Head(posted)) \in Seq(Requests)
        /\ Append(data.requestQueue, Head(posted)) # << >>
    BY <2>2, <2>3, Appended
  <2>5. /\ d \in DataType /\ d.state = data.state /\ d.requestQueue # << >>
        /\ d.requestQueue = Append(data.requestQueue, Head(posted))
    BY <2>3, <2>4 DEF DataType
  <2>6. d.requestQueue \o posted' = data.requestQueue \o posted
    BY <2>1, <2>3, <2>5, Moved
  <2> HIDE DEF d
  <2> QED
    BY <2>1, <2>2, <2>5, <2>6, Before, StaysOn, HandledPipe
<1>2. ASSUME NEW d \in DataType, NEW rq \in [Requests -> RequestType], NEW t,
             HandleState(d, rq, t), posted' = posted,
             d.requestQueue = data.requestQueue,
             d.state = data.state \/ (data.state = "Busy" /\ d.state = "IpaComplete"),
             \A r \in Requests : rq[r].status = request[r].status
      PROVE  [Pipe!Next]_(Pipe!vars)
  <2>1. /\ d.state = "IpaComplete" => d.requestQueue # << >>
        /\ d.state = "Stopped" <=> data.state = "Stopped"
    BY <1>2, Before
  <2>2. data'.state = "Stopped" <=> d.state = "Stopped"
    BY <1>2, <2>1, StaysOn
  <2>3. posted' \in Seq(Requests)
    BY <1>2 DEF PipelineInv, Types
  <2> QED
    BY <1>2, <2>1, <2>2, <2>3, HandledPipe
<1>3. CASE EmbeddedComplete
  BY <1>2, <1>3, Before DEF EmbeddedComplete
<1>4. CASE RunIsp
  <2> DEFINE d == [data EXCEPT !.ispOutputCount = 0]
  <2>1. /\ d \in DataType /\ d.state = data.state
        /\ d.requestQueue = data.requestQueue
    BY Before DEF DataType
  <2>2. HandleState(d, request, toIpa) /\ posted' = posted
    BY <1>4 DEF RunIsp
  <2> HIDE DEF d
  <2> QED
    BY <1>2, <2>1, <2>2, Before
<1>5. CASE StatsMetadataComplete
  <2> DEFINE d == [data EXCEPT !.state = "IpaComplete"]
             first == Head(data.requestQueue)
             m == Head(messages).metadata
             rq == [request EXCEPT ![first].metadata = m]
  <2>1. /\ HandleState(d, rq, toIpa) /\ posted' = posted
        /\ messages # << >> /\ messages' = Tail(messages)
        /\ Head(messages).type = "statsMetadataComplete"
    BY <1>5 DEF StatsMetadataComplete, Message
  <2>2. data.state = "Busy" /\ Head(messages) \in HandlerMessages
    BY <2>1, MessageAlone
  <2>3. m \in Nat
    BY <2>1, <2>2 DEF HandlerMessages
  <2>4. first \in Requests
    BY <2>2, Before, Taken DEF DataType
  <2> HIDE DEF m, first
  <2>5. /\ rq \in [Requests -> RequestType]
        /\ \A r \in Requests : rq[r].status = request[r].status
    <3>1. [request[first] EXCEPT !.metadata = m] \in RequestType
      BY <2>3, <2>4, Before DEF RequestType
    <3>2. [request[first] EXCEPT !.metadata = m].status = request[first].status
      BY <2>4, Before DEF RequestType
    <3> QED
      BY <2>4, <3>1, <3>2, Before
  <2>6. /\ d \in DataType /\ d.state = "IpaComplete"
        /\ d.requestQueue = data.requestQueue
    BY Before DEF DataType
  <2> HIDE DEF d, rq
  <2> QED
    BY <1>2, <2>1, <2>2, <2>5, <2>6
<1>6. CASE Poll
  BY <1>6 DEF Poll, Pipe!vars
<1>7. ASSUME NEW s \in {"Image", "Embedded"}, UnicamBufferDequeue(s)
      PROVE  [Pipe!Next]_(Pipe!vars)
  <2> DEFINE b == Head(done[s])
             d == IF s = "Image"
                    THEN [data EXCEPT !.bayerQueue = Append(@, b)]
                    ELSE [data EXCEPT !.embeddedQueue = Append(@, b)]
  <2>1. /\ HandleState(d, request, toIpa) /\ posted' = posted /\ Dequeue(s)
    BY <1>7 DEF UnicamBufferDequeue
  <2>2. b \in Frames
    BY <2>1, DequeueTypes DEF Streams
  <2> HIDE DEF b
  <2>3. /\ d \in DataType /\ d.state = data.state
        /\ d.requestQueue = data.requestQueue
    <3>1. /\ Append(data.bayerQueue, b) \in Seq(Frames)
          /\ Append(data.embeddedQueue, b) \in Seq(Frames)
      BY <2>2, Before, Appended DEF DataType
    <3> QED
      BY <3>1, Before DEF DataType
  <2> HIDE DEF d
  <2> QED
    BY <1>2, <2>1, <2>3, Before
<1>8. ASSUME NEW s \in Requested, NEW b, NEW f
      PROVE  \A r \in Requests : Completed(s, b, f)[r].status = request[r].status
  <2>1. request \in [Requests -> RequestType] /\ data.requestQueue \in Seq(Requests)
    BY Before DEF DataType
  <2>2. CASE IsForRequest(s, b)
    <3>1. Completed(s, b, f) = [request EXCEPT ![b].pending = @ \ {s},
                                               ![b].got[s] = f]
      BY <2>2 DEF Completed
    <3> QED
      BY <2>1, <3>1 DEF RequestType
  <2>3. CASE ~IsForRequest(s, b)
    BY <2>3 DEF Completed
  <2> QED
    BY <2>2, <2>3
<1>9. CASE IspInputDequeue
  <2> DEFINE b == Head(done["Input"])
             rq == Completed("Image", b.buf, b.frame)
  <2>1. /\ HandleState(data, rq, toIpa) /\ posted' = posted /\ Dequeue("Input")
    BY <1>9 DEF IspInputDequeue
  <2>2. b.frame \in Nat
    BY <2>1, DequeueTypes DEF Streams, IspStreams, Frames
  <2>3. /\ rq \in [Requests -> RequestType]
        /\ \A r \in Requests : rq[r].status = request[r].status
    BY <1>8, <2>2, CompletedType DEF Requested
  <2> HIDE DEF rq
  <2> QED
    BY <1>2, <2>1, <2>3, Before
<1>10. ASSUME NEW s \in IspOutputs, IspOutputDequeue(s)
       PROVE  [Pipe!Next]_(Pipe!vars)
  <2> DEFINE b == Head(done[s])
             d == [data EXCEPT !.ispOutputCount = @ + 1]
             rq == IF s = "Output0" THEN Completed(s, b.buf, b.frame) ELSE request
             t == IF s = "Stats" THEN Append(toIpa, [type |-> "signalStatReady"])
                                 ELSE toIpa
  <2>1. /\ HandleState(d, rq, t) /\ posted' = posted /\ Dequeue(s)
    BY <1>10 DEF IspOutputDequeue
  <2>2. b.frame \in Nat
    BY <2>1, DequeueTypes DEF Streams, IspStreams, Frames
  <2>3. /\ rq \in [Requests -> RequestType]
        /\ \A r \in Requests : rq[r].status = request[r].status
    BY <1>8, <2>2, CompletedType, Before DEF Requested
  <2>4. /\ d \in DataType /\ d.state = data.state
        /\ d.requestQueue = data.requestQueue
    <3>1. data \in DataType /\ data.ispOutputCount \in Nat
      BY Before DEF DataType
    <3> QED
      BY <3>1 DEF DataType
  <2> HIDE DEF d, rq, t
  <2> QED
    BY <1>2, <2>1, <2>3, <2>4
<1> QED
  BY <1>1, <1>3, <1>4, <1>5, <1>6, <1>7, <1>9, <1>10 DEF Handlers, Messages

LEMMA PipeStep ==
    ASSUME PipelineInv, [Next]_vars PROVE [Pipe!Next]_(Pipe!vars)
<1>1. CASE Start
  <2>1. /\ data.state = "Stopped" /\ data'.state = "Idle"
        /\ data'.requestQueue = << >> /\ posted' = << >>
        /\ request' = [r \in Requests |-> FreshRequest]
    BY <1>1, Before DEF Start, StoppedData
  <2>2. data'.requestQueue \o posted' = << >>
    BY <2>1
  <2>3. [r \in Requests |-> request'[r].status] = [r \in Requests |-> "app"]
    BY <2>1 DEF FreshRequest
  <2>4. Pipe!Start
    BY <2>1, <2>2, <2>3 DEF Pipe!Start
  <2> QED
    BY <2>4 DEF Pipe!Next
<1>2. ASSUME NEW r \in Requests, QueueRequest(r) PROVE [Pipe!Next]_(Pipe!vars)
  <2>1. /\ data.state # "Stopped" /\ data' = data /\ posted' = Append(posted, r)
        /\ request[r].status # "queued"
        /\ request' = [request EXCEPT ![r] =
                         [FreshRequest EXCEPT !.status = "queued",
                                              !.pending = Requested]]
    BY <1>2, Before DEF QueueRequest
  <2>2. data'.requestQueue \o posted' = Append(data.requestQueue \o posted, r)
    <3> DEFINE q == data.requestQueue
    <3>1. q \in Seq(Requests) /\ posted \in Seq(Requests)
      BY Before DEF PipelineInv, Types, DataType
    <3> HIDE DEF q
    <3>2. q \o Append(posted, r) = Append(q \o posted, r)
      BY <3>1, Postponed
    <3> QED
      BY <2>1, <3>2 DEF q
  <2>3. Statuses' = [Statuses EXCEPT ![r] = "queued"]
    BY <2>1, Before DEF Statuses, FreshRequest
  <2>4. Pipe!Queue(r)
    BY <2>1, <2>2, <2>3 DEF Pipe!Queue, Statuses
  <2> QED
    BY <2>4 DEF Pipe!Next
<1>3. CASE Stop
  <2>1. PICK unset \in SUBSET Requests :
          request' = [r \in Requests |->
            IF request[r].status # "queued" THEN request[r]
            ELSE [request[r] EXCEPT
                    !.pending = {},
                    !.status = IF \E s \in request[r].pending :
                                       Marked(s, r) \/ r \in unset
                                 THEN "cancelled" ELSE "complete"]]
    BY <1>3 DEF Stop
  <2>2. /\ data.state # "Stopped" /\ data'.state = "Stopped"
        /\ data'.requestQueue = << >> /\ posted' = << >>
    BY <1>3 DEF Stop, StopCalled, StoppedData
  <2>3. data'.requestQueue \o posted' = << >>
    BY <2>2
  <2> DEFINE cancelled == {r \in Requests : request[r].status = "queued" /\
                             \E s \in request[r].pending : Marked(s, r) \/ r \in unset}
  <2>4. cancelled \in SUBSET {r \in Requests : Statuses[r] = "queued"}
    BY DEF Statuses
  <2>5. Statuses' = [r \in Requests |->
                       CASE Statuses[r] # "queued" -> Statuses[r]
                         [] r \in cancelled -> "cancelled"
                         [] OTHER -> "complete"]
    <3>1. ASSUME NEW r \in Requests
          PROVE  request'[r].status =
                   CASE request[r].status # "queued" -> request[r].status
                     [] r \in cancelled -> "cancelled"
                     [] OTHER -> "complete"
      <4>1. request[r] \in RequestType
        BY Before
      <4> QED
        BY <2>1, <4>1 DEF RequestType
    <3> HIDE DEF cancelled
    <3> QED
      BY <3>1 DEF Statuses
  <2> HIDE DEF cancelled
  <2>6. Pipe!Stop
    BY <2>2, <2>3, <2>4, <2>5 DEF Pipe!Stop, Statuses
  <2> QED
    BY <2>6 DEF Pipe!Next
<1>4. CASE Handlers /\ ~Stop
  BY <1>4, PipeHandlers
<1>5. CASE CallStop
  BY <1>5 DEF CallStop, Pipe!vars
<1>6. CASE Ipa
  BY <1>6 DEF Ipa, IpaEmbedded, IpaPrepared, IpaStatReady, Pipe!vars
<1>7. CASE SensorFrame
  BY <1>7 DEF SensorFrame, Pipe!vars
<1>8. CASE Isp
  BY <1>8 DEF Isp, IspFinish, Pipe!vars
<1>9. CASE UNCHANGED vars
  BY <1>9 DEF vars, Pipe!vars
<1> QED
  BY <1>1, <1>2, <1>3, <1>4, <1>5, <1>6, <1>7, <1>8, <1>9 DEF Next

\* The handler is a pipe of requests: they complete in the order they were
\* queued, each once, whatever the streams, the IPA and the ISP do in between.
THEOREM Implements == Spec => PipeSpec
<1>1. Init => Pipe!Init
  BY DEF Init, Pipe!Init, StoppedData, FreshRequest
<1>2. PipelineInv /\ [Next]_vars => [Pipe!Next]_(Pipe!vars)
  BY PipeStep
<1> QED
  BY Invariance, <1>1, <1>2, PTL DEF Spec, PipeSpec, Pipe!Spec
-----------------------------------------------------------------------------
(* A completed request holds one frame of the sensor. What ties its parts    *)
(* together is that a frame is not left before the handler has all of it: the *)
(* ISP owes it no input and no output 0 when the next one is sent to the IPA. *)

HasType(q, type) == \E i \in DOMAIN q : q[i].type = type

\* The frame under way has not reached the ISP.
Upstream(t, m) == HasType(t, "signalIspPrepare") \/ HasType(m, "runIsp")

\* Of each stream, the buffers the ISP is to finish of what it was or will be
\* sent, and those the handler has not dequeued.
ToSend(t, m) == IF Upstream(t, m) THEN 1 ELSE 0
InIsp(j, f, s) == Len(j) - (IF s \in f THEN 1 ELSE 0)
Owed(t, m, j, f, n) ==
    [s \in IspStreams |-> ToSend(t, m) + InIsp(j, f, s) + Len(n[s])]

Working(d) == d.state \in {"Busy", "IpaComplete"}

\* Nothing is left of a frame when the handler is idle, but for output 1.
Paid(d, o) ==
    /\ d.state = "Idle" => o["Input"] = 0 /\ o["Output0"] = 0
    /\ o["Input"] <= 1 /\ o["Output0"] <= 1

\* Nor of output 1, while frames are dropped: the handler counts the outputs,
\* and by the time it has seen the last one it has seen the input.
Dropping(d, o, up, rdy) ==
    d.dropFrameCount # 0 =>
      /\ \A s \in IspStreams : o[s] <= 1 /\ (d.state = "Idle" => o[s] = 0)
      /\ Working(d) /\ ~up =>
           d.ispOutputCount + o["Output0"] + o["Output1"] + o["Stats"] = 3
      /\ o["Input"] = 1 =>
           \E s \in IspOutputs : o[s] = 1 /\ ("Input" \notin rdy => s \notin rdy)

\* Requests that wait are queued, once, and have nothing yet, but for the first
\* one while its frame is worked on.
Waiting(d, rq, line) ==
    /\ \A i, k \in DOMAIN line : line[i] = line[k] => i = k
    /\ \A i \in DOMAIN line : rq[line[i]].status = "queued"
    /\ \A i \in DOMAIN line : \/ i = 1 /\ Working(d) /\ d.dropFrameCount = 0
                              \/ rq[line[i]].pending = Requested

IspOf(s) == IF s = "Image" THEN "Input" ELSE "Output0"

\* What the first request has is of the frame whose metadata the IPA holds.
FirstHas(d, rq, o, ip) ==
    Working(d) =>
      LET first == rq[Head(d.requestQueue)]
      IN /\ \A s \in Requested :
              d.dropFrameCount = 0 /\ s \notin first.pending =>
                o[IspOf(s)] = 0 /\ first.got[s] = ip
         /\ d.state = "IpaComplete" => first.metadata = ip /\ ip # NoFrame

\* So are the buffers the ISP has finished, and its last job.
Stamped(j, n, up, ip) ==
    /\ \A s \in {"Input", "Output0"} : \A i \in DOMAIN n[s] : n[s][i].frame = ip
    /\ ~up /\ j # << >> => j[Len(j)].frame = ip

\* And what comes from the IPA, once it has read the embedded data.
InIpa(d, t, m, n, ip) ==
    /\ \A i \in DOMAIN t : t[i].type = "signalIspPrepare" =>
         /\ t[i].bayer.frame # NoFrame
         /\ t[i].embedded = Null => t[i].bayer.frame = ip
    /\ \A i \in DOMAIN m : m[i].type = "runIsp" => m[i].bayer.frame = ip
    /\ \A i \in DOMAIN m : m[i].type = "statsMetadataComplete" => m[i].metadata = ip
    /\ \A i \in DOMAIN d.bayerQueue : d.bayerQueue[i].frame # NoFrame
    /\ \A i \in DOMAIN n["Image"] : n["Image"][i].frame # NoFrame
    /\ d.state = "Busy" =>
         \/ ip # NoFrame
         \/ \E i \in DOMAIN t : t[i].type = "signalIspPrepare" /\ t[i].embedded # Null

\* OneFrame, of any data and requests.
Whole(d, rq) ==
    d.state # "Stopped" =>
      \A r \in Requests : rq[r].status = "complete" =>
        /\ rq[r].metadata # NoFrame
        /\ \A s \in Requested : rq[r].got[s] = rq[r].metadata

Sound(d, rq, t, m, j, f, n, rdy, p, ip) ==
    LET o == Owed(t, m, j, f, n)
        up == Upstream(t, m)
    IN /\ Paid(d, o) /\ Dropping(d, o, up, rdy) /\ Waiting(d, rq, d.requestQueue \o p)
       /\ FirstHas(d, rq, o, ip) /\ Stamped(j, n, up, ip) /\ InIpa(d, t, m, n, ip)
       /\ Whole(d, rq)

\* A stopped handler leaves nothing behind; the ISP gives back the image before
\* it is done with its outputs.
Resting ==
    /\ data.state = "Stopped" =>
         /\ jobs = << >> /\ finished = {} /\ ready = {}
         /\ \A s \in Streams : done[s] = << >>
         /\ \A s \in Queued : stream[s] = StoppedStream
    /\ finished # IspOutputs

FramesInv ==
    /\ Sound(data, request, toIpa, messages, jobs, finished, done, ready, posted,
             ipaFrame)
    /\ Resting

\* What these use of PipelineInv.
Context(d, rq, t, m, j, f, n, rdy, p) ==
    /\ d \in DataType /\ rq \in [Requests -> RequestType]
    /\ t \in Seq(IpaMessages) /\ m \in Seq(HandlerMessages)
    /\ j \in Seq(Frames) /\ f \in SUBSET IspStreams
    /\ n \in [Streams -> Seq(Frames)] /\ rdy \in SUBSET Streams /\ p \in Seq(Requests)
    /\ \A s \in rdy : n[s] # << >>
    /\ Working(d) => d.requestQueue # << >>
    /\ j = << >> => f = {}
    /\ d.state # "Busy" => t = << >> /\ m = << >>

LEMMA NotBusy ==
    ASSUME NEW t \in Seq(IpaMessages), NEW m \in Seq(HandlerMessages),
           NEW j \in Seq(Frames), NEW f, NEW n \in Seq(Frames), NEW state,
           OneJob(state, t, m, j, f, n), state # "Busy"
    PROVE  t = << >> /\ m = << >>
<1>1. state # "Busy" => /\ t = << >> /\ m = << >> /\ n = << >>
                        /\ Len(j) = IF "Stats" \in f THEN 1 ELSE 0
  BY FlightParts
<1> QED
  BY <1>1

LEMMA ContextNow ==
    ASSUME PipelineInv
    PROVE  Context(data, request, toIpa, messages, jobs, finished, done, ready, posted)
<1>1. /\ data \in DataType /\ request \in [Requests -> RequestType]
      /\ toIpa \in Seq(IpaMessages) /\ messages \in Seq(HandlerMessages)
      /\ jobs \in Seq(Frames) /\ finished \in SUBSET IspStreams
      /\ done \in [Streams -> Seq(Frames)] /\ ready \in SUBSET Streams
      /\ posted \in Seq(Requests)
      /\ \A s \in ready : done[s] # << >>
  BY DEF PipelineInv, Types, ReadyDone
<1>2. /\ Working(data) => data.requestQueue # << >>
      /\ "Stats" \in Streams /\ done["Stats"] \in Seq(Frames)
      /\ OneJob(data.state, toIpa, messages, jobs, finished, done["Stats"])
  BY Before DEF Working
<1>3. data.state # "Busy" => toIpa = << >> /\ messages = << >>
  <2>1. /\ toIpa \in Seq(IpaMessages) /\ messages \in Seq(HandlerMessages)
        /\ jobs \in Seq(Frames) /\ done["Stats"] \in Seq(Frames)
    BY <1>1, <1>2
  <2> QED
    BY <1>2, <2>1, NotBusy
<1>4. jobs = << >> => finished = {}
  BY <1>2 DEF OneJob
<1> QED
  BY <1>1, <1>2, <1>3, <1>4 DEF Context

LEMMA OwedSum ==
    ASSUME NEW t, NEW m, NEW j, NEW f, NEW n, NEW s \in IspStreams
    PROVE  Owed(t, m, j, f, n)[s] = ToSend(t, m) + InIsp(j, f, s) + Len(n[s])
BY DEF Owed

LEMMA OwedParts ==
    ASSUME NEW j \in Seq(Frames), NEW f, j = << >> => f = {},
           NEW n \in [Streams -> Seq(Frames)], NEW s \in IspStreams
    PROVE  /\ InIsp(j, f, s) \in Nat /\ Len(n[s]) \in Nat
           /\ n[s] = << >> <=> Len(n[s]) = 0
           /\ s \in Streams /\ n[s] \in Seq(Frames)
<1>1. s \in Streams /\ n[s] \in Seq(Frames)
  BY DEF Streams
<1>2. Len(n[s]) \in Nat /\ (n[s] = << >> <=> Len(n[s]) = 0)
  BY <1>1, Emptied
<1>3. Len(j) \in Nat /\ (j = << >> <=> Len(j) = 0)
  BY Emptied
<1>4. InIsp(j, f, s) \in Nat
  BY <1>3 DEF InIsp
<1> QED
  BY <1>1, <1>2, <1>4

LEMMA SendsOne ==
    ASSUME NEW t, NEW m
    PROVE  ToSend(t, m) \in {0, 1} /\ (Upstream(t, m) <=> ToSend(t, m) = 1)
BY DEF ToSend

LEMMA OwedNat ==
    ASSUME NEW t, NEW m, NEW j \in Seq(Frames), NEW f, j = << >> => f = {},
           NEW n \in [Streams -> Seq(Frames)], NEW s \in IspStreams
    PROVE  Owed(t, m, j, f, n)[s] \in Nat
<1>1. InIsp(j, f, s) \in Nat /\ Len(n[s]) \in Nat
  BY OwedParts
<1>2. ToSend(t, m) \in {0, 1}
  BY SendsOne
<1> QED
  BY <1>1, <1>2, OwedSum

LEMMA NothingSent == ~Upstream(<< >>, << >>)
BY DEF Upstream, HasType

\* checkRequestCompleted keeps it.
LEMMA CheckedSound ==
    ASSUME NEW d, NEW rq, NEW t, NEW m, NEW j, NEW f, NEW n, NEW rdy, NEW p, NEW ip,
           Context(d, rq, t, m, j, f, n, rdy, p),
           Sound(d, rq, t, m, j, f, n, rdy, p, ip)
    PROVE  /\ Context(CheckedData(d, rq), CheckedRequests(d, rq),
                      t, m, j, f, n, rdy, p)
           /\ Sound(CheckedData(d, rq), CheckedRequests(d, rq),
                    t, m, j, f, n, rdy, p, ip)
<1> DEFINE c == CheckedData(d, rq)
           crq == CheckedRequests(d, rq)
           o == Owed(t, m, j, f, n)
           up == Upstream(t, m)
           q == d.requestQueue
           line == q \o p
<1>1. /\ d \in DataType /\ rq \in [Requests -> RequestType]
      /\ q \in Seq(Requests) /\ p \in Seq(Requests)
      /\ Working(d) => q # << >>
  BY DEF Context, DataType
<1>2. /\ c \in DataType /\ crq \in [Requests -> RequestType]
  BY <1>1, CheckedType DEF Working
<1>3. \A s \in IspStreams : o[s] \in Nat
  BY OwedNat DEF Context
<1>4. /\ Paid(d, o) /\ Dropping(d, o, up, rdy) /\ Waiting(d, rq, line)
      /\ FirstHas(d, rq, o, ip) /\ Stamped(j, n, up, ip) /\ InIpa(d, t, m, n, ip)
      /\ Whole(d, rq)
  BY DEF Sound
<1>5. ASSUME d.state = "IpaComplete", c.state = "Idle", c.bayerQueue = d.bayerQueue,
             Paid(c, o), Dropping(c, o, up, rdy),
             Waiting(c, crq, c.requestQueue \o p), Whole(c, crq)
      PROVE  Context(c, crq, t, m, j, f, n, rdy, p)
             /\ Sound(c, crq, t, m, j, f, n, rdy, p, ip)
  <2> HIDE DEF c, crq
  <2>1. FirstHas(c, crq, o, ip) /\ InIpa(c, t, m, n, ip)
    BY <1>4, <1>5 DEF FirstHas, InIpa, Working
  <2>2. Context(c, crq, t, m, j, f, n, rdy, p)
    BY <1>2, <1>5 DEF Context, Working
  <2> QED
    BY <1>4, <1>5, <2>1, <2>2 DEF Sound
<1>6. CASE Completes(d, rq)
  <2> DEFINE r == Head(q)
  <2>1. /\ d.state = "IpaComplete" /\ d.dropFrameCount = 0 /\ rq[r].pending = {}
        /\ Working(d) /\ q # << >>
    BY <1>1, <1>6 DEF Completes, HasPending, Working
  <2>2. /\ c.state = "Idle" /\ c.bayerQueue = d.bayerQueue
        /\ c.requestQueue = Tail(q) /\ c.dropFrameCount = 0
    BY <1>1, <1>6, <2>1 DEF CheckedData, DataType
  <2>3. r \in Requests /\ Tail(q) \in Seq(Requests)
    BY <1>1, <2>1, Taken
  <2>4. /\ crq[r].status = "complete" /\ crq[r].pending = rq[r].pending
        /\ crq[r].got = rq[r].got /\ crq[r].metadata = rq[r].metadata
        /\ \A x \in Requests : x # r => crq[x] = rq[x]
    <3>1. crq = [rq EXCEPT ![r].status = "complete"]
      BY <1>6 DEF CheckedRequests
    <3> HIDE DEF crq, r
    <3> QED
      BY <1>1, <2>3, <3>1 DEF RequestType
  <2>5. /\ \A s \in Requested : o[IspOf(s)] = 0 /\ rq[r].got[s] = ip
        /\ rq[r].metadata = ip /\ ip # NoFrame
    <3> HIDE DEF o
    <3> QED
      BY <1>4, <2>1 DEF FirstHas
  <2>6. o["Input"] = 0 /\ o["Output0"] = 0
    BY <2>5 DEF Requested, IspOf
  <2> HIDE DEF o
  <2>7. Paid(c, o) /\ Dropping(c, o, up, rdy)
    BY <2>2, <2>6 DEF Paid, Dropping
  <2>8. /\ line # << >> /\ Head(line) = r /\ Tail(line) = Tail(q) \o p
        /\ line \in Seq(Requests)
    BY <1>1, <2>1, Fronts, ConcatProperties
  <2> HIDE DEF line, r
  <2>9. /\ line[1] = r /\ 1 \in DOMAIN line
        /\ \A i \in DOMAIN Tail(line) :
             /\ i + 1 \in DOMAIN line /\ i + 1 # 1 /\ i \in Nat
             /\ Tail(line)[i] = line[i + 1] /\ line[i + 1] \in Requests
    BY <2>8
  <2>10. ASSUME NEW i \in DOMAIN Tail(line)
         PROVE  /\ rq[Tail(line)[i]].status = "queued"
                /\ rq[Tail(line)[i]].pending = Requested
                /\ Tail(line)[i] # r /\ crq[Tail(line)[i]] = rq[Tail(line)[i]]
    <3>1. line[i + 1] # r
      BY <1>4, <2>9 DEF Waiting
    <3> HIDE DEF crq
    <3> QED
      BY <1>4, <2>4, <2>9, <3>1 DEF Waiting
  <2>11. Waiting(c, crq, Tail(line))
    <3>1. ASSUME NEW i \in DOMAIN Tail(line), NEW k \in DOMAIN Tail(line),
                 Tail(line)[i] = Tail(line)[k]
          PROVE  i = k
      <4>1. i + 1 = k + 1
        BY <1>4, <2>9, <3>1 DEF Waiting
      <4> QED
        BY <2>9, <4>1
    <3> HIDE DEF crq, c
    <3> QED
      BY <2>10, <3>1 DEF Waiting
  <2>12. Whole(c, crq)
    <3> HIDE DEF crq, c
    <3>1. d.state # "Stopped"
      BY <2>1
    <3> QED
      BY <1>4, <2>4, <2>5, <3>1 DEF Whole
  <2>13. c.requestQueue \o p = Tail(line)
    BY <2>2, <2>8
  <2>14. Waiting(c, crq, c.requestQueue \o p)
    BY <2>11, <2>13
  <2>15. d.state = "IpaComplete" /\ c.state = "Idle" /\ c.bayerQueue = d.bayerQueue
    BY <2>1, <2>2
  <2> HIDE DEF c, crq, up
  <2> QED
    BY <1>5, <2>7, <2>12, <2>14, <2>15 DEF c, crq, o, up
<1>7. CASE ~Completes(d, rq) /\ Drops(d)
  <2>1. /\ d.state = "IpaComplete" /\ d.dropFrameCount # 0 /\ d.ispOutputCount = 3
        /\ Working(d)
    BY <1>7 DEF Drops, Working
  <2>2. /\ c.state = "Idle" /\ c.bayerQueue = d.bayerQueue /\ c.requestQueue = q
        /\ crq = rq
    BY <1>1, <1>7 DEF CheckedData, CheckedRequests, DataType
  <2>3. ~up
    BY <2>1, NothingSent DEF Context
  <2>4. \A s \in IspStreams : o[s] = 0
    <3> HIDE DEF o, up
    <3>1. o["Output0"] = 0 /\ o["Output1"] = 0 /\ o["Stats"] = 0
      <4>1. 3 + o["Output0"] + o["Output1"] + o["Stats"] = 3
        BY <1>4, <2>1, <2>3 DEF Dropping
      <4>2. o["Output0"] \in Nat /\ o["Output1"] \in Nat /\ o["Stats"] \in Nat
        BY <1>3 DEF IspStreams, IspOutputs
      <4> QED
        BY <4>1, <4>2
    <3>2. o["Input"] = 0
      <4>1. o["Input"] \in Nat /\ o["Input"] <= 1
        BY <1>3, <1>4 DEF Paid, IspStreams
      <4>2. o["Input"] # 1
        BY <1>4, <2>1, <3>1 DEF Dropping, IspOutputs
      <4> QED
        BY <4>1, <4>2
    <3> QED
      BY <3>1, <3>2 DEF IspStreams, IspOutputs
  <2> HIDE DEF c, crq, o, up
  <2>5. Paid(c, o) /\ Dropping(c, o, up, rdy)
    BY <2>2, <2>4 DEF Paid, Dropping, Working, IspStreams, IspOutputs
  <2>6. Waiting(c, crq, c.requestQueue \o p) /\ Whole(c, crq)
    BY <1>4, <2>1, <2>2 DEF Waiting, Whole
  <2> QED
    BY <1>5, <2>1, <2>2, <2>5, <2>6 DEF c, crq, o, up
<1>8. CASE ~Completes(d, rq) /\ ~Drops(d)
  <2>1. c = d /\ crq = rq
    BY <1>8 DEF CheckedData, CheckedRequests
  <2> QED
    BY <2>1
<1> QED
  BY <1>6, <1>7, <1>8

\* So does tryRunPipeline, which sends the next frame to the IPA.
LEMMA RanSound ==
    ASSUME NEW c, NEW rq, NEW t, NEW m, NEW j, NEW f, NEW n, NEW rdy, NEW p, NEW ip,
           Context(c, rq, t, m, j, f, n, rdy, p),
           Sound(c, rq, t, m, j, f, n, rdy, p, ip), CanRun(c)
    PROVE  Sound(TryRunPipeline(c), rq, Append(t, IspPrepare(c)), m, j, f, n, rdy, p, ip)
<1> DEFINE e == TryRunPipeline(c)
           h == IspPrepare(c)
           u == Append(t, h)
           o == Owed(t, m, j, f, n)
           o2 == Owed(u, m, j, f, n)
           line == c.requestQueue \o p
<1>1. /\ c \in DataType /\ c.state = "Idle" /\ c.requestQueue # << >>
      /\ c.bayerQueue # << >> /\ c.embeddedQueue # << >>
      /\ t = << >> /\ m = << >> /\ p \in Seq(Requests)
      /\ c.requestQueue \in Seq(Requests)
      /\ c.bayerQueue \in Seq(Frames) /\ c.embeddedQueue \in Seq(Frames)
  BY DEF Context, CanRun, DataType
<1>2. /\ Paid(c, o) /\ Dropping(c, o, Upstream(t, m), rdy) /\ Waiting(c, rq, line)
      /\ Stamped(j, n, Upstream(t, m), ip) /\ InIpa(c, t, m, n, ip)
      /\ Whole(c, rq)
  BY DEF Sound
<1>3. /\ Tail(c.bayerQueue) \in Seq(Frames) /\ Tail(c.embeddedQueue) \in Seq(Frames)
      /\ Head(c.bayerQueue) = c.bayerQueue[1] /\ 1 \in DOMAIN c.bayerQueue
      /\ Head(c.embeddedQueue) \in Frames
  BY <1>1, Taken
<1>4. /\ e \in DataType /\ e.state = "Busy" /\ e.dropFrameCount = c.dropFrameCount
      /\ e.requestQueue = c.requestQueue /\ e.bayerQueue = Tail(c.bayerQueue)
  <2>1. e = [c EXCEPT !.state = "Busy", !.bayerQueue = Tail(@),
                      !.embeddedQueue = Tail(@)]
    BY DEF TryRunPipeline
  <2> QED
    BY <1>1, <1>3, <2>1 DEF DataType
<1> HIDE DEF e
<1>5. /\ h.type = "signalIspPrepare" /\ h.bayer = c.bayerQueue[1]
      /\ h.embedded # Null
  <2>1. Null \notin Frames
    BY RPiAssumption DEF RPiAssumption, Frames, Buffers
  <2> QED
    BY <1>3, <2>1 DEF IspPrepare
<1> HIDE DEF h
<1>6. u = <<h>> /\ DOMAIN u = {1} /\ u[1] = h
  BY <1>1
<1> HIDE DEF u
<1>7. Upstream(u, m) /\ ~Upstream(t, m)
  BY <1>1, <1>5, <1>6, NothingSent DEF Upstream, HasType
<1>8. ASSUME NEW s \in IspStreams
      PROVE  /\ o2[s] = o[s] + 1 /\ o[s] \in Nat
             /\ o[s] = 0 => n[s] = << >>
  <2>1. /\ j \in Seq(Frames) /\ (j = << >> => f = {})
        /\ n \in [Streams -> Seq(Frames)]
    BY DEF Context
  <2>2. /\ o[s] = ToSend(t, m) + InIsp(j, f, s) + Len(n[s])
        /\ o2[s] = ToSend(u, m) + InIsp(j, f, s) + Len(n[s])
    BY OwedSum
  <2>3. InIsp(j, f, s) \in Nat /\ Len(n[s]) \in Nat /\ (n[s] = << >> <=> Len(n[s]) = 0)
    BY <2>1, OwedParts
  <2>4. ToSend(u, m) = 1 /\ ToSend(t, m) = 0
    BY <1>7 DEF ToSend
  <2> HIDE DEF o, o2
  <2> QED
    BY <2>2, <2>3, <2>4
<1>9. /\ o["Input"] = 0 /\ o["Output0"] = 0
      /\ o2["Input"] = 1 /\ o2["Output0"] = 1
      /\ n["Input"] = << >> /\ n["Output0"] = << >>
  BY <1>1, <1>2, <1>8 DEF Paid, IspStreams, IspOutputs
<1> HIDE DEF o, o2
<1>10. Paid(e, o2)
  BY <1>4, <1>9 DEF Paid
<1>11. Dropping(e, o2, Upstream(u, m), rdy)
  <2>1. ASSUME e.dropFrameCount # 0, NEW s \in IspStreams  PROVE o2[s] = 1
    <3>1. o[s] = 0
      BY <1>1, <1>2, <1>4, <2>1 DEF Dropping
    <3> QED
      BY <1>8, <3>1
  <2>2. "Output0" \notin rdy
    BY <1>9 DEF Context
  <2> QED
    BY <1>4, <1>7, <1>9, <2>1, <2>2 DEF Dropping, IspOutputs
<1>12. /\ line # << >> /\ Head(line) = Head(c.requestQueue) /\ line \in Seq(Requests)
  BY <1>1, Fronts, ConcatProperties
<1> HIDE DEF line
<1>13. \A i \in DOMAIN line : rq[line[i]].pending = Requested
  BY <1>1, <1>2 DEF Waiting, Working
<1>14. Waiting(e, rq, line)
  BY <1>2, <1>13 DEF Waiting
<1>15. FirstHas(e, rq, o2, ip)
  <2>1. 1 \in DOMAIN line /\ line[1] = Head(c.requestQueue)
    BY <1>12
  <2> QED
    BY <1>4, <1>13, <2>1 DEF FirstHas
<1>16. Stamped(j, n, Upstream(u, m), ip)
  BY <1>7, <1>9 DEF Stamped
<1>17. InIpa(e, u, m, n, ip)
  <2>1. \A i \in DOMAIN Tail(c.bayerQueue) :
          i + 1 \in DOMAIN c.bayerQueue /\ Tail(c.bayerQueue)[i] = c.bayerQueue[i + 1]
    BY <1>1
  <2>2. \A i \in DOMAIN e.bayerQueue : e.bayerQueue[i].frame # NoFrame
    BY <1>2, <1>4, <2>1 DEF InIpa
  <2>3. h.bayer.frame # NoFrame
    BY <1>2, <1>3, <1>5 DEF InIpa
  <2> QED
    BY <1>2, <1>4, <1>5, <1>6, <2>2, <2>3 DEF InIpa
<1>18. Whole(e, rq)
  BY <1>1, <1>2, <1>4 DEF Whole
<1>19. e.requestQueue \o p = line
  BY <1>4 DEF line
<1> QED
  BY <1>10, <1>11, <1>14, <1>15, <1>16, <1>17, <1>18, <1>19 DEF Sound, e, u, h, o2

\* Every handler ends with both, and what it leaves of the rest is what it found.
LEMMA HandledSound ==
    ASSUME NEW d, NEW rq, NEW t,
           Context(d, rq, t, messages', jobs', finished', done', ready', posted'),
           Sound(d, rq, t, messages', jobs', finished', done', ready', posted',
                 ipaFrame'),
           HandleState(d, rq, t), d.state # "Stopped", Resting, finished' = finished
    PROVE  FramesInv'
<1> DEFINE c == CheckedData(d, rq)
           crq == CheckedRequests(d, rq)
           m1 == messages'
           j1 == jobs'
           f1 == finished'
           n1 == done'
           y1 == ready'
           p1 == posted'
           i1 == ipaFrame'
<1>1. /\ data' = TryRunPipeline(c) /\ request' = crq
      /\ toIpa' = IF CanRun(c) THEN Append(t, IspPrepare(c)) ELSE t
  BY DEF HandleState
<1>2. Resting'
  <2>1. /\ d \in DataType /\ rq \in [Requests -> RequestType]
        /\ d.state = "IpaComplete" => d.requestQueue # << >>
    BY DEF Context, Working
  <2>2. data'.state # "Stopped"
    BY <2>1, HandleTypes DEF HandleType
  <2> QED
    BY <2>2 DEF Resting
<1>3. /\ Context(d, rq, t, m1, j1, f1, n1, y1, p1)
      /\ Sound(d, rq, t, m1, j1, f1, n1, y1, p1, i1)
  OBVIOUS
<1> HIDE DEF m1, j1, f1, n1, y1, p1, i1
<1>4. /\ Context(c, crq, t, m1, j1, f1, n1, y1, p1)
      /\ Sound(c, crq, t, m1, j1, f1, n1, y1, p1, i1)
  BY <1>3, CheckedSound
<1> HIDE DEF c, crq
<1>5. Sound(data', request', toIpa', m1, j1, f1, n1, y1, p1, i1)
  <2>1. CASE CanRun(c)
    BY <1>1, <1>4, <2>1, RanSound
  <2>2. CASE ~CanRun(c)
    BY <1>1, <1>4, <2>2 DEF TryRunPipeline
  <2> QED
    BY <2>1, <2>2
<1> QED
  BY <1>2, <1>5 DEF FramesInv, m1, j1, f1, n1, y1, p1, i1

\* The parts of FramesInv now.
OwedNow == Owed(toIpa, messages, jobs, finished, done)
UpNow == Upstream(toIpa, messages)
Line == data.requestQueue \o posted

LEMMA FramesParts ==
    FramesInv <=>
      /\ Paid(data, OwedNow) /\ Dropping(data, OwedNow, UpNow, ready)
      /\ Waiting(data, request, Line) /\ FirstHas(data, request, OwedNow, ipaFrame)
      /\ Stamped(jobs, done, UpNow, ipaFrame)
      /\ InIpa(data, toIpa, messages, done, ipaFrame)
      /\ Whole(data, request) /\ Resting
BY DEF FramesInv, Sound, OwedNow, UpNow, Line

LEMMA FramesNext ==
    ASSUME Paid(data', OwedNow'), Dropping(data', OwedNow', UpNow', ready'),
           Waiting(data', request', Line'),
           FirstHas(data', request', OwedNow', ipaFrame'),
           Stamped(jobs', done', UpNow', ipaFrame'),
           InIpa(data', toIpa', messages', done', ipaFrame'),
           Whole(data', request'), Resting'
    PROVE  FramesInv'
BY DEF FramesInv, Sound, OwedNow, UpNow, Line

LEMMA LineNow ==
    ASSUME PipelineInv
    PROVE  /\ Line \in Seq(Requests)
           /\ \A i \in DOMAIN Line : Line[i] \in Requests
           /\ data.requestQueue # << >> =>
                /\ Line # << >> /\ 1 \in DOMAIN Line
                /\ Line[1] = Head(data.requestQueue)
<1>1. data.requestQueue \in Seq(Requests) /\ posted \in Seq(Requests)
  BY Before DEF DataType, PipelineInv, Types
<1>2. Line \in Seq(Requests)
  BY <1>1, ConcatProperties DEF Line
<1>3. data.requestQueue # << >> => Line # << >> /\ Head(Line) = Head(data.requestQueue)
  BY <1>1, Fronts DEF Line
<1> QED
  BY <1>2, <1>3

\* A frame on its way to the ISP is alone but for output 1.
LEMMA OwedUp ==
    ASSUME PipelineInv, FramesInv, UpNow
    PROVE  /\ OwedNow["Input"] = 1 /\ OwedNow["Output0"] = 1
           /\ done["Input"] = << >> /\ done["Output0"] = << >>
<1>1. /\ jobs \in Seq(Frames) /\ (jobs = << >> => finished = {})
      /\ done \in [Streams -> Seq(Frames)]
  BY ContextNow DEF Context
<1>2. ToSend(toIpa, messages) = 1
  BY SendsOne DEF UpNow
<1>3. ASSUME NEW s \in {"Input", "Output0"}
      PROVE  OwedNow[s] = 1 /\ done[s] = << >>
  <2>1. s \in IspStreams
    BY DEF IspStreams, IspOutputs
  <2>2. /\ InIsp(jobs, finished, s) \in Nat /\ Len(done[s]) \in Nat
        /\ done[s] = << >> <=> Len(done[s]) = 0
    BY <1>1, <2>1, OwedParts
  <2>3. OwedNow[s] = 1 + InIsp(jobs, finished, s) + Len(done[s])
    BY <1>2, <2>1, OwedSum DEF OwedNow
  <2>4. OwedNow[s] <= 1
    BY FramesParts DEF Paid
  <2> QED
    BY <2>2, <2>3, <2>4
<1> QED
  BY <1>3

LEMMA NothingOwed ==
    ASSUME NEW n, \A s \in Streams : n[s] = << >>
    PROVE  \A s \in IspStreams : Owed(<< >>, << >>, << >>, {}, n)[s] = 0
<1>1. ToSend(<< >>, << >>) = 0
  BY NothingSent DEF ToSend
<1>2. ASSUME NEW s \in IspStreams PROVE InIsp(<< >>, {}, s) = 0 /\ Len(n[s]) = 0
  <2>1. Len(<< >>) = 0
    OBVIOUS
  <2>2. n[s] = << >>
    BY DEF Streams
  <2> QED
    BY <2>1, <2>2 DEF InIsp
<1> QED
  BY <1>1, <1>2, OwedSum

LEMMA FramesInit == Init => FramesInv
<1> SUFFICES ASSUME Init PROVE FramesInv
  OBVIOUS
<1>1. \A s \in IspStreams : OwedNow[s] = 0
  BY NothingOwed DEF Init, OwedNow
<1>2. /\ data.state = "Stopped" /\ data.dropFrameCount = 0
      /\ data.bayerQueue = << >> /\ data.requestQueue = << >>
  BY DEF Init, StoppedData
<1>3. Paid(data, OwedNow) /\ Dropping(data, OwedNow, UpNow, ready)
  BY <1>1, <1>2 DEF Paid, Dropping, IspStreams, IspOutputs
<1>4. /\ Waiting(data, request, Line) /\ FirstHas(data, request, OwedNow, ipaFrame)
      /\ Whole(data, request)
  <2>1. Line = << >>
    BY <1>2 DEF Init, Line
  <2> QED
    BY <1>2, <2>1 DEF Waiting, FirstHas, Whole, Working
<1>5. /\ Stamped(jobs, done, UpNow, ipaFrame)
      /\ InIpa(data, toIpa, messages, done, ipaFrame)
  BY <1>2 DEF Init, Stamped, InIpa, Streams, IspStreams, IspOutputs
<1>6. Resting
  BY DEF Init, Resting, IspOutputs
<1> QED
  BY <1>3, <1>4, <1>5, <1>6, FramesParts

LEMMA FramesStart ==
    ASSUME PipelineInv, FramesInv, Start PROVE FramesInv'
<1>1. /\ data.state = "Stopped"
      /\ request' = [r \in Requests |-> FreshRequest]
      /\ UNCHANGED <<jobs, finished, done, ready, posted, messages, toIpa, ipaFrame>>
      /\ data'.state = "Idle" /\ data'.requestQueue = << >> /\ data'.bayerQueue = << >>
  BY DEF Start, StoppedData
<1>2. /\ toIpa = << >> /\ messages = << >> /\ posted = << >>
      /\ jobs = << >> /\ finished = {} /\ \A s \in Streams : done[s] = << >>
  BY <1>1, ContextNow, Before, FramesParts DEF Context, Resting
<1>3. \A s \in IspStreams : OwedNow'[s] = 0
  BY <1>1, <1>2, NothingOwed DEF OwedNow
<1>4. Paid(data', OwedNow') /\ Dropping(data', OwedNow', UpNow', ready')
  BY <1>1, <1>3 DEF Paid, Dropping, Working, IspStreams, IspOutputs
<1>5. /\ Waiting(data', request', Line') /\ FirstHas(data', request', OwedNow', ipaFrame')
      /\ Whole(data', request')
  <2>1. Line' = << >>
    BY <1>1, <1>2 DEF Line
  <2> QED
    BY <1>1, <2>1 DEF Waiting, FirstHas, Whole, Working, FreshRequest
<1>6. /\ Stamped(jobs', done', UpNow', ipaFrame')
      /\ InIpa(data', toIpa', messages', done', ipaFrame')
  BY <1>1, <1>2 DEF Stamped, InIpa, Streams, IspStreams, IspOutputs
<1>7. Resting'
  BY <1>1, <1>2 DEF Resting, IspOutputs
<1> QED
  BY <1>4, <1>5, <1>6, <1>7, FramesNext

LEMMA FramesQueueRequest ==
    ASSUME PipelineInv, FramesInv, NEW r \in Requests, QueueRequest(r)
    PROVE  FramesInv'
<1>1. /\ data.state # "Stopped" /\ posted' = Append(posted, r)
      /\ request[r].status # "queued" /\ request \in [Requests -> RequestType]
      /\ request' = [request EXCEPT ![r] =
                       [FreshRequest EXCEPT !.status = "queued",
                                            !.pending = Requested]]
      /\ UNCHANGED <<running, data, stream, jobs, finished, done, ready, messages,
                     toIpa, ipaFrame, frame>>
  BY Before DEF QueueRequest
<1>2. /\ request'[r].status = "queued" /\ request'[r].pending = Requested
      /\ \A x \in Requests : x # r => request'[x] = request[x]
  BY <1>1 DEF FreshRequest
<1>3. /\ Waiting(data, request, Line) /\ FirstHas(data, request, OwedNow, ipaFrame)
      /\ Whole(data, request) /\ Resting
  BY FramesParts
<1>4. Line' = Append(Line, r) /\ Line \in Seq(Requests)
  <2> DEFINE q == data.requestQueue
  <2>1. q \in Seq(Requests) /\ posted \in Seq(Requests)
    BY Before DEF DataType, PipelineInv, Types
  <2> HIDE DEF q
  <2>2. q \o Append(posted, r) = Append(q \o posted, r)
    BY <2>1, Postponed
  <2> QED
    BY <1>1, <2>2, LineNow DEF Line, q
<1>5. /\ Len(Line) \in Nat /\ DOMAIN Line = 1 .. Len(Line)
      /\ DOMAIN Line' = 1 .. Len(Line) + 1
      /\ Line'[Len(Line) + 1] = r
      /\ \A i \in DOMAIN Line : Line'[i] = Line[i] /\ Line[i] \in Requests
  BY <1>4
<1>6. \A i \in DOMAIN Line' : i \in DOMAIN Line \/ (i = Len(Line) + 1 /\ Line'[i] = r)
  BY <1>5
<1>7. \A i \in DOMAIN Line : Line[i] # r /\ request'[Line[i]] = request[Line[i]]
  BY <1>1, <1>2, <1>3, <1>5 DEF Waiting
<1>8. Waiting(data', request', Line')
  <2>1. ASSUME NEW i \in DOMAIN Line', NEW k \in DOMAIN Line', Line'[i] = Line'[k]
        PROVE  i = k
    BY <1>3, <1>5, <1>6, <1>7, <2>1 DEF Waiting
  <2>2. ASSUME NEW i \in DOMAIN Line'
        PROVE  /\ request'[Line'[i]].status = "queued"
               /\ \/ i = 1 /\ Working(data) /\ data.dropFrameCount = 0
                  \/ request'[Line'[i]].pending = Requested
    BY <1>2, <1>3, <1>5, <1>6, <1>7 DEF Waiting
  <2> QED
    BY <1>1, <2>1, <2>2 DEF Waiting, Working
<1>9. FirstHas(data', request', OwedNow, ipaFrame')
  <2>1. ASSUME Working(data)
        PROVE  request'[Head(data.requestQueue)] = request[Head(data.requestQueue)]
    BY <1>7, <2>1, LineNow, Before DEF Working
  <2> QED
    BY <1>1, <1>3, <2>1 DEF FirstHas, Working
<1>10. Whole(data', request')
  BY <1>1, <1>2, <1>3 DEF Whole
<1>11. OwedNow' = OwedNow /\ UpNow' = UpNow
  BY <1>1 DEF OwedNow, UpNow
<1>12. Resting'
  BY <1>1, <1>3 DEF Resting
<1>13. /\ Paid(data', OwedNow') /\ Dropping(data', OwedNow', UpNow', ready')
       /\ Stamped(jobs', done', UpNow', ipaFrame')
       /\ InIpa(data', toIpa', messages', done', ipaFrame')
  BY <1>1, <1>11, FramesParts
<1> QED
  BY <1>8, <1>9, <1>10, <1>11, <1>12, <1>13, FramesNext

LEMMA FramesStop ==
    ASSUME PipelineInv, FramesInv, Stop PROVE FramesInv'
<1>1. /\ data' = StoppedData /\ messages' = << >> /\ toIpa' = << >>
      /\ ready = {} /\ ready' = {} /\ posted' = << >> /\ jobs' = << >>
      /\ finished' = {} /\ done' = [s \in Streams |-> << >>]
      /\ stream' = [s \in Queued |-> StoppedStream]
  BY DEF Stop
<1>2. \A s \in IspStreams : OwedNow'[s] = 0
  BY <1>1, NothingOwed DEF OwedNow
<1>3. /\ data'.state = "Stopped" /\ data'.dropFrameCount = 0
      /\ data'.bayerQueue = << >> /\ data'.requestQueue = << >>
  BY <1>1 DEF StoppedData
<1>4. Paid(data', OwedNow') /\ Dropping(data', OwedNow', UpNow', ready')
  BY <1>2, <1>3 DEF Paid, Dropping, IspStreams, IspOutputs
<1>5. /\ Waiting(data', request', Line') /\ FirstHas(data', request', OwedNow', ipaFrame')
      /\ Whole(data', request')
  <2>1. Line' = << >>
    BY <1>1, <1>3 DEF Line
  <2> QED
    BY <1>3, <2>1 DEF Waiting, FirstHas, Whole, Working
<1>6. /\ Stamped(jobs', done', UpNow', ipaFrame')
      /\ InIpa(data', toIpa', messages', done', ipaFrame')
  BY <1>1, <1>3 DEF Stamped, InIpa, Streams, IspStreams, IspOutputs
<1>7. Resting'
  BY <1>1 DEF Resting, IspOutputs
<1> QED
  BY <1>4, <1>5, <1>6, <1>7, FramesNext

\* A pass of the poll loop finds an input that is owed with an output that is.
LEMMA FramesPoll ==
    ASSUME PipelineInv, FramesInv, Poll PROVE FramesInv'
<1>1. /\ ready' = {s \in Streams : done[s] # << >>} /\ ready' # {}
      /\ UNCHANGED <<running, queued, request, data, stream, jobs, finished, done,
                     posted, messages, toIpa, ipaFrame, frame>>
  BY DEF Poll
<1>2. OwedNow' = OwedNow /\ UpNow' = UpNow /\ Line' = Line
  BY <1>1 DEF OwedNow, UpNow, Line
<1>3. /\ jobs \in Seq(Frames) /\ (jobs = << >> => finished = {})
      /\ done \in [Streams -> Seq(Frames)] /\ finished \in SUBSET IspStreams
  BY ContextNow DEF Context
<1>4. Resting /\ Resting'
  BY <1>1, FramesParts DEF Resting
<1>5. ASSUME data.dropFrameCount # 0, OwedNow["Input"] = 1, "Input" \notin ready'
      PROVE  \E s \in IspOutputs : OwedNow[s] = 1 /\ s \notin ready'
  <2>1. done["Input"] = << >> /\ "Input" \in IspStreams
    BY <1>1, <1>5 DEF Streams, IspStreams
  <2>2. ToSend(toIpa, messages) + InIsp(jobs, finished, "Input") = 1
    <3>1. Len(done["Input"]) = 0 /\ InIsp(jobs, finished, "Input") \in Nat
      BY <1>3, <2>1, OwedParts
    <3>2. ToSend(toIpa, messages) \in {0, 1}
      BY SendsOne
    <3> QED
      BY <1>5, <2>1, <3>1, <3>2, OwedSum DEF OwedNow
  <2>3. PICK s \in IspOutputs :
          ToSend(toIpa, messages) + InIsp(jobs, finished, s) >= 1
    <3>1. Len(jobs) \in Nat
      BY <1>3, Emptied
    <3>2. CASE "Input" \in finished
      <4>1. ToSend(toIpa, messages) + (Len(jobs) - 1) = 1
        BY <2>2, <3>2 DEF InIsp
      <4>2. InIsp(jobs, finished, "Output0") >= Len(jobs) - 1
        BY <3>1 DEF InIsp
      <4>3. ToSend(toIpa, messages) \in {0, 1} /\ InIsp(jobs, finished, "Output0") \in Nat
        BY <1>3, OwedParts, SendsOne DEF IspStreams, IspOutputs
      <4> QED
        BY <3>1, <4>1, <4>2, <4>3 DEF IspOutputs
    <3>3. CASE "Input" \notin finished
      <4>1. PICK s \in IspOutputs : s \notin finished
        BY <1>3, <1>4, <3>3 DEF Resting, IspStreams
      <4>2. InIsp(jobs, finished, s) = InIsp(jobs, finished, "Input")
        BY <3>3, <4>1 DEF InIsp
      <4>3. InIsp(jobs, finished, "Input") \in Nat /\ ToSend(toIpa, messages) \in {0, 1}
        BY <1>3, <2>1, OwedParts, SendsOne
      <4> QED
        BY <2>2, <4>2, <4>3
    <3> QED
      BY <3>2, <3>3
  <2>4. s \in IspStreams /\ OwedNow[s] <= 1
    BY <1>5, FramesParts DEF Dropping, IspStreams
  <2>5. /\ InIsp(jobs, finished, s) \in Nat /\ Len(done[s]) \in Nat
        /\ done[s] = << >> <=> Len(done[s]) = 0
    BY <1>3, <2>4, OwedParts
  <2>6. /\ ToSend(toIpa, messages) \in {0, 1}
        /\ OwedNow[s] = ToSend(toIpa, messages) + InIsp(jobs, finished, s) + Len(done[s])
    BY <2>4, OwedSum, SendsOne DEF OwedNow
  <2>7. OwedNow[s] = 1 /\ done[s] = << >>
    BY <2>3, <2>4, <2>5, <2>6
  <2> QED
    BY <1>1, <2>7
<1>6. Dropping(data', OwedNow', UpNow', ready')
  BY <1>1, <1>2, <1>5, FramesParts DEF Dropping, Working
<1>7. /\ Paid(data', OwedNow') /\ Waiting(data', request', Line')
      /\ FirstHas(data', request', OwedNow', ipaFrame')
      /\ Stamped(jobs', done', UpNow', ipaFrame')
      /\ InIpa(data', toIpa', messages', done', ipaFrame') /\ Whole(data', request')
  BY <1>1, <1>2, FramesParts
<1> QED
  BY <1>4, <1>6, <1>7, FramesNext

\* The IPA.
LEMMA IpaFrames ==
    ASSUME PipelineInv, FramesInv, toIpa # << >>,
           UNCHANGED <<request, data, stream, jobs, finished, done, ready, posted>>,
           UpNow' <=> UpNow,
           UpNow \/ ipaFrame' = ipaFrame,
           InIpa(data, toIpa', messages', done, ipaFrame')
    PROVE  FramesInv' /\ OwedNow' = OwedNow
<1>1. /\ Paid(data, OwedNow) /\ Dropping(data, OwedNow, UpNow, ready)
      /\ Waiting(data, request, Line) /\ FirstHas(data, request, OwedNow, ipaFrame)
      /\ Stamped(jobs, done, UpNow, ipaFrame) /\ Whole(data, request) /\ Resting
  BY FramesParts
<1>2. data.state = "Busy"
  BY IpaMessageTypes
<1>3. OwedNow' = OwedNow /\ Line' = Line /\ UpNow' = UpNow
  <2>1. UpNow' = UpNow
    BY DEF UpNow, Upstream, HasType
  <2>2. ToSend(toIpa', messages') = ToSend(toIpa, messages)
    BY <2>1 DEF ToSend, UpNow
  <2> QED
    BY <2>1, <2>2 DEF OwedNow, Owed, Line
<1>4. ASSUME UpNow
      PROVE  FirstHas(data, request, OwedNow, ipaFrame')
             /\ Stamped(jobs, done, UpNow, ipaFrame')
  <2>1. /\ OwedNow["Input"] = 1 /\ OwedNow["Output0"] = 1
        /\ done["Input"] = << >> /\ done["Output0"] = << >>
    BY <1>4, OwedUp
  <2>2. \A s \in Requested : OwedNow[IspOf(s)] # 0
    BY <2>1 DEF Requested, IspOf
  <2> QED
    BY <1>1, <1>2, <1>4, <2>1, <2>2 DEF FirstHas, Stamped
<1>5. FirstHas(data, request, OwedNow, ipaFrame')
      /\ Stamped(jobs, done, UpNow, ipaFrame')
  BY <1>1, <1>4
<1>6. Resting'
  BY <1>1 DEF Resting
<1>7. /\ Paid(data', OwedNow') /\ Dropping(data', OwedNow', UpNow', ready')
      /\ Waiting(data', request', Line') /\ Whole(data', request')
      /\ FirstHas(data', request', OwedNow', ipaFrame')
      /\ Stamped(jobs', done', UpNow', ipaFrame')
      /\ InIpa(data', toIpa', messages', done', ipaFrame')
  BY <1>1, <1>3, <1>5
<1> QED
  BY <1>3, <1>6, <1>7, FramesNext

LEMMA FramesIpaEmbedded ==
    ASSUME PipelineInv, FramesInv, IpaEmbedded
    PROVE  FramesInv' /\ OwedNow' = OwedNow
<1> DEFINE h == toIpa[1]
           g == toIpa'[1]
<1>1. /\ toIpa # << >> /\ Len(toIpa) = 1 /\ toIpa \in Seq(IpaMessages)
      /\ h.type = "signalIspPrepare" /\ h.embedded # Null
      /\ messages' = Append(messages, [type |-> "embeddedComplete",
                                       embedded |-> h.embedded])
      /\ toIpa' = [toIpa EXCEPT ![1].embedded = Null]
      /\ ipaFrame' = h.bayer.frame
      /\ UNCHANGED <<running, queued, request, data, stream, jobs, finished, done,
                     ready, posted, frame>>
  BY IpaMessageTypes, Before DEF IpaEmbedded, Reply
<1>2. messages = << >>
  <2>1. messages = << >> \/ EmbeddedFirst(messages)
    BY <1>1, IpaMessageTypes
  <2>2. OneJob(data.state, toIpa, messages, jobs, finished, done["Stats"])
    BY Before
  <2> QED
    BY <1>1, <2>1, <2>2 DEF OneJob
<1>3. h \in Prepares /\ DOMAIN toIpa = {1}
  BY <1>1 DEF IpaMessages, Prepares
<1>4. /\ DOMAIN toIpa' = {1} /\ g.type = "signalIspPrepare" /\ g.bayer = h.bayer
      /\ g.embedded = Null
  <2>1. toIpa' = [toIpa EXCEPT ![1] = [h EXCEPT !.embedded = Null]]
    BY <1>1
  <2>2. DOMAIN toIpa' = {1} /\ g = [h EXCEPT !.embedded = Null]
    BY <1>3, <2>1
  <2> HIDE DEF h, g
  <2> QED
    BY <1>3, <2>2 DEF Prepares
<1> DEFINE b == messages'[1]
<1>5. /\ DOMAIN messages' = {1} /\ b.type = "embeddedComplete"
  BY <1>1, <1>2
<1> HIDE DEF h, g, b
<1>6. UpNow /\ UpNow'
  BY <1>1, <1>3, <1>4 DEF UpNow, Upstream, HasType, h, g
<1>7. InIpa(data, toIpa, messages, done, ipaFrame)
  BY FramesParts
<1>8. h.bayer.frame # NoFrame
  BY <1>1, <1>3, <1>7 DEF InIpa, h
<1>9. InIpa(data, toIpa', messages', done, ipaFrame')
  BY <1>1, <1>4, <1>5, <1>7, <1>8 DEF InIpa, h, g, b
<1> QED
  BY <1>1, <1>6, <1>9, IpaFrames

LEMMA FramesIpaPrepared ==
    ASSUME PipelineInv, FramesInv, IpaPrepared
    PROVE  FramesInv' /\ OwedNow' = OwedNow
<1> DEFINE h == toIpa[1]
<1>1. /\ toIpa # << >> /\ DOMAIN toIpa = {1} /\ toIpa' = << >>
      /\ h.type = "signalIspPrepare" /\ h.embedded = Null
      /\ messages' = Append(messages, [type |-> "runIsp", bayer |-> h.bayer])
      /\ data.state = "Busy" /\ messages \in Seq(HandlerMessages)
      /\ UNCHANGED <<running, queued, request, data, stream, jobs, finished, done,
                     ready, posted, ipaFrame, frame>>
  BY IpaMessageTypes, Before DEF IpaPrepared, Reply
<1>2. \A i \in DOMAIN messages : messages[i].type = "embeddedComplete"
  BY <1>1, IpaMessageTypes DEF EmbeddedFirst
<1> DEFINE b == messages'[Len(messages) + 1]
<1>3. /\ Len(messages) \in Nat
      /\ DOMAIN messages' = DOMAIN messages \cup {Len(messages) + 1}
      /\ b.type = "runIsp" /\ b.bayer = h.bayer
      /\ \A i \in DOMAIN messages : messages'[i] = messages[i]
  <2> DEFINE e == [type |-> "runIsp", bayer |-> h.bayer]
  <2>1. messages' = Append(messages, e)
    BY <1>1
  <2>2. e.type = "runIsp" /\ e.bayer = h.bayer
    OBVIOUS
  <2> HIDE DEF e, h
  <2>3. /\ Len(messages) \in Nat /\ b = e
        /\ DOMAIN messages' = DOMAIN messages \cup {Len(messages) + 1}
        /\ \A i \in DOMAIN messages : messages'[i] = messages[i]
    BY <1>1, <2>1
  <2> QED
    BY <2>2, <2>3
<1> HIDE DEF h, b
<1>4. UpNow /\ UpNow'
  BY <1>1, <1>3 DEF UpNow, Upstream, HasType, h, b
<1>5. InIpa(data, toIpa, messages, done, ipaFrame)
  BY FramesParts
<1>6. h.bayer.frame = ipaFrame /\ ipaFrame # NoFrame
  BY <1>1, <1>5 DEF InIpa, h
<1>7. InIpa(data, toIpa', messages', done, ipaFrame')
  BY <1>1, <1>2, <1>3, <1>5, <1>6 DEF InIpa, b
<1> QED
  BY <1>1, <1>4, <1>7, IpaFrames

LEMMA FramesIpaStatReady ==
    ASSUME PipelineInv, FramesInv, IpaStatReady
    PROVE  FramesInv' /\ OwedNow' = OwedNow
<1> DEFINE h == toIpa[1]
<1>1. /\ toIpa # << >> /\ DOMAIN toIpa = {1} /\ toIpa' = << >>
      /\ h.type = "signalStatReady"
      /\ messages' = Append(messages, [type |-> "statsMetadataComplete",
                                       metadata |-> ipaFrame])
      /\ UNCHANGED <<running, queued, request, data, stream, jobs, finished, done,
                     ready, posted, ipaFrame, frame>>
  BY IpaMessageTypes, Before DEF IpaStatReady, Reply
<1>2. messages = << >>
  <2>1. messages = << >> \/ EmbeddedFirst(messages)
    BY <1>1, IpaMessageTypes
  <2>2. OneJob(data.state, toIpa, messages, jobs, finished, done["Stats"])
    BY Before
  <2> QED
    BY <1>1, <2>1, <2>2 DEF OneJob
<1> DEFINE b == messages'[1]
<1>3. DOMAIN messages' = {1} /\ b.type = "statsMetadataComplete" /\ b.metadata = ipaFrame
  BY <1>1, <1>2
<1> HIDE DEF h, b
<1>4. ~UpNow /\ ~UpNow'
  BY <1>1, <1>2, <1>3 DEF UpNow, Upstream, HasType, h, b
<1>5. InIpa(data, toIpa, messages, done, ipaFrame)
  BY FramesParts
<1>6. InIpa(data, toIpa', messages', done, ipaFrame')
  BY <1>1, <1>3, <1>5 DEF InIpa, h, b
<1> QED
  BY <1>1, <1>4, <1>6, IpaFrames

\* The sensor and the ISP.
LEMMA FramesSensorFrame ==
    ASSUME PipelineInv, FramesInv, SensorFrame
    PROVE  FramesInv' /\ OwedNow' = OwedNow
<1> DEFINE taking == {s \in {"Image", "Embedded"} : stream[s].device # << >>}
<1>1. /\ taking # {}
      /\ done' = [s \in Streams |-> IF s \in taking
                                      THEN Append(done[s], Filled(s))
                                      ELSE done[s]]
      /\ UNCHANGED <<running, queued, request, data, jobs, finished, ready,
                     posted, messages, toIpa, ipaFrame>>
  BY DEF SensorFrame
<1>2. /\ done \in [Streams -> Seq(Frames)] /\ frame \in Nat
      /\ done' \in [Streams -> Seq(Frames)]
  BY SensorFrameStep DEF PipelineInv, Types
<1>3. data.state # "Stopped"
  <2>1. Resting
    BY FramesParts
  <2>2. \A s \in taking : s \in Queued
    BY DEF Queued, Streams, IspStreams, IspOutputs
  <2> QED
    BY <1>1, <2>1, <2>2 DEF Resting, StoppedStream
<1>4. \A s \in IspStreams : done'[s] = done[s]
  BY <1>1 DEF Streams, IspStreams, IspOutputs
<1>5. \A i \in DOMAIN done'["Image"] : done'["Image"][i].frame # NoFrame
  <2>1. "Image" \in Streams /\ done["Image"] \in Seq(Frames)
    BY <1>2 DEF Streams
  <2>2. \A i \in DOMAIN done["Image"] : done["Image"][i].frame # NoFrame
    BY FramesParts DEF InIpa
  <2>3. Filled("Image").frame = frame + 1 /\ frame + 1 # NoFrame
    BY <1>2 DEF Filled, NoFrame
  <2>4. \/ done'["Image"] = done["Image"]
        \/ done'["Image"] = Append(done["Image"], Filled("Image"))
    BY <1>1, <2>1
  <2> DEFINE old == done["Image"]
             e == Filled("Image")
  <2> HIDE DEF old, e, taking
  <2>5. \A i \in DOMAIN Append(old, e) : i \in DOMAIN old \/ Append(old, e)[i] = e
    <3>1. old \in Seq(Frames)
      BY <2>1 DEF old
    <3> QED
      BY <3>1
  <2>6. \A i \in DOMAIN old : Append(old, e)[i] = old[i]
    BY <2>1 DEF old
  <2> QED
    BY <2>2, <2>3, <2>4, <2>5, <2>6 DEF old, e
<1> HIDE DEF taking
<1>6. OwedNow' = OwedNow /\ UpNow' = UpNow /\ Line' = Line
  <2>1. UpNow' = UpNow /\ Line' = Line
    BY <1>1 DEF UpNow, Line
  <2>2. ASSUME NEW s \in IspStreams PROVE OwedNow'[s] = OwedNow[s]
    <3>1. /\ OwedNow[s] = ToSend(toIpa, messages) + InIsp(jobs, finished, s) + Len(done[s])
          /\ OwedNow'[s] = ToSend(toIpa', messages') + InIsp(jobs', finished', s)
                             + Len(done'[s])
      BY OwedSum DEF OwedNow
    <3>2. /\ toIpa' = toIpa /\ messages' = messages /\ jobs' = jobs
          /\ finished' = finished /\ done'[s] = done[s]
      BY <1>1, <1>4
    <3> QED
      BY <3>1, <3>2
  <2>3. OwedNow' = OwedNow
    BY <2>2 DEF OwedNow, Owed
  <2> QED
    BY <2>1, <2>3
<1>7. /\ Stamped(jobs', done', UpNow', ipaFrame')
      /\ InIpa(data', toIpa', messages', done', ipaFrame')
  <2>1. done'["Input"] = done["Input"] /\ done'["Output0"] = done["Output0"]
    BY <1>4 DEF IspStreams, IspOutputs
  <2> QED
    BY <1>1, <1>5, <1>6, <2>1, FramesParts DEF Stamped, InIpa
<1>8. Resting'
  BY <1>1, <1>3, FramesParts DEF Resting
<1>9. /\ Paid(data', OwedNow') /\ Dropping(data', OwedNow', UpNow', ready')
      /\ Waiting(data', request', Line') /\ Whole(data', request')
      /\ FirstHas(data', request', OwedNow', ipaFrame')
  BY <1>1, <1>6, FramesParts
<1> QED
  BY <1>6, <1>7, <1>8, <1>9, FramesNext

LEMMA FramesIspFinish ==
    ASSUME PipelineInv, FramesInv, NEW s \in IspStreams, IspFinish(s)
    PROVE  FramesInv' /\ OwedNow' = OwedNow
<1> DEFINE b == [buf |-> IF s = "Input" THEN Head(jobs).buf
                                        ELSE Head(stream[s].device),
                 frame |-> Head(jobs).frame]
<1>1. /\ jobs # << >> /\ s \notin finished /\ JobStep(s)
      /\ finished \cup {s} # IspOutputs
      /\ done' = [done EXCEPT ![s] = Append(@, b)]
      /\ b.frame = Head(jobs).frame
      /\ UNCHANGED <<running, queued, request, data, ready, posted, messages,
                     toIpa, ipaFrame, frame>>
  BY DEF IspFinish
<1> HIDE DEF b
<1>2. /\ jobs \in Seq(Frames) /\ (jobs = << >> => finished = {})
      /\ done \in [Streams -> Seq(Frames)] /\ finished \in SUBSET IspStreams
      /\ s \in Streams
  BY ContextNow DEF Context, Streams
<1>3. /\ Len(jobs) \in Nat /\ Len(jobs) > 0 /\ Head(jobs) = jobs[1]
      /\ Len(Tail(jobs)) = Len(jobs) - 1 /\ Tail(jobs) \in Seq(Frames)
      /\ \A i \in 1 .. Len(jobs) - 1 : Tail(jobs)[i] = jobs[i + 1]
  BY <1>1, <1>2, Taken
<1>4. /\ done[s] \in Seq(Frames) /\ Len(done[s]) \in Nat
      /\ done'[s] = Append(done[s], b) /\ Len(done'[s]) = Len(done[s]) + 1
      /\ \A z \in Streams : z # s => done'[z] = done[z]
      /\ \A i \in DOMAIN done'[s] : \/ i \in DOMAIN done[s] /\ done'[s][i] = done[s][i]
                                    \/ done'[s][i] = b
  <2>1. done[s] \in Seq(Frames) /\ Len(done[s]) \in Nat
    BY <1>2
  <2>2. /\ done'[s] = Append(done[s], b)
        /\ \A z \in Streams : z # s => done'[z] = done[z]
    BY <1>1, <1>2
  <2>3. /\ Len(done'[s]) = Len(done[s]) + 1
        /\ \A i \in DOMAIN done'[s] : \/ i \in DOMAIN done[s] /\ done'[s][i] = done[s][i]
                                      \/ done'[s][i] = b
    <3> DEFINE old == done[s]
    <3>1. old \in Seq(Frames) /\ done'[s] = Append(old, b)
      BY <2>1, <2>2
    <3> HIDE DEF old
    <3>2. /\ Len(Append(old, b)) = Len(old) + 1
          /\ \A i \in DOMAIN Append(old, b) :
               \/ i \in DOMAIN old /\ Append(old, b)[i] = old[i]
               \/ Append(old, b)[i] = b
      BY <3>1
    <3> QED
      BY <3>1, <3>2 DEF old
  <2> QED
    BY <2>1, <2>2, <2>3
<1>5. \A z \in IspStreams :
        InIsp(jobs', finished', z) = InIsp(jobs, finished, z) - (IF z = s THEN 1 ELSE 0)
  <2>1. CASE finished \cup {s} = IspStreams
    <3>1. finished' = {} /\ Len(jobs') = Len(jobs) - 1
      BY <1>1, <1>3, <2>1 DEF JobStep
    <3>2. \A z \in IspStreams : z \in finished <=> z # s
      BY <1>1, <1>2, <2>1
    <3>3. \A z \in IspStreams : InIsp(jobs', finished', z) = Len(jobs) - 1
      BY <1>3, <3>1 DEF InIsp
    <3>4. InIsp(jobs, finished, s) = Len(jobs)
      BY <1>1, <1>3 DEF InIsp
    <3>5. ASSUME NEW z \in IspStreams, z # s
          PROVE  InIsp(jobs, finished, z) = Len(jobs) - 1
      BY <3>2, <3>5 DEF InIsp
    <3> QED
      BY <1>3, <3>3, <3>4, <3>5
  <2>2. CASE finished \cup {s} # IspStreams
    <3>1. finished' = finished \cup {s} /\ jobs' = jobs
      BY <1>1, <2>2 DEF JobStep
    <3>2. \A z \in IspStreams : z \in finished' <=> z \in finished \/ z = s
      BY <3>1
    <3>3. ASSUME NEW z \in IspStreams
          PROVE  InIsp(jobs', finished', z) =
                   InIsp(jobs, finished, z) - (IF z = s THEN 1 ELSE 0)
      <4>1. CASE z = s
        BY <1>1, <1>3, <3>1, <3>2, <4>1 DEF InIsp
      <4>2. CASE z # s
        BY <1>3, <3>1, <3>2, <4>2 DEF InIsp
      <4> QED
        BY <4>1, <4>2
    <3> QED
      BY <3>3
  <2> QED
    BY <2>1, <2>2
<1>6. ASSUME NEW z \in IspStreams
      PROVE  OwedNow'[z] = OwedNow[z]
  <2>1. /\ OwedNow[z] = ToSend(toIpa, messages) + InIsp(jobs, finished, z) + Len(done[z])
        /\ OwedNow'[z] = ToSend(toIpa', messages') + InIsp(jobs', finished', z) + Len(done'[z])
    BY OwedSum DEF OwedNow
  <2>2. /\ InIsp(jobs, finished, z) \in Nat /\ Len(done[z]) \in Nat /\ z \in Streams
    BY <1>2, OwedParts
  <2>3. ToSend(toIpa, messages) \in {0, 1}
    BY SendsOne
  <2>4. ToSend(toIpa', messages') = ToSend(toIpa, messages)
    BY <1>1
  <2>5. CASE z = s
    <3>1. /\ InIsp(jobs', finished', z) = InIsp(jobs, finished, z) - 1
          /\ Len(done'[z]) = Len(done[z]) + 1
      BY <1>4, <1>5, <2>5
    <3> QED
      BY <2>1, <2>2, <2>3, <2>4, <3>1
  <2>6. CASE z # s
    <3>1. InIsp(jobs', finished', z) = InIsp(jobs, finished, z) - 0
      BY <1>5, <2>6
    <3>2. done'[z] = done[z]
      BY <1>4, <2>2, <2>6
    <3> QED
      BY <2>1, <2>2, <2>4, <3>1, <3>2
  <2> QED
    BY <2>5, <2>6
<1>7. OwedNow' = OwedNow /\ UpNow' = UpNow /\ Line' = Line
  <2>1. UpNow' = UpNow /\ Line' = Line
    BY <1>1 DEF UpNow, Line
  <2> QED
    BY <1>6, <2>1 DEF OwedNow, Owed
<1>8. ASSUME s \in {"Input", "Output0"} PROVE b.frame = ipaFrame
  <2>1. OwedNow[s] <= 1
    BY <1>8, FramesParts DEF Paid
  <2>2. /\ OwedNow[s] = ToSend(toIpa, messages) + InIsp(jobs, finished, s) + Len(done[s])
        /\ ToSend(toIpa, messages) \in {0, 1}
        /\ UpNow <=> ToSend(toIpa, messages) = 1
    BY OwedSum, SendsOne DEF OwedNow, UpNow
  <2>3. InIsp(jobs, finished, s) = Len(jobs)
    BY <1>1, <1>3 DEF InIsp
  <2>4. ~UpNow /\ Len(jobs) = 1
    BY <1>3, <1>4, <2>1, <2>2, <2>3
  <2> QED
    BY <1>1, <1>3, <2>4, FramesParts DEF Stamped
<1>9. jobs' # << >> => Len(jobs') \in Nat /\ jobs'[Len(jobs')] = jobs[Len(jobs)]
  <2>1. CASE jobs' = jobs
    BY <1>3, <2>1
  <2>2. CASE jobs' = Tail(jobs)
    <3>1. Tail(jobs) # << >> => Len(Tail(jobs)) # 0
      BY <1>3, Emptied
    <3> QED
      BY <1>3, <2>2, <3>1
  <2> QED
    BY <1>1, <2>1, <2>2 DEF JobStep
<1>10. Stamped(jobs', done', UpNow', ipaFrame')
  <2>1. Stamped(jobs, done, UpNow, ipaFrame)
    BY FramesParts
  <2>2. ASSUME NEW z \in {"Input", "Output0"}, NEW i \in DOMAIN done'[z]
        PROVE  done'[z][i].frame = ipaFrame
    <3>1. z \in Streams
      BY DEF Streams, IspStreams, IspOutputs
    <3> QED
      BY <1>4, <1>8, <2>1, <2>2, <3>1 DEF Stamped
  <2> QED
    BY <1>1, <1>7, <1>9, <2>1, <2>2 DEF Stamped
<1>11. InIpa(data', toIpa', messages', done', ipaFrame')
  <2>1. done'["Image"] = done["Image"]
    BY <1>4 DEF Streams, IspStreams, IspOutputs
  <2> QED
    BY <1>1, <2>1, FramesParts DEF InIpa
<1>12. Resting'
  <2>1. data.state # "Stopped"
    BY <1>1, FramesParts DEF Resting
  <2>2. finished' # IspOutputs
    BY <1>1 DEF JobStep, IspOutputs
  <2> QED
    BY <1>1, <2>1, <2>2 DEF Resting
<1>13. /\ Paid(data', OwedNow') /\ Dropping(data', OwedNow', UpNow', ready')
       /\ Waiting(data', request', Line') /\ Whole(data', request')
       /\ FirstHas(data', request', OwedNow', ipaFrame')
  BY <1>1, <1>7, FramesParts
<1> QED
  BY <1>7, <1>10, <1>11, <1>12, <1>13, FramesNext

\* The handlers: what one leaves before its handleState is sound.
LEMMA HandlerFrames ==
    ASSUME PipelineInv', Resting, finished' = finished,
           NEW d \in DataType, NEW rq \in [Requests -> RequestType],
           NEW t \in Seq(IpaMessages), HandleState(d, rq, t), d.state # "Stopped",
           Working(d) => d.requestQueue # << >>,
           d.state # "Busy" => t = << >> /\ messages' = << >>,
           NEW o, o = Owed(t, messages', jobs', finished', done'),
           NEW up, up = Upstream(t, messages'),
           Paid(d, o), Dropping(d, o, up, ready'),
           Waiting(d, rq, d.requestQueue \o posted'), FirstHas(d, rq, o, ipaFrame'),
           Stamped(jobs', done', up, ipaFrame'),
           InIpa(d, t, messages', done', ipaFrame'), Whole(d, rq)
    PROVE  FramesInv'
<1>1. /\ messages' \in Seq(HandlerMessages) /\ jobs' \in Seq(Frames)
      /\ finished' \in SUBSET IspStreams /\ done' \in [Streams -> Seq(Frames)]
      /\ ready' \in SUBSET Streams /\ posted' \in Seq(Requests)
      /\ \A s \in ready' : done'[s] # << >>
  BY DEF PipelineInv, Types, ReadyDone
<1>2. jobs' = << >> => finished' = {}
  BY DEF PipelineInv, OneFlight, OneJob
<1>3. Context(d, rq, t, messages', jobs', finished', done', ready', posted')
  BY <1>1, <1>2 DEF Context
<1>4. Sound(d, rq, t, messages', jobs', finished', done', ready', posted', ipaFrame')
  BY DEF Sound
<1> QED
  BY <1>3, <1>4, HandledSound

\* What is owed stays when the same is under way.
LEMMA OwedSame ==
    ASSUME NEW t1, NEW m1, NEW j1, NEW f1, NEW n1, NEW t2, NEW m2, NEW j2, NEW f2, NEW n2,
           \A s \in IspStreams : ToSend(t2, m2) + InIsp(j2, f2, s) + Len(n2[s])
                                   = ToSend(t1, m1) + InIsp(j1, f1, s) + Len(n1[s])
    PROVE  Owed(t2, m2, j2, f2, n2) = Owed(t1, m1, j1, f1, n1)
BY DEF Owed

LEMMA FramesQueueRequestDevice ==
    ASSUME PipelineInv, FramesInv, QueueRequestDevice PROVE FramesInv'
<1> DEFINE d == [data EXCEPT !.requestQueue = Append(@, Head(posted))]
<1>1. /\ posted # << >> /\ data.state # "Stopped" /\ posted' = Tail(posted)
      /\ HandleState(d, request, toIpa)
      /\ UNCHANGED <<running, queued, jobs, finished, done, ready, messages,
                     ipaFrame, frame>>
      /\ PipelineInv'
  BY QueueRequestDeviceStep DEF QueueRequestDevice
<1>2. /\ data \in DataType /\ data.requestQueue \in Seq(Requests)
      /\ posted \in Seq(Requests) /\ Head(posted) \in Requests
  BY <1>1, Before, Taken DEF DataType, PipelineInv, Types
<1>3. /\ d \in DataType /\ d.state = data.state /\ d.bayerQueue = data.bayerQueue
      /\ d.dropFrameCount = data.dropFrameCount
      /\ d.ispOutputCount = data.ispOutputCount
      /\ d.requestQueue = Append(data.requestQueue, Head(posted))
  <2>1. Append(data.requestQueue, Head(posted)) \in Seq(Requests)
    BY <1>2, Appended
  <2> QED
    BY <1>2, <2>1 DEF DataType
<1> HIDE DEF d
<1>4. d.requestQueue \o posted' = Line
  BY <1>1, <1>2, <1>3, Moved DEF Line
<1>5. /\ d.requestQueue # << >>
      /\ data.requestQueue # << >> => Head(d.requestQueue) = Head(data.requestQueue)
  <2> DEFINE q == data.requestQueue
             r == Head(posted)
  <2>1. q \in Seq(Requests) /\ r \in Requests
    BY <1>2
  <2> HIDE DEF q, r
  <2>2. Append(q, r) # << >> /\ (q # << >> => Head(Append(q, r)) = Head(q))
    BY <2>1
  <2> QED
    BY <1>3, <2>2 DEF q, r
<1>6. /\ Paid(data, OwedNow) /\ Dropping(data, OwedNow, UpNow, ready)
      /\ Waiting(data, request, Line) /\ FirstHas(data, request, OwedNow, ipaFrame)
      /\ Stamped(jobs, done, UpNow, ipaFrame)
      /\ InIpa(data, toIpa, messages, done, ipaFrame)
      /\ Whole(data, request) /\ Resting
  BY FramesParts
<1>7. Paid(d, OwedNow) /\ Dropping(d, OwedNow, UpNow, ready)
  BY <1>3, <1>6 DEF Paid, Dropping, Working
<1>8. Waiting(d, request, Line) /\ Whole(d, request)
  BY <1>3, <1>6 DEF Waiting, Working, Whole
<1>9. FirstHas(d, request, OwedNow, ipaFrame)
  BY <1>3, <1>5, <1>6, Before DEF FirstHas, Working
<1>10. InIpa(d, toIpa, messages, done, ipaFrame)
  BY <1>3, <1>6 DEF InIpa
<1>11. /\ OwedNow = Owed(toIpa, messages', jobs', finished', done')
       /\ UpNow = Upstream(toIpa, messages')
  BY <1>1 DEF OwedNow, UpNow
<1>12. /\ request \in [Requests -> RequestType] /\ toIpa \in Seq(IpaMessages)
       /\ d.state # "Busy" => toIpa = << >> /\ messages = << >>
  BY <1>3, ContextNow DEF Context
<1>13. /\ messages' = messages /\ ready' = ready /\ ipaFrame' = ipaFrame
       /\ done' = done /\ jobs' = jobs /\ finished' = finished
  BY <1>1
<1> QED
  BY <1>1, <1>3, <1>4, <1>5, <1>6, <1>7, <1>8, <1>9, <1>10, <1>11, <1>12, <1>13,
     HandlerFrames

LEMMA FramesEmbeddedComplete ==
    ASSUME PipelineInv, FramesInv, EmbeddedComplete
    PROVE  /\ FramesInv'
           /\ Owed(toIpa, messages', jobs', finished', done') = OwedNow
<1>1. /\ messages # << >> /\ Head(messages).type = "embeddedComplete"
      /\ messages' = Tail(messages) /\ HandleState(data, request, toIpa)
      /\ UNCHANGED <<running, queued, jobs, finished, done, ready, posted,
                     ipaFrame, frame>>
      /\ PipelineInv'
  BY EmbeddedCompleteStep DEF EmbeddedComplete, Message
<1>2. /\ data \in DataType /\ request \in [Requests -> RequestType]
      /\ toIpa \in Seq(IpaMessages) /\ messages \in Seq(HandlerMessages)
      /\ data.state # "Busy" => toIpa = << >> /\ messages = << >>
      /\ Working(data) => data.requestQueue # << >>
  BY ContextNow DEF Context
<1>3. \A i \in DOMAIN messages' :
        /\ i + 1 \in DOMAIN messages /\ messages'[i] = messages[i + 1]
  BY <1>1, <1>2
<1>4. \A i \in DOMAIN messages :
        \/ messages[i].type = "embeddedComplete"
        \/ i - 1 \in DOMAIN messages' /\ messages'[i - 1] = messages[i]
  <2>1. /\ Head(messages) = messages[1] /\ Len(messages) \in Nat
        /\ DOMAIN messages = 1 .. Len(messages)
        /\ DOMAIN messages' = 1 .. Len(messages) - 1
        /\ \A i \in 1 .. Len(messages) - 1 : messages'[i] = messages[i + 1]
    BY <1>1, <1>2
  <2>2. ASSUME NEW i \in DOMAIN messages, i # 1
        PROVE  i - 1 \in DOMAIN messages' /\ messages'[i - 1] = messages[i]
    <3>1. i - 1 \in 1 .. Len(messages) - 1 /\ (i - 1) + 1 = i
      BY <2>1, <2>2
    <3> QED
      BY <2>1, <3>1
  <2> QED
    BY <1>1, <2>1, <2>2
<1>5. Upstream(toIpa, messages') = UpNow
  <2>1. HasType(messages', "runIsp") <=> HasType(messages, "runIsp")
    BY <1>3, <1>4 DEF HasType
  <2> QED
    BY <2>1 DEF UpNow, Upstream
<1>6. Owed(toIpa, messages', jobs', finished', done') = OwedNow
  <2>1. ToSend(toIpa, messages') = ToSend(toIpa, messages)
    BY <1>5 DEF ToSend, UpNow
  <2>2. jobs' = jobs /\ finished' = finished /\ done' = done
    BY <1>1
  <2> QED
    BY <2>1, <2>2, OwedSame DEF OwedNow
<1>7. InIpa(data, toIpa, messages', done', ipaFrame')
  BY <1>1, <1>3, FramesParts DEF InIpa
<1>8. data.state # "Stopped"
  BY <1>1, <1>2
<1>9. /\ Paid(data, OwedNow) /\ Dropping(data, OwedNow, UpNow, ready')
      /\ Waiting(data, request, data.requestQueue \o posted')
      /\ FirstHas(data, request, OwedNow, ipaFrame')
      /\ Stamped(jobs', done', UpNow, ipaFrame') /\ Whole(data, request) /\ Resting
      /\ finished' = finished
  BY <1>1, FramesParts DEF Line
<1>10. data.state # "Busy" => toIpa = << >> /\ messages' = << >>
  BY <1>1, <1>2
<1> QED
  BY <1>1, <1>2, <1>5, <1>6, <1>7, <1>8, <1>9, <1>10, HandlerFrames

LEMMA FramesRunIsp ==
    ASSUME PipelineInv, FramesInv, RunIsp
    PROVE  /\ FramesInv'
           /\ Owed(toIpa, messages', jobs', finished', done') = OwedNow
<1> DEFINE b == Head(messages).bayer
           d == [data EXCEPT !.ispOutputCount = 0]
           o == Owed(toIpa, messages', jobs', finished', done')
<1>1. /\ messages # << >> /\ Head(messages).type = "runIsp"
      /\ messages' = Tail(messages) /\ jobs' = Append(jobs, b)
      /\ HandleState(d, request, toIpa)
      /\ UNCHANGED <<running, queued, stream, finished, done, ready, posted,
                     ipaFrame, frame>>
      /\ PipelineInv'
  BY RunIspStep DEF RunIsp, Message
<1>2. /\ Head(messages) \in HandlerMessages /\ messages' = << >>
      /\ data.state = "Busy" /\ toIpa = << >>
      /\ Head(messages) = messages[1] /\ 1 \in DOMAIN messages
      /\ jobs \in Seq(Frames) /\ (jobs = << >> => finished = {})
      /\ done \in [Streams -> Seq(Frames)]
  <2>1. messages \in Seq(HandlerMessages)
    BY Before
  <2> QED
    BY <1>1, <2>1, MessageAlone, ContextNow DEF Context
<1>3. b \in Frames
  BY <1>1, <1>2 DEF HandlerMessages
<1>4. InIpa(data, toIpa, messages, done, ipaFrame) /\ b.frame = ipaFrame
  BY <1>1, <1>2, FramesParts DEF InIpa
<1> HIDE DEF b
<1>5. UpNow /\ ~Upstream(toIpa, messages')
  BY <1>1, <1>2, NothingSent DEF UpNow, Upstream, HasType
<1>6. /\ Len(jobs) \in Nat /\ Len(jobs') = Len(jobs) + 1
      /\ jobs'[Len(jobs')] = b /\ jobs' # << >>
  BY <1>1, <1>2, <1>3
<1>7. o = OwedNow
  <2>1. ToSend(toIpa, messages') = 0 /\ ToSend(toIpa, messages) = 1
    BY <1>5 DEF ToSend, UpNow
  <2>2. ASSUME NEW s \in IspStreams
        PROVE  /\ InIsp(jobs', finished', s) = InIsp(jobs, finished, s) + 1
               /\ InIsp(jobs, finished, s) \in Nat
               /\ Len(done'[s]) = Len(done[s]) /\ Len(done[s]) \in Nat
    <3>1. InIsp(jobs, finished, s) \in Nat /\ Len(done[s]) \in Nat
      BY <1>2, OwedParts
    <3>2. InIsp(jobs', finished', s) = InIsp(jobs, finished, s) + 1
      BY <1>1, <1>6 DEF InIsp
    <3> QED
      BY <1>1, <3>1, <3>2
  <2>3. \A s \in IspStreams :
          ToSend(toIpa, messages') + InIsp(jobs', finished', s) + Len(done'[s])
            = ToSend(toIpa, messages) + InIsp(jobs, finished, s) + Len(done[s])
    BY <2>1, <2>2
  <2> QED
    BY <2>3, OwedSame DEF OwedNow
<1>8. /\ d \in DataType /\ d.state = "Busy" /\ d.ispOutputCount = 0
      /\ d.dropFrameCount = data.dropFrameCount
      /\ d.requestQueue = data.requestQueue /\ d.bayerQueue = data.bayerQueue
  BY <1>2, Before DEF DataType
<1> HIDE DEF d, o
<1>9. /\ Paid(data, OwedNow) /\ Dropping(data, OwedNow, UpNow, ready)
      /\ Waiting(data, request, Line) /\ FirstHas(data, request, OwedNow, ipaFrame)
      /\ Stamped(jobs, done, UpNow, ipaFrame) /\ Whole(data, request) /\ Resting
  BY FramesParts
<1>10. Paid(d, OwedNow) /\ Whole(d, request)
  BY <1>2, <1>8, <1>9 DEF Paid, Whole
<1>11. Dropping(d, OwedNow, Upstream(toIpa, messages'), ready')
  <2>1. ASSUME d.dropFrameCount # 0
        PROVE  OwedNow["Output0"] = 1 /\ OwedNow["Output1"] = 1 /\ OwedNow["Stats"] = 1
    <3>1. ASSUME NEW s \in IspStreams PROVE OwedNow[s] = 1
      <4>1. OwedNow[s] <= 1
        BY <1>8, <1>9, <2>1 DEF Dropping
      <4>2. InIsp(jobs, finished, s) \in Nat /\ Len(done[s]) \in Nat
        BY <1>2, OwedParts
      <4>3. OwedNow[s] = 1 + InIsp(jobs, finished, s) + Len(done[s])
        BY <1>5, OwedSum DEF OwedNow, ToSend, UpNow
      <4> QED
        BY <4>1, <4>2, <4>3
    <3> QED
      BY <3>1 DEF IspStreams, IspOutputs
  <2>2. ready' = ready
    BY <1>1
  <2> QED
    BY <1>8, <1>9, <2>1, <2>2 DEF Dropping, Working
<1>12. Waiting(d, request, d.requestQueue \o posted')
  <2>1. d.requestQueue \o posted' = Line
    BY <1>1, <1>8 DEF Line
  <2> QED
    BY <1>2, <1>8, <1>9, <2>1 DEF Waiting, Working
<1>13. FirstHas(d, request, OwedNow, ipaFrame')
  BY <1>1, <1>2, <1>8, <1>9 DEF FirstHas, Working
<1>14. Stamped(jobs', done', Upstream(toIpa, messages'), ipaFrame')
  <2>1. jobs'[Len(jobs')].frame = ipaFrame
    BY <1>4, <1>6
  <2>2. done' = done /\ ipaFrame' = ipaFrame
    BY <1>1
  <2> QED
    BY <1>9, <2>1, <2>2 DEF Stamped
<1>15. InIpa(d, toIpa, messages', done', ipaFrame')
  BY <1>1, <1>2, <1>4, <1>8 DEF InIpa
<1>16. /\ request \in [Requests -> RequestType] /\ toIpa \in Seq(IpaMessages)
       /\ d.requestQueue # << >> /\ finished' = finished
  BY <1>1, <1>2, <1>8, Before
<1> QED
  BY <1>1, <1>7, <1>8, <1>9, <1>10, <1>11, <1>12, <1>13, <1>14, <1>15, <1>16,
     HandlerFrames DEF o

\* The metadata the first request gets are those of its frame.
LEMMA FramesStatsMetadataComplete ==
    ASSUME PipelineInv, FramesInv, StatsMetadataComplete
    PROVE  /\ FramesInv'
           /\ Owed(toIpa, messages', jobs', finished', done') = OwedNow
<1> DEFINE m == Head(messages).metadata
           first == Head(data.requestQueue)
           d == [data EXCEPT !.state = "IpaComplete"]
           rq == [request EXCEPT ![first].metadata = m]
<1>1. /\ messages # << >> /\ Head(messages).type = "statsMetadataComplete"
      /\ messages' = Tail(messages) /\ HandleState(d, rq, toIpa)
      /\ UNCHANGED <<running, queued, jobs, finished, done, ready, posted,
                     ipaFrame, frame>>
      /\ PipelineInv'
  BY StatsMetadataCompleteStep DEF StatsMetadataComplete, Message
<1>2. /\ Head(messages) \in HandlerMessages /\ messages' = << >>
      /\ data.state = "Busy" /\ toIpa = << >> /\ data.requestQueue # << >>
  BY <1>1, MessageAlone, Before
<1>3. /\ Head(messages) = messages[1] /\ DOMAIN messages = {1}
  <2>1. messages \in Seq(HandlerMessages) /\ Len(messages') = 0
    BY <1>2, Before
  <2> QED
    BY <1>1, <2>1
<1>4. InIpa(data, toIpa, messages, done, ipaFrame)
  BY FramesParts
<1>5. m = ipaFrame /\ ipaFrame # NoFrame /\ m \in Nat
  BY <1>1, <1>2, <1>3, <1>4 DEF InIpa, HandlerMessages
<1>6. ~UpNow /\ ~Upstream(toIpa, messages')
  BY <1>1, <1>2, <1>3 DEF UpNow, Upstream, HasType
<1> HIDE DEF m
<1>7. first \in Requests /\ 1 \in DOMAIN Line /\ Line[1] = first
  BY <1>2, Before, Taken, LineNow DEF DataType
<1> HIDE DEF first
<1>8. /\ d \in DataType /\ d.state = "IpaComplete"
      /\ d.requestQueue = data.requestQueue /\ d.bayerQueue = data.bayerQueue
      /\ d.dropFrameCount = data.dropFrameCount
      /\ d.ispOutputCount = data.ispOutputCount
  BY Before DEF DataType
<1>9. /\ rq \in [Requests -> RequestType] /\ rq[first].metadata = ipaFrame
      /\ \A x \in Requests : x # first => rq[x] = request[x]
      /\ rq[first].status = request[first].status
      /\ rq[first].pending = request[first].pending
      /\ rq[first].got = request[first].got
  <2>1. request[first] \in RequestType /\ request \in [Requests -> RequestType]
    BY <1>7, Before
  <2>2. [request[first] EXCEPT !.metadata = m] \in RequestType
    BY <1>5, <2>1 DEF RequestType
  <2> QED
    BY <1>5, <1>7, <2>1, <2>2 DEF RequestType
<1> HIDE DEF d, rq
<1>10. /\ Paid(data, OwedNow) /\ Dropping(data, OwedNow, UpNow, ready)
       /\ Waiting(data, request, Line) /\ FirstHas(data, request, OwedNow, ipaFrame)
       /\ Stamped(jobs, done, UpNow, ipaFrame) /\ Whole(data, request) /\ Resting
  BY FramesParts
<1>11. /\ Owed(toIpa, messages', jobs', finished', done') = OwedNow
       /\ Upstream(toIpa, messages') = UpNow
  <2>1. /\ Upstream(toIpa, messages') = UpNow
        /\ ToSend(toIpa, messages') = ToSend(toIpa, messages)
    BY <1>6 DEF ToSend, UpNow, Upstream, HasType
  <2>2. jobs' = jobs /\ finished' = finished /\ done' = done
    BY <1>1
  <2> QED
    BY <2>1, <2>2, OwedSame DEF OwedNow
<1>12. Paid(d, OwedNow) /\ Dropping(d, OwedNow, UpNow, ready')
  BY <1>1, <1>2, <1>8, <1>10 DEF Paid, Dropping, Working
<1>13. Waiting(d, rq, Line) /\ Line = d.requestQueue \o posted'
  <2>1. \A i \in DOMAIN Line : /\ rq[Line[i]].status = request[Line[i]].status
                               /\ rq[Line[i]].pending = request[Line[i]].pending
    BY <1>9, LineNow
  <2> QED
    BY <1>1, <1>2, <1>8, <1>10, <2>1 DEF Waiting, Working, Line
<1>14. FirstHas(d, rq, OwedNow, ipaFrame')
  <2>1. Head(d.requestQueue) = first /\ Head(data.requestQueue) = first
    BY <1>8 DEF first
  <2> QED
    BY <1>1, <1>2, <1>5, <1>8, <1>9, <1>10, <2>1 DEF FirstHas, Working
<1>15. Whole(d, rq)
  <2>1. rq[first].status = "queued"
    BY <1>7, <1>9, <1>10 DEF Waiting
  <2> QED
    BY <1>2, <1>9, <1>10, <2>1 DEF Whole
<1>16. InIpa(d, toIpa, messages', done', ipaFrame')
  BY <1>1, <1>2, <1>4, <1>8 DEF InIpa
<1>17. /\ d.requestQueue # << >> /\ d.state # "Stopped" /\ toIpa \in Seq(IpaMessages)
       /\ finished' = finished /\ Stamped(jobs', done', UpNow, ipaFrame')
  BY <1>1, <1>2, <1>8, <1>10, Before
<1> QED
  BY <1>1, <1>2, <1>8, <1>9, <1>10, <1>11, <1>12, <1>13, <1>14, <1>15, <1>16, <1>17,
     HandlerFrames

\* What a buffer dequeued leaves: nothing new, and one less owed of its stream.
LEMMA DequeueFrames ==
    ASSUME PipelineInv, FramesInv, NEW s \in Streams, Dequeue(s),
           UNCHANGED <<jobs, finished, messages, ipaFrame>>
    PROVE  /\ ready' = ready \ {s} /\ data.state # "Stopped"
           /\ \A z \in Streams : z # s => done'[z] = done[z]
           /\ \A i \in DOMAIN done'["Image"] : done'["Image"][i].frame # NoFrame
           /\ Stamped(jobs', done', UpNow, ipaFrame')
<1>1. /\ s \in ready /\ ready' = ready \ {s}
      /\ done[s] # << >> /\ done[s] \in Seq(Frames) /\ done'[s] = Tail(done[s])
      /\ \A z \in Streams : z # s => done'[z] = done[z]
  BY DequeueTypes DEF Dequeue
<1>2. \A z \in Streams : \A i \in DOMAIN done'[z] :
        \E k \in DOMAIN done[z] : done'[z][i] = done[z][k]
  <2>1. ASSUME NEW i \in DOMAIN done'[s]
        PROVE  i + 1 \in DOMAIN done[s] /\ done'[s][i] = done[s][i + 1]
    <3> DEFINE old == done[s]
    <3>1. old \in Seq(Frames) /\ old # << >> /\ i \in DOMAIN Tail(old)
      BY <1>1
    <3> HIDE DEF old
    <3>2. i + 1 \in DOMAIN old /\ Tail(old)[i] = old[i + 1]
      BY <3>1
    <3> QED
      BY <1>1, <3>2 DEF old
  <2> QED
    BY <1>1, <2>1
<1>3. /\ "Image" \in Streams /\ "Input" \in Streams /\ "Output0" \in Streams
      /\ Stamped(jobs, done, UpNow, ipaFrame) /\ Resting
      /\ InIpa(data, toIpa, messages, done, ipaFrame)
  BY FramesParts DEF Streams, IspStreams, IspOutputs
<1>4. data.state # "Stopped"
  BY <1>1, <1>3 DEF Resting
<1>5. \A i \in DOMAIN done'["Image"] : done'["Image"][i].frame # NoFrame
  BY <1>2, <1>3 DEF InIpa
<1>6. Stamped(jobs', done', UpNow, ipaFrame')
  <2>1. ASSUME NEW z \in {"Input", "Output0"}, NEW i \in DOMAIN done'[z]
        PROVE  done'[z][i].frame = ipaFrame
    BY <1>2, <1>3, <2>1 DEF Stamped
  <2> QED
    BY <1>3, <2>1 DEF Stamped
<1> QED
  BY <1>1, <1>4, <1>5, <1>6

LEMMA DequeueOwed ==
    ASSUME PipelineInv, NEW s \in Streams, Dequeue(s),
           UNCHANGED <<jobs, finished, messages>>,
           NEW t, Upstream(t, messages) = UpNow,
           NEW o, o = Owed(t, messages', jobs', finished', done')
    PROVE  \A z \in IspStreams :
             /\ OwedNow[z] \in Nat /\ o[z] \in Nat
             /\ z # s => o[z] = OwedNow[z]
             /\ z = s => o[z] = OwedNow[z] - 1
<1>1. /\ jobs \in Seq(Frames) /\ (jobs = << >> => finished = {})
      /\ done \in [Streams -> Seq(Frames)]
  BY ContextNow DEF Context
<1>2. /\ done' \in [Streams -> Seq(Frames)] /\ Len(done'[s]) = Len(done[s]) - 1
      /\ \A z \in Streams : z # s => done'[z] = done[z]
  BY DequeueTypes
<1>3. ToSend(t, messages') = ToSend(toIpa, messages)
  BY DEF ToSend, UpNow
<1>4. ASSUME NEW z \in IspStreams
      PROVE  /\ OwedNow[z] = ToSend(toIpa, messages) + InIsp(jobs, finished, z) + Len(done[z])
             /\ o[z] = ToSend(toIpa, messages) + InIsp(jobs, finished, z) + Len(done'[z])
             /\ InIsp(jobs, finished, z) \in Nat /\ Len(done[z]) \in Nat
             /\ Len(done'[z]) \in Nat /\ z \in Streams
             /\ ToSend(toIpa, messages) \in {0, 1}
  <2>1. /\ jobs' = jobs /\ finished' = finished
    OBVIOUS
  <2>2. /\ OwedNow[z] = ToSend(toIpa, messages) + InIsp(jobs, finished, z) + Len(done[z])
        /\ o[z] = ToSend(t, messages') + InIsp(jobs', finished', z) + Len(done'[z])
    BY OwedSum DEF OwedNow
  <2>3. /\ InIsp(jobs, finished, z) \in Nat /\ Len(done[z]) \in Nat /\ z \in Streams
    BY <1>1, OwedParts
  <2>4. Len(done'[z]) \in Nat
    BY <1>1, <1>2, <2>3, Emptied
  <2> QED
    BY <1>3, <2>1, <2>2, <2>3, <2>4, SendsOne
<1>5. ASSUME NEW z \in IspStreams
      PROVE  /\ OwedNow[z] \in Nat /\ o[z] \in Nat
             /\ z # s => o[z] = OwedNow[z]
             /\ z = s => o[z] = OwedNow[z] - 1
  <2>1. z # s => Len(done'[z]) = Len(done[z])
    BY <1>2, <1>4
  <2>2. z = s => Len(done'[z]) = Len(done[z]) - 1
    BY <1>2
  <2>3. OwedNow[z] \in Nat /\ o[z] \in Nat
    BY <1>4
  <2>4. z # s => o[z] = OwedNow[z]
    BY <1>4, <2>1
  <2>5. z = s => o[z] = OwedNow[z] - 1
    <3>1. z = s => o[z] = ToSend(toIpa, messages) + InIsp(jobs, finished, z)
                            + (Len(done[z]) - 1)
      BY <1>4, <2>2
    <3> DEFINE a == ToSend(toIpa, messages)
               c == InIsp(jobs, finished, z)
               n == Len(done[z])
    <3>2. /\ a \in Nat /\ c \in Nat /\ n \in Nat /\ OwedNow[z] = a + c + n
          /\ z = s => o[z] = a + c + (n - 1)
      BY <1>4, <3>1
    <3> HIDE DEF a, c, n
    <3> QED
      BY <3>2
  <2> QED
    BY <2>3, <2>4, <2>5
<1> QED
  BY <1>5

LEMMA FramesUnicamBufferDequeue ==
    ASSUME PipelineInv, FramesInv, NEW s \in {"Image", "Embedded"},
           UnicamBufferDequeue(s)
    PROVE  FramesInv'
<1> DEFINE b == Head(done[s])
           d == IF s = "Image"
                  THEN [data EXCEPT !.bayerQueue = Append(@, b)]
                  ELSE [data EXCEPT !.embeddedQueue = Append(@, b)]
<1>1. /\ Dequeue(s) /\ HandleState(d, request, toIpa)
      /\ UNCHANGED <<running, queued, stream, jobs, finished, posted, messages,
                     ipaFrame, frame>>
      /\ PipelineInv'
  BY UnicamBufferDequeueStep DEF UnicamBufferDequeue
<1>2. s \in Streams /\ s \notin IspStreams
  BY DEF Streams, IspStreams, IspOutputs
<1>3. /\ b \in Frames /\ ready' = ready \ {s} /\ data.state # "Stopped"
      /\ \A z \in Streams : z # s => done'[z] = done[z]
      /\ \A i \in DOMAIN done'["Image"] : done'["Image"][i].frame # NoFrame
      /\ Stamped(jobs', done', UpNow, ipaFrame')
  BY <1>1, <1>2, DequeueTypes, DequeueFrames
<1>4. s = "Image" => b.frame # NoFrame
  <2>1. done[s] # << >> /\ done[s] \in Seq(Frames)
    BY <1>1, <1>2, DequeueTypes
  <2>2. 1 \in DOMAIN done[s] /\ b = done[s][1]
    BY <2>1
  <2> QED
    BY <2>2, FramesParts DEF InIpa
<1> HIDE DEF b
<1>5. /\ d \in DataType /\ d.state = data.state
      /\ d.requestQueue = data.requestQueue /\ d.dropFrameCount = data.dropFrameCount
      /\ d.ispOutputCount = data.ispOutputCount
      /\ d.bayerQueue \in {data.bayerQueue, Append(data.bayerQueue, b)}
      /\ s # "Image" => d.bayerQueue = data.bayerQueue
  <2>1. /\ Append(data.bayerQueue, b) \in Seq(Frames)
        /\ Append(data.embeddedQueue, b) \in Seq(Frames)
    BY <1>3, Before, Appended DEF DataType
  <2> QED
    BY <2>1, Before DEF DataType
<1> HIDE DEF d
<1>6. /\ Paid(data, OwedNow) /\ Dropping(data, OwedNow, UpNow, ready)
      /\ Waiting(data, request, Line) /\ FirstHas(data, request, OwedNow, ipaFrame)
      /\ InIpa(data, toIpa, messages, done, ipaFrame)
      /\ Whole(data, request) /\ Resting
  BY FramesParts
<1>7. \A i \in DOMAIN d.bayerQueue : d.bayerQueue[i].frame # NoFrame
  <2> DEFINE old == data.bayerQueue
  <2>1. old \in Seq(Frames) /\ \A i \in DOMAIN old : old[i].frame # NoFrame
    BY <1>6, Before DEF DataType, InIpa
  <2> HIDE DEF old
  <2>2. ASSUME b.frame # NoFrame
        PROVE  \A i \in DOMAIN Append(old, b) : Append(old, b)[i].frame # NoFrame
    <3>1. \A i \in DOMAIN Append(old, b) :
            \/ i \in DOMAIN old /\ Append(old, b)[i] = old[i]
            \/ Append(old, b)[i] = b
      BY <2>1
    <3> QED
      BY <2>1, <2>2, <3>1
  <2> QED
    BY <1>4, <1>5, <2>1, <2>2 DEF old
<1>8. InIpa(d, toIpa, messages', done', ipaFrame')
  BY <1>1, <1>3, <1>5, <1>6, <1>7 DEF InIpa
<1>9. /\ Owed(toIpa, messages', jobs', finished', done') = OwedNow
      /\ Upstream(toIpa, messages') = UpNow
  <2>1. \A z \in IspStreams : done'[z] = done[z]
    BY <1>2, <1>3 DEF Streams
  <2>2. messages' = messages /\ jobs' = jobs /\ finished' = finished
    BY <1>1
  <2> QED
    BY <2>1, <2>2, OwedSame DEF OwedNow, UpNow
<1>10. Paid(d, OwedNow) /\ Dropping(d, OwedNow, UpNow, ready')
  <2>1. "Input" \in ready <=> "Input" \in ready'
    BY <1>3
  <2> QED
    BY <1>3, <1>5, <1>6, <2>1 DEF Paid, Dropping, Working
<1>11. /\ Waiting(d, request, d.requestQueue \o posted') /\ Whole(d, request)
       /\ FirstHas(d, request, OwedNow, ipaFrame')
  BY <1>1, <1>5, <1>6 DEF Waiting, Whole, FirstHas, Working, Line
<1>12. /\ request \in [Requests -> RequestType] /\ toIpa \in Seq(IpaMessages)
       /\ d.state # "Busy" => toIpa = << >> /\ messages' = << >>
       /\ Working(d) => d.requestQueue # << >>
       /\ finished' = finished /\ d.state # "Stopped"
  BY <1>1, <1>3, <1>5, ContextNow DEF Context, Working
<1> QED
  BY <1>1, <1>3, <1>5, <1>6, <1>8, <1>9, <1>10, <1>11, <1>12, HandlerFrames

\* The first request gets an image of its frame, and lacked it.
LEMMA CompletedFrames ==
    ASSUME PipelineInv, FramesInv, Working(data), NEW s \in Requested, NEW b,
           OwedNow[IspOf(s)] = 1,
           NEW o, o[IspOf(s)] = 0,
           \A z \in Requested : z # s => o[IspOf(z)] = OwedNow[IspOf(z)],
           NEW rq, rq = Completed(s, b, ipaFrame)
    PROVE  /\ FirstHas(data, rq, o, ipaFrame) /\ Waiting(data, rq, Line)
           /\ Whole(data, rq)
<1> DEFINE first == Head(data.requestQueue)
<1>1. /\ Waiting(data, request, Line) /\ FirstHas(data, request, OwedNow, ipaFrame)
      /\ Whole(data, request)
  BY FramesParts
<1>2. /\ data.requestQueue # << >> /\ request \in [Requests -> RequestType]
      /\ data.requestQueue \in Seq(Requests)
  BY Before DEF Working, DataType
<1>3. first \in Requests /\ 1 \in DOMAIN Line /\ Line[1] = first
  BY <1>2, LineNow, Taken
<1>4. data.dropFrameCount = 0 => s \in request[first].pending
  BY <1>1 DEF FirstHas
<1>5. CASE IsForRequest(s, b)
  <2>1. data.dropFrameCount = 0 /\ b = first
    BY <1>5 DEF IsForRequest
  <2>2. rq = [request EXCEPT ![b].pending = @ \ {s}, ![b].got[s] = ipaFrame]
    BY <1>5 DEF Completed
  <2> HIDE DEF first
  <2>3. /\ \A x \in Requests : x # first => rq[x] = request[x]
        /\ rq[first].pending = request[first].pending \ {s}
        /\ rq[first].status = request[first].status
        /\ rq[first].metadata = request[first].metadata
        /\ rq[first].got = [request[first].got EXCEPT ![s] = ipaFrame]
    <3> DEFINE old == request[first]
    <3>1. old \in RequestType
      BY <1>2, <1>3
    <3>2. rq[first] = [old EXCEPT !.pending = @ \ {s}, !.got[s] = ipaFrame]
      BY <1>2, <1>3, <2>1, <2>2
    <3>3. \A x \in Requests : x # first => rq[x] = request[x]
      BY <1>2, <1>3, <2>1, <2>2
    <3> HIDE DEF old
    <3>4. /\ rq[first].pending = old.pending \ {s}
          /\ rq[first].status = old.status /\ rq[first].metadata = old.metadata
          /\ rq[first].got = [old.got EXCEPT ![s] = ipaFrame]
      BY <3>1, <3>2 DEF RequestType
    <3> QED
      BY <3>3, <3>4 DEF old
  <2>4. /\ rq[first].got[s] = ipaFrame
        /\ \A z \in Requested : z # s => rq[first].got[z] = request[first].got[z]
    <3>1. request[first].got \in [Requested -> Nat]
      BY <1>2, <1>3 DEF RequestType
    <3> QED
      BY <2>3, <3>1
  <2>5. FirstHas(data, rq, o, ipaFrame)
    <3>1. ASSUME NEW z \in Requested, z \notin rq[first].pending
          PROVE  o[IspOf(z)] = 0 /\ rq[first].got[z] = ipaFrame
      <4>1. CASE z = s
        BY <2>4, <4>1
      <4>2. CASE z # s
        <5>1. z \notin request[first].pending
          BY <2>3, <3>1, <4>2
        <5>2. OwedNow[IspOf(z)] = 0 /\ request[first].got[z] = ipaFrame
          BY <1>1, <2>1, <5>1 DEF FirstHas, first
        <5> QED
          BY <2>4, <4>2, <5>2
      <4> QED
        BY <4>1, <4>2
    <3>2. data.state = "IpaComplete" =>
            rq[first].metadata = ipaFrame /\ ipaFrame # NoFrame
      BY <1>1, <2>3 DEF FirstHas, first
    <3> QED
      BY <3>1, <3>2 DEF FirstHas, first
  <2>6. Waiting(data, rq, Line)
    <3>1. \A i \in DOMAIN Line : rq[Line[i]].status = "queued"
      BY <1>1, <2>3, LineNow DEF Waiting
    <3>2. ASSUME NEW i \in DOMAIN Line, i # 1
          PROVE  rq[Line[i]].pending = Requested
      <4>1. Line[i] # first /\ Line[i] \in Requests
        BY <1>1, <1>3, <3>2, LineNow DEF Waiting
      <4>2. request[Line[i]].pending = Requested
        BY <1>1, <3>2 DEF Waiting
      <4> QED
        BY <2>3, <4>1, <4>2
    <3> QED
      BY <1>1, <2>1, <3>1, <3>2 DEF Waiting
  <2>7. Whole(data, rq)
    <3>1. rq[first].status = "queued"
      BY <1>1, <1>3, <2>3 DEF Waiting
    <3> QED
      BY <1>1, <2>3, <3>1 DEF Whole
  <2> QED
    BY <2>5, <2>6, <2>7
<1>6. CASE ~IsForRequest(s, b)
  <2>1. rq = request
    BY <1>6 DEF Completed
  <2> HIDE DEF first
  <2>2. FirstHas(data, rq, o, ipaFrame)
    <3>1. ASSUME NEW z \in Requested, data.dropFrameCount = 0,
                 z \notin request[first].pending
          PROVE  o[IspOf(z)] = 0 /\ request[first].got[z] = ipaFrame
      <4>1. z # s
        BY <1>4, <3>1
      <4>2. OwedNow[IspOf(z)] = 0 /\ request[first].got[z] = ipaFrame
        BY <1>1, <3>1 DEF FirstHas, first
      <4> QED
        BY <4>1, <4>2
    <3> QED
      BY <1>1, <2>1, <3>1 DEF FirstHas, first
  <2> QED
    BY <1>1, <2>1, <2>2
<1> QED
  BY <1>5, <1>6

\* A buffer of the ISP that is dequeued ends what it owed of the stream; the
\* handler works on a frame, and it is of that frame.
LEMMA DequeueIsp ==
    ASSUME PipelineInv, FramesInv, NEW s \in {"Input", "Output0"}, Dequeue(s)
    PROVE  /\ OwedNow[s] = 1 /\ ~UpNow /\ Working(data)
           /\ Head(done[s]).frame = ipaFrame /\ Head(done[s]) \in Frames
<1>1. s \in Streams /\ s \in IspStreams
  BY DEF Streams, IspStreams, IspOutputs
<1>2. done[s] # << >> /\ done[s] \in Seq(Frames) /\ Head(done[s]) \in Frames
  BY <1>1, DequeueTypes
<1>3. /\ jobs \in Seq(Frames) /\ (jobs = << >> => finished = {})
      /\ done \in [Streams -> Seq(Frames)]
  BY ContextNow DEF Context
<1>4. /\ InIsp(jobs, finished, s) \in Nat /\ Len(done[s]) \in Nat
      /\ Len(done[s]) # 0
  BY <1>1, <1>2, <1>3, OwedParts
<1>5. /\ OwedNow[s] = ToSend(toIpa, messages) + InIsp(jobs, finished, s) + Len(done[s])
      /\ ToSend(toIpa, messages) \in {0, 1}
      /\ UpNow <=> ToSend(toIpa, messages) = 1
  BY <1>1, OwedSum, SendsOne DEF OwedNow, UpNow
<1>6. /\ Paid(data, OwedNow) /\ Stamped(jobs, done, UpNow, ipaFrame) /\ Resting
  BY FramesParts
<1>7. OwedNow[s] <= 1
  BY <1>6 DEF Paid
<1>8. OwedNow[s] = 1 /\ ~UpNow
  BY <1>4, <1>5, <1>7
<1>9. data.state # "Stopped" /\ data.state # "Idle"
  BY <1>1, <1>2, <1>6, <1>8 DEF Paid, Resting
<1>10. Working(data)
  BY <1>9, Before DEF Working, DataType
<1>11. Head(done[s]).frame = ipaFrame
  <2>1. 1 \in DOMAIN done[s] /\ Head(done[s]) = done[s][1]
    BY <1>2
  <2> QED
    BY <1>6, <2>1 DEF Stamped
<1> QED
  BY <1>2, <1>8, <1>10, <1>11

LEMMA FramesIspInputDequeue ==
    ASSUME PipelineInv, FramesInv, IspInputDequeue PROVE FramesInv'
<1> DEFINE b == Head(done["Input"])
           rq == Completed("Image", b.buf, b.frame)
           o == Owed(toIpa, messages', jobs', finished', done')
<1>1. /\ Dequeue("Input") /\ HandleState(data, rq, toIpa)
      /\ UNCHANGED <<running, queued, jobs, finished, posted, messages,
                     ipaFrame, frame>>
      /\ PipelineInv'
  BY IspInputDequeueStep DEF IspInputDequeue
<1>2. "Input" \in Streams /\ "Image" \in Requested
  BY DEF Streams, IspStreams, Requested
<1>3. /\ OwedNow["Input"] = 1 /\ ~UpNow /\ Working(data)
      /\ b.frame = ipaFrame /\ b \in Frames
  BY <1>1, DequeueIsp
<1> HIDE DEF b
<1>4. /\ ready' = ready \ {"Input"} /\ data.state # "Stopped"
      /\ \A z \in Streams : z # "Input" => done'[z] = done[z]
      /\ \A i \in DOMAIN done'["Image"] : done'["Image"][i].frame # NoFrame
      /\ Stamped(jobs', done', UpNow, ipaFrame')
  BY <1>1, <1>2, DequeueFrames
<1>5. Upstream(toIpa, messages') = UpNow
  BY <1>1 DEF UpNow
<1>6. \A z \in IspStreams :
        /\ OwedNow[z] \in Nat /\ o[z] \in Nat
        /\ z # "Input" => o[z] = OwedNow[z]
        /\ z = "Input" => o[z] = OwedNow[z] - 1
  BY <1>1, <1>2, <1>5, DequeueOwed DEF UpNow
<1> HIDE DEF o
<1>7. /\ o["Input"] = 0 /\ o["Output0"] = OwedNow["Output0"]
      /\ o["Output1"] = OwedNow["Output1"] /\ o["Stats"] = OwedNow["Stats"]
  BY <1>3, <1>6 DEF IspStreams, IspOutputs
<1>8. rq \in [Requests -> RequestType] /\ rq = Completed("Image", b.buf, ipaFrame)
  BY <1>2, <1>3, CompletedType DEF Frames
<1> HIDE DEF rq
<1>9. /\ Paid(data, OwedNow) /\ Dropping(data, OwedNow, UpNow, ready)
      /\ InIpa(data, toIpa, messages, done, ipaFrame) /\ Resting
  BY FramesParts
<1>10. Paid(data, o) /\ Dropping(data, o, UpNow, ready')
  BY <1>3, <1>7, <1>9 DEF Paid, Dropping, Working, IspStreams, IspOutputs
<1>11. /\ FirstHas(data, rq, o, ipaFrame) /\ Waiting(data, rq, Line)
       /\ Whole(data, rq)
  <2>1. /\ IspOf("Image") = "Input"
        /\ \A z \in Requested : z # "Image" => o[IspOf(z)] = OwedNow[IspOf(z)]
    BY <1>7 DEF Requested, IspOf
  <2> DEFINE buf == b.buf
  <2>2. rq = Completed("Image", buf, ipaFrame)
    BY <1>8
  <2> HIDE DEF buf
  <2> QED
    BY <1>2, <1>3, <1>7, <2>1, <2>2, CompletedFrames
<1>12. InIpa(data, toIpa, messages', done', ipaFrame')
  BY <1>1, <1>4, <1>9 DEF InIpa
<1>13. /\ data \in DataType /\ toIpa \in Seq(IpaMessages)
       /\ data.state # "Busy" => toIpa = << >> /\ messages' = << >>
       /\ Working(data) => data.requestQueue # << >>
       /\ finished' = finished /\ ipaFrame' = ipaFrame
       /\ Line = data.requestQueue \o posted'
  BY <1>1, ContextNow DEF Context, Line
<1> QED
  BY <1>1, <1>4, <1>5, <1>8, <1>9, <1>10, <1>11, <1>12, <1>13, HandlerFrames DEF o

LEMMA StatsAlone ==
    ASSUME PipelineInv, done["Stats"] # << >>
    PROVE  data.state = "Busy" /\ toIpa = << >> /\ messages = << >>
<1> DEFINE n == done["Stats"]
           state == data.state
<1>1. /\ toIpa \in Seq(IpaMessages) /\ messages \in Seq(HandlerMessages)
      /\ jobs \in Seq(Frames) /\ n \in Seq(Frames) /\ n # << >>
      /\ OneJob(state, toIpa, messages, jobs, finished, n)
  BY Before
<1> HIDE DEF n, state
<1>2. state = "Busy" /\ toIpa = << >> /\ messages = << >>
  BY <1>1, OnlyStats
<1> QED
  BY <1>2 DEF state

LEMMA FramesIspOutputDequeue ==
    ASSUME PipelineInv, FramesInv, NEW s \in IspOutputs, IspOutputDequeue(s)
    PROVE  FramesInv'
<1> DEFINE b == Head(done[s])
           d == [data EXCEPT !.ispOutputCount = @ + 1]
           rq == IF s = "Output0" THEN Completed(s, b.buf, b.frame) ELSE request
           t == IF s = "Stats" THEN Append(toIpa, [type |-> "signalStatReady"])
                               ELSE toIpa
           o == Owed(t, messages', jobs', finished', done')
<1>1. /\ Dequeue(s) /\ HandleState(d, rq, t)
      /\ UNCHANGED <<running, queued, jobs, finished, posted, messages,
                     ipaFrame, frame>>
      /\ PipelineInv'
  BY IspOutputDequeueStep DEF IspOutputDequeue
<1>2. s \in Streams /\ s \in IspStreams /\ s # "Image"
  BY DEF Streams, IspStreams, IspOutputs
<1>3. /\ ready' = ready \ {s} /\ data.state # "Stopped" /\ done[s] # << >>
      /\ \A z \in Streams : z # s => done'[z] = done[z]
      /\ \A i \in DOMAIN done'["Image"] : done'["Image"][i].frame # NoFrame
      /\ Stamped(jobs', done', UpNow, ipaFrame')
  BY <1>1, <1>2, DequeueTypes, DequeueFrames
<1>4. s = "Output0" => /\ OwedNow[s] = 1 /\ Working(data)
                       /\ b.frame = ipaFrame /\ b \in Frames
  BY <1>1, DequeueIsp
<1> HIDE DEF b
<1>5. s = "Stats" => /\ data.state = "Busy" /\ toIpa = << >> /\ messages = << >>
                     /\ t = <<[type |-> "signalStatReady"]>>
  BY <1>3, StatsAlone
<1>6. t \in Seq(IpaMessages)
  <2>1. <<[type |-> "signalStatReady"]>> \in Seq(IpaMessages)
    BY DEF IpaMessages
  <2> QED
    BY <1>5, <2>1, Before
<1>7. /\ s = "Stats" => DOMAIN t = {1} /\ t[1].type = "signalStatReady"
      /\ s # "Stats" => t = toIpa
  BY <1>5
<1> HIDE DEF t
<1>8. Upstream(t, messages) = UpNow /\ Upstream(t, messages') = UpNow
  <2>1. HasType(t, "signalIspPrepare") = HasType(toIpa, "signalIspPrepare")
    BY <1>5, <1>7 DEF HasType
  <2> QED
    BY <1>1, <2>1 DEF Upstream, UpNow
<1>9. \A z \in IspStreams :
        /\ OwedNow[z] \in Nat /\ o[z] \in Nat
        /\ z # s => o[z] = OwedNow[z]
        /\ z = s => o[z] = OwedNow[z] - 1
  BY <1>1, <1>2, <1>8, DequeueOwed
<1> HIDE DEF o
<1>10. /\ d \in DataType /\ d.state = data.state
       /\ d.requestQueue = data.requestQueue /\ d.bayerQueue = data.bayerQueue
       /\ d.dropFrameCount = data.dropFrameCount
       /\ data.ispOutputCount \in Nat /\ d.ispOutputCount = data.ispOutputCount + 1
  <2>1. data \in DataType /\ data.ispOutputCount \in Nat
    BY Before DEF DataType
  <2> QED
    BY <2>1 DEF DataType
<1> HIDE DEF d
<1>11. /\ rq \in [Requests -> RequestType]
       /\ s = "Output0" => rq = Completed(s, b.buf, ipaFrame)
       /\ s # "Output0" => rq = request
  BY <1>4, Before, CompletedType DEF Frames, Requested
<1> HIDE DEF rq
<1>12. /\ Paid(data, OwedNow) /\ Dropping(data, OwedNow, UpNow, ready)
       /\ Waiting(data, request, Line) /\ FirstHas(data, request, OwedNow, ipaFrame)
       /\ InIpa(data, toIpa, messages, done, ipaFrame)
       /\ Whole(data, request) /\ Resting
  BY FramesParts
<1>13. Paid(d, o)
  <2>1. ASSUME NEW z \in {"Input", "Output0"}
        PROVE  o[z] <= 1 /\ (d.state = "Idle" => o[z] = 0)
    <3>1. z \in IspStreams
      BY DEF IspStreams, IspOutputs
    <3>2. OwedNow[z] <= 1 /\ (data.state = "Idle" => OwedNow[z] = 0)
      BY <1>12 DEF Paid
    <3>3. o[z] \in Nat /\ OwedNow[z] \in Nat /\ o[z] <= OwedNow[z]
      BY <1>9, <3>1
    <3> QED
      BY <1>10, <3>2, <3>3
  <2> QED
    BY <2>1 DEF Paid
<1>14. ASSUME d.dropFrameCount # 0 PROVE Dropping(d, o, UpNow, ready')
  <2>1. /\ \A z \in IspStreams : OwedNow[z] <= 1 /\ (data.state = "Idle" => OwedNow[z] = 0)
        /\ Working(data) /\ ~UpNow =>
             data.ispOutputCount + OwedNow["Output0"] + OwedNow["Output1"]
               + OwedNow["Stats"] = 3
        /\ OwedNow["Input"] = 1 =>
             \E z \in IspOutputs :
               OwedNow[z] = 1 /\ ("Input" \notin ready => z \notin ready)
    BY <1>10, <1>12, <1>14 DEF Dropping
  <2>2. ASSUME NEW z \in IspStreams
        PROVE  o[z] <= 1 /\ (d.state = "Idle" => o[z] = 0)
    <3>1. OwedNow[z] <= 1 /\ (data.state = "Idle" => OwedNow[z] = 0)
      BY <2>1
    <3>2. o[z] \in Nat /\ OwedNow[z] \in Nat /\ o[z] <= OwedNow[z]
      BY <1>9
    <3> QED
      BY <1>10, <3>1, <3>2
  <2>3. o["Output0"] + o["Output1"] + o["Stats"]
          = OwedNow["Output0"] + OwedNow["Output1"] + OwedNow["Stats"] - 1
    BY <1>9 DEF IspStreams, IspOutputs
  <2>4. ASSUME Working(d), ~UpNow
        PROVE  d.ispOutputCount + o["Output0"] + o["Output1"] + o["Stats"] = 3
    <3>1. data.ispOutputCount + OwedNow["Output0"] + OwedNow["Output1"]
            + OwedNow["Stats"] = 3
      BY <1>10, <2>1, <2>4 DEF Working
    <3>2. /\ \A z \in IspOutputs : OwedNow[z] \in Nat /\ o[z] \in Nat
      BY <1>9 DEF IspStreams
    <3> QED
      BY <1>10, <2>3, <3>1, <3>2 DEF IspOutputs
  <2>5. "Input" \notin ready /\ s \in ready
    <3>1. s \in ready /\ \A z \in ready : Descriptor[s] <= Descriptor[z]
      BY <1>1 DEF Dequeue
    <3>2. ~(Descriptor[s] <= Descriptor["Input"])
      BY DEF Descriptor, IspOutputs
    <3> QED
      BY <3>1, <3>2
  <2>6. ASSUME o["Input"] = 1
        PROVE  \E z \in IspOutputs : o[z] = 1 /\ ("Input" \notin ready' => z \notin ready')
    <3>1. OwedNow["Input"] = 1
      BY <1>9, <2>6 DEF IspStreams, IspOutputs
    <3>2. PICK z \in IspOutputs : OwedNow[z] = 1 /\ z \notin ready
      BY <2>1, <2>5, <3>1
    <3>3. z # s /\ o[z] = 1
      BY <1>9, <2>5, <3>2 DEF IspStreams
    <3> QED
      BY <1>3, <3>2, <3>3
  <2> QED
    BY <2>2, <2>4, <2>6 DEF Dropping
<1>15. Dropping(d, o, UpNow, ready')
  BY <1>14 DEF Dropping
<1>16. /\ FirstHas(data, rq, o, ipaFrame) /\ Waiting(data, rq, Line)
       /\ Whole(data, rq)
  <2>1. o["Input"] = OwedNow["Input"]
    BY <1>9 DEF IspStreams, IspOutputs
  <2>2. CASE s = "Output0"
    <3>1. /\ s \in Requested /\ IspOf(s) = "Output0"
          /\ \A z \in Requested : z # s => IspOf(z) = "Input"
      BY <2>2 DEF Requested, IspOf
    <3>2. /\ OwedNow[IspOf(s)] = 1 /\ o[IspOf(s)] = 0
          /\ \A z \in Requested : z # s => o[IspOf(z)] = OwedNow[IspOf(z)]
      BY <1>2, <1>4, <1>9, <2>1, <2>2, <3>1
    <3> DEFINE buf == b.buf
    <3>3. rq = Completed(s, buf, ipaFrame)
      BY <1>11, <2>2
    <3> HIDE DEF buf
    <3> QED
      BY <1>4, <2>2, <3>1, <3>2, <3>3, CompletedFrames
  <2>3. CASE s # "Output0"
    <3>1. o["Output0"] = OwedNow["Output0"]
      BY <1>9, <2>3 DEF IspStreams, IspOutputs
    <3>2. \A z \in Requested : o[IspOf(z)] = OwedNow[IspOf(z)]
      BY <2>1, <3>1 DEF IspOf
    <3> QED
      BY <1>11, <1>12, <2>3, <3>2 DEF FirstHas
  <2> QED
    BY <2>2, <2>3
<1>17. /\ FirstHas(d, rq, o, ipaFrame') /\ Whole(d, rq)
       /\ Waiting(d, rq, d.requestQueue \o posted')
  <2>1. d.requestQueue \o posted' = Line /\ ipaFrame' = ipaFrame
    BY <1>1, <1>10 DEF Line
  <2> QED
    BY <1>10, <1>16, <2>1 DEF FirstHas, Waiting, Whole, Working
<1>18. InIpa(d, t, messages', done', ipaFrame')
  <2>1. messages' = messages /\ ipaFrame' = ipaFrame
    BY <1>1
  <2>2. CASE s = "Stats"
    <3>1. ipaFrame # NoFrame
      BY <1>5, <1>12, <2>2 DEF InIpa
    <3> QED
      BY <1>3, <1>7, <1>10, <1>12, <2>1, <2>2, <3>1 DEF InIpa
  <2>3. CASE s # "Stats"
    BY <1>3, <1>7, <1>10, <1>12, <2>1, <2>3 DEF InIpa
  <2> QED
    BY <2>2, <2>3
<1>19. /\ d.state # "Busy" => t = << >> /\ messages' = << >>
       /\ Working(d) => d.requestQueue # << >>
       /\ finished' = finished /\ d.state # "Stopped"
  <2>1. /\ data.state # "Busy" => toIpa = << >> /\ messages = << >>
        /\ Working(data) => data.requestQueue # << >>
    BY ContextNow DEF Context
  <2> QED
    BY <1>1, <1>3, <1>5, <1>7, <1>10, <2>1 DEF Working
<1> QED
  BY <1>1, <1>3, <1>6, <1>8, <1>10, <1>11, <1>12, <1>13, <1>15, <1>17, <1>18, <1>19,
     HandlerFrames DEF o

LEMMA FramesStep ==
    ASSUME PipelineInv, FramesInv, [Next]_vars PROVE FramesInv'
<1>1. CASE Start
  BY <1>1, FramesStart
<1>2. ASSUME NEW r \in Requests, QueueRequest(r) PROVE FramesInv'
  BY <1>2, FramesQueueRequest
<1>3. CASE CallStop \/ UNCHANGED vars
  <2>1. UNCHANGED <<request, data, stream, jobs, finished, done, ready, posted,
                    messages, toIpa, ipaFrame>>
    BY <1>3 DEF CallStop, vars
  <2>2. OwedNow' = OwedNow /\ UpNow' = UpNow /\ Line' = Line /\ Resting' = Resting
    BY <2>1 DEF OwedNow, UpNow, Line, Resting
  <2> QED
    BY <2>1, <2>2, FramesParts, FramesNext
<1>4. CASE Handlers
  <2>1. CASE Messages
    BY <2>1, FramesQueueRequestDevice, FramesStop, FramesEmbeddedComplete,
       FramesRunIsp, FramesStatsMetadataComplete DEF Messages
  <2>2. CASE Poll
    BY <2>2, FramesPoll
  <2>3. ASSUME NEW s \in {"Image", "Embedded"}, UnicamBufferDequeue(s)
        PROVE  FramesInv'
    BY <2>3, FramesUnicamBufferDequeue
  <2>4. CASE IspInputDequeue
    BY <2>4, FramesIspInputDequeue
  <2>5. ASSUME NEW s \in IspOutputs, IspOutputDequeue(s) PROVE FramesInv'
    BY <2>5, FramesIspOutputDequeue
  <2> QED
    BY <1>4, <2>1, <2>2, <2>3, <2>4, <2>5 DEF Handlers
<1>5. CASE Ipa
  BY <1>5, FramesIpaEmbedded, FramesIpaPrepared, FramesIpaStatReady DEF Ipa
<1>6. CASE SensorFrame
  BY <1>6, FramesSensorFrame
<1>7. CASE Isp
  BY <1>7, FramesIspFinish DEF Isp
<1> QED
  BY <1>1, <1>2, <1>3, <1>4, <1>5, <1>6, <1>7 DEF Next

\* The parts of a frame reach the first request, or none: the handler sends no
\* other to the IPA before it has dequeued all that the ISP owed of this one.
THEOREM FramesInvariance == Spec => [](PipelineInv /\ FramesInv)
<1>1. Init => PipelineInv /\ FramesInv
  BY InitStep, FramesInit
<1>2. PipelineInv /\ FramesInv /\ [Next]_vars => PipelineInv' /\ FramesInv'
  BY NextStep, FramesStep
<1> QED
  BY <1>1, <1>2, PTL DEF Spec

\* checkRequestCompleted completes a request with the image, the image the ISP
\* made of it and the metadata of one frame of the sensor.
THEOREM FrameSafety == Spec => []OneFrame
<1>1. FramesInv => OneFrame
  BY FramesParts DEF OneFrame, Whole
<1> QED
  BY FramesInvariance, <1>1, PTL

\* runIsp never finds the ISP's input full: of the images it was sent, at most
\* one is not dequeued yet.
THEOREM InputSafety == Spec => []InputFits
<1>1. ASSUME PipelineInv, FramesInv PROVE InputFits
  <2>1. "Input" \in IspStreams /\ OwedNow["Input"] <= 1
    BY <1>1, FramesParts DEF IspStreams, Paid
  <2>2. /\ jobs \in Seq(Frames) /\ (jobs = << >> => finished = {})
        /\ done \in [Streams -> Seq(Frames)]
    BY <1>1, ContextNow DEF Context
  <2>3. InIsp(jobs, finished, "Input") \in Nat /\ Len(done["Input"]) \in Nat
    BY <2>1, <2>2, OwedParts
  <2>4. InIsp(jobs, finished, "Input") + Len(done["Input"]) <= 1
    <3>1. OwedNow["Input"] = ToSend(toIpa, messages)
            + InIsp(jobs, finished, "Input") + Len(done["Input"])
      BY <2>1, OwedSum DEF OwedNow
    <3>2. ToSend(toIpa, messages) \in {0, 1}
      BY SendsOne
    <3> QED
      BY <2>1, <2>3, <3>1, <3>2
  <2>5. BufferCount \in Nat \ {0}
    BY RPiAssumption DEF RPiAssumption
  <2>6. InputFits <=>
          InIsp(jobs, finished, "Input") + Len(done["Input"]) <= BufferCount
    BY DEF InputFits, InIsp
  <2> QED
    BY <2>3, <2>4, <2>5, <2>6
<1> QED
  BY FramesInvariance, <1>1, PTL

-----------------------------------------------------------------------------
(* Buffers. What an external stream has of them, but for its pool, is a chain *)
(* from what the handler takes next to what was queued last: what is ahead of *)
(* the stream, its device, and what waits. Most steps only move a buffer from *)
(* one part of a chain to the next.                                           *)

Slots == Buffers \cup {Null}

Bufs(q) == [i \in DOMAIN q |-> q[i].buf]
Feed(st) == st.device \o st.waiting

\* Images the ISP has not given back, and those on their way to it.
Unread(j, f) == IF "Input" \in f THEN Tail(j) ELSE j
Sending(t, m) ==
    IF m # << >> /\ m[Len(m)].type = "runIsp" THEN <<m[Len(m)].bayer.buf>>
    ELSE IF t # << >> /\ t[1].type = "signalIspPrepare" THEN <<t[1].bayer.buf>>
    ELSE << >>

\* Embedded data the IPA reads or has read.
Reading(t, m) ==
    IF EmbeddedFirst(m) THEN <<m[1].embedded.buf>>
    ELSE IF t # << >> /\ t[1].type = "signalIspPrepare" /\ t[1].embedded # Null
           THEN <<t[1].embedded.buf>>
    ELSE << >>

\* A queue with an element more, and two and more queues in a row.
Added(q, e) == Append(q, e)
Both(a, b) == a \o b
Parts3(a, b, c) == a \o (b \o c)
Parts5(a, b, c, p, q) == a \o (b \o Parts3(c, p, q))

\* Of every external stream, the buffers between its device and the handler's
\* last step on them, those it takes next first.
Ahead(d, t, m, j, f, n) ==
    [Image |-> Parts5(Bufs(n["Input"]), Bufs(Unread(j, f)), Sending(t, m),
                      Bufs(d.bayerQueue), Bufs(n["Image"])),
     Embedded |-> Parts3(Reading(t, m), Bufs(d.embeddedQueue), Bufs(n["Embedded"])),
     Output0 |-> Bufs(n["Output0"])]

Chain(st, h, s) == h[s] \o Feed(st[s])

\* The pool holds buffers of the stream's own, and the rest of them are in the
\* chain.
Pooled(available, chain) ==
    /\ \A i \in DOMAIN available : available[i] = Internal
    /\ Len(available) + Count(chain, Internal) = BufferCount

\* Of a chain, the frame worked on has had its buffer.
Had(d, o, s) == IF Working(d) /\ o[IspOf(s)] = 0 THEN 1 ELSE 0

\* A chain has a buffer, of the stream's own or yet to be chosen, for every
\* frame to be dropped, and then that of each request.
InOrder(drop, queue, k, chain) ==
    /\ Len(chain) + k = drop + Len(queue)
    /\ \A i \in 1 .. Len(chain) :
         IF i + k <= drop THEN chain[i] \in {Internal, Null}
                          ELSE chain[i] = queue[i + k - drop]

\* No request has a buffer of embedded data.
OwnOnly(chain) == \A i \in 1 .. Len(chain) : chain[i] \in {Internal, Null}

StreamKept(d, o, s, available, chain) ==
    /\ Pooled(available, chain)
    /\ s \in Requested =>
         InOrder(d.dropFrameCount, d.requestQueue, Had(d, o, s), chain)
    /\ s = "Embedded" => OwnOnly(chain)

\* A request does not wait for the buffer its frame has had.
Awaited(d, rq, o) ==
    Working(d) /\ d.dropFrameCount = 0 =>
      \A s \in Requested :
        o[IspOf(s)] = 0 => s \notin rq[Head(d.requestQueue)].pending

Kept(d, rq, o, st, h) ==
    /\ \A s \in External :
         StreamKept(d, o, s, st[s].available, Chain(st, h, s))
    /\ Awaited(d, rq, o)

AheadNow == Ahead(data, toIpa, messages, jobs, finished, done)

PoolInv == data.state # "Stopped" => Kept(data, request, OwedNow, stream, AheadNow)

-----------------------------------------------------------------------------
(* Counting.                                                                *)

\* How often a buffer is in a queue is a number, zero if it is nowhere.
LEMMA Counted ==
    ASSUME NEW S, NEW s \in Seq(S), NEW x
    PROVE  /\ IsFiniteSet({i \in DOMAIN s : s[i] = x})
           /\ Count(s, x) \in Nat
           /\ Count(s, x) = 0 <=> \A i \in DOMAIN s : s[i] # x
           /\ (\A i \in DOMAIN s : s[i] = x) => Count(s, x) = Len(s)
<1> DEFINE T == {i \in DOMAIN s : s[i] = x}
<1>1. DOMAIN s = 1 .. Len(s) /\ Len(s) \in Nat
  OBVIOUS
<1>2. IsFiniteSet(1 .. Len(s)) /\ Cardinality(1 .. Len(s)) = Len(s)
  <2>1. Cardinality(1 .. Len(s)) = IF 1 > Len(s) THEN 0 ELSE Len(s) - 1 + 1
    BY <1>1, FS_Interval
  <2> QED
    BY <1>1, <2>1, FS_Interval
<1>3. T \in SUBSET (1 .. Len(s)) /\ Count(s, x) = Cardinality(T)
  BY <1>1 DEF Count
<1>4. (\A i \in DOMAIN s : s[i] = x) => T = 1 .. Len(s)
  BY <1>1
<1>5. T = {} <=> \A i \in DOMAIN s : s[i] # x
  OBVIOUS
<1> HIDE DEF T
<1>6. IsFiniteSet(T)
  BY <1>2, <1>3, FS_Subset
<1> QED
  BY <1>2, <1>3, <1>4, <1>5, <1>6, FS_CardinalityType, FS_EmptySet DEF T

\* The elements of a concatenation, by position.
LEMMA Joined ==
    ASSUME NEW S, NEW s \in Seq(S), NEW t \in Seq(S)
    PROVE  /\ s \o t \in Seq(S) /\ Len(s \o t) = Len(s) + Len(t)
           /\ Len(s) \in Nat /\ Len(t) \in Nat
           /\ DOMAIN (s \o t) = 1 .. Len(s) + Len(t)
           /\ \A i \in 1 .. Len(s) : (s \o t)[i] = s[i]
           /\ \A i \in 1 .. Len(t) :
                i + Len(s) \in 1 .. Len(s) + Len(t) /\ (s \o t)[i + Len(s)] = t[i]
           /\ \A i \in 1 .. Len(s) + Len(t) :
                i \in 1 .. Len(s) \/ i - Len(s) \in 1 .. Len(t)
<1>1. /\ s \o t \in Seq(S) /\ Len(s \o t) = Len(s) + Len(t)
      /\ \A i \in 1 .. Len(s) + Len(t) :
           (s \o t)[i] = IF i <= Len(s) THEN s[i] ELSE t[i - Len(s)]
  BY ConcatProperties
<1>2. Len(s) \in Nat /\ Len(t) \in Nat
  OBVIOUS
<1> DEFINE u == s \o t
<1>3. DOMAIN u = 1 .. Len(s) + Len(t)
  <2> HIDE DEF u
  <2> QED
    BY <1>1 DEF u
<1> QED
  BY <1>1, <1>2, <1>3

\* Two queues in a row have of a buffer what each has.
LEMMA CountJoined ==
    ASSUME NEW S, NEW s \in Seq(S), NEW t \in Seq(S), NEW x
    PROVE  Count(s \o t, x) = Count(s, x) + Count(t, x)
<1> DEFINE A == {i \in DOMAIN s : s[i] = x}
           B == {i \in DOMAIN t : t[i] = x}
           C == {i \in DOMAIN (s \o t) : (s \o t)[i] = x}
           D == {i \in 1 .. Len(s) + Len(t) : i - Len(s) \in B}
           shift == [i \in B |-> i + Len(s)]
<1>1. /\ Len(s) \in Nat /\ Len(t) \in Nat
      /\ DOMAIN s = 1 .. Len(s) /\ DOMAIN t = 1 .. Len(t)
      /\ A \subseteq 1 .. Len(s) /\ B \subseteq 1 .. Len(t)
  OBVIOUS
<1>2. IsFiniteSet(A) /\ IsFiniteSet(B)
  BY Counted
<1>3. /\ Count(s, x) = Cardinality(A) /\ Count(t, x) = Cardinality(B)
      /\ Count(s \o t, x) = Cardinality(C)
  BY DEF Count
<1>4. A \cap D = {}
  BY <1>1
<1>5. C = A \cup D
  <2>1. C = {i \in 1 .. Len(s) + Len(t) : (s \o t)[i] = x}
    BY Joined
  <2>2. ASSUME NEW i \in 1 .. Len(s) + Len(t)
        PROVE  (s \o t)[i] = x <=> i \in A \/ i \in D
    <3>1. CASE i \in 1 .. Len(s)
      BY <1>1, <3>1, Joined
    <3>2. CASE i \notin 1 .. Len(s)
      <4>1. i - Len(s) \in 1 .. Len(t) /\ (i - Len(s)) + Len(s) = i
        BY <1>1, <3>2, Joined
      <4>2. (s \o t)[i] = t[i - Len(s)]
        BY <4>1, Joined
      <4> QED
        BY <1>1, <3>2, <4>1, <4>2
    <3> QED
      BY <3>1, <3>2
  <2>3. A \subseteq 1 .. Len(s) + Len(t) /\ D \subseteq 1 .. Len(s) + Len(t)
    BY <1>1
  <2> HIDE DEF A, C, D
  <2> QED
    BY <2>1, <2>2, <2>3
<1>6. shift \in Bijection(B, D)
  <2>1. \A i \in B : i + Len(s) \in D
    BY <1>1
  <2>2. \A i, k \in B : i + Len(s) = k + Len(s) => i = k
    BY <1>1
  <2>3. \A k \in D : k - Len(s) \in B /\ (k - Len(s)) + Len(s) = k
    BY <1>1
  <2> HIDE DEF B, D
  <2> QED
    BY <2>1, <2>2, <2>3 DEF Bijection, Injection, Surjection, IsInjective
<1>7. IsFiniteSet(D) /\ Cardinality(D) = Cardinality(B)
  <2>1. ExistsBijection(B, D)
    BY <1>6 DEF ExistsBijection
  <2> QED
    BY <1>2, <2>1, FS_Bijection
<1> HIDE DEF A, B, C, D
<1>8. Cardinality(A \cap D) = 0
  BY <1>4, FS_EmptySet
<1>9. Cardinality(A \cup D) = Cardinality(A) + Cardinality(D) - Cardinality(A \cap D)
  BY <1>2, <1>7, FS_Union
<1>10. Cardinality(A) \in Nat /\ Cardinality(D) \in Nat
  BY <1>2, <1>7, FS_CardinalityType
<1> QED
  BY <1>3, <1>5, <1>7, <1>8, <1>9, <1>10

\* A queue of one element.
LEMMA CountOne ==
    ASSUME NEW e, NEW x
    PROVE  Count(<<e>>, x) = IF e = x THEN 1 ELSE 0
<1>1. <<e>> \in Seq({e}) /\ DOMAIN <<e>> = {1} /\ <<e>>[1] = e /\ Len(<<e>>) = 1
  OBVIOUS
<1> DEFINE s == <<e>>
<1>2. s \in Seq({e}) /\ DOMAIN s = {1} /\ s[1] = e /\ Len(s) = 1
  BY <1>1
<1> HIDE DEF s
<1>3. Count(s, x) = IF e = x THEN 1 ELSE 0
  <2>1. CASE e = x
    BY <1>2, <2>1, Counted
  <2>2. CASE e # x
    BY <1>2, <2>2, Counted
  <2> QED
    BY <2>1, <2>2
<1> QED
  BY <1>3 DEF s

\* And an empty one.
LEMMA CountNone ==
    ASSUME NEW x PROVE Count(<< >>, x) = 0
<1>1. << >> \in Seq({}) /\ \A i \in DOMAIN << >> : << >>[i] # x
  OBVIOUS
<1> DEFINE s == << >>
<1>2. s \in Seq({}) /\ \A i \in DOMAIN s : s[i] # x
  BY <1>1
<1> HIDE DEF s
<1>3. Count(s, x) = 0
  BY <1>2, Counted
<1> QED
  BY <1>3 DEF s

\* An element added counts once more if it is the one counted.
LEMMA CountAppended ==
    ASSUME NEW S, NEW s \in Seq(S), NEW e \in S, NEW x
    PROVE  Count(Append(s, e), x) = Count(s, x) + (IF e = x THEN 1 ELSE 0)
<1> DEFINE h == <<e>>
<1>1. h \in Seq(S) /\ Append(s, e) = s \o h
  BY AppendIsConcat
<1>2. Count(h, x) = IF e = x THEN 1 ELSE 0
  BY CountOne
<1> HIDE DEF h
<1>3. Count(s \o h, x) = Count(s, x) + Count(h, x)
  BY <1>1, CountJoined
<1> QED
  BY <1>1, <1>2, <1>3

\* A queue after one of a single element.
LEMMA Prefixed ==
    ASSUME NEW S, NEW h \in Seq(S), Len(h) = 1, NEW v \in Seq(S)
    PROVE  /\ h \o v \in Seq(S) /\ Len(h \o v) = 1 + Len(v)
           /\ (h \o v)[1] = h[1]
           /\ \A i \in 1 .. Len(v) : (h \o v)[i + 1] = v[i]
<1>1. /\ h \o v \in Seq(S) /\ Len(h \o v) = Len(h) + Len(v)
      /\ \A i \in 1 .. Len(h) + Len(v) :
           (h \o v)[i] = IF i <= Len(h) THEN h[i] ELSE v[i - Len(h)]
  BY ConcatProperties
<1> DEFINE u == h \o v
<1>2. \A i \in 1 .. 1 + Len(v) : u[i] = IF i <= 1 THEN h[i] ELSE v[i - 1]
  BY <1>1
<1>3. Len(v) \in Nat
  OBVIOUS
<1> HIDE DEF u
<1>4. ASSUME NEW i \in 1 .. Len(v) PROVE u[i + 1] = v[i]
  <2>1. i + 1 \in 1 .. 1 + Len(v) /\ ~(i + 1 <= 1) /\ (i + 1) - 1 = i
    BY <1>3
  <2> QED
    BY <1>2, <2>1
<1>5. u[1] = h[1]
  BY <1>2, <1>3
<1> QED
  BY <1>1, <1>4, <1>5 DEF u

\* The first of a queue counts once if it is the one counted.
LEMMA CountTaken ==
    ASSUME NEW S, NEW s \in Seq(S), s # << >>, NEW x
    PROVE  Count(s, x) = Count(Tail(s), x) + (IF Head(s) = x THEN 1 ELSE 0)
<1>1. Head(s) \in S /\ Tail(s) \in Seq(S)
  BY Taken
<1>2. <<Head(s)>> \in Seq(S) /\ s = <<Head(s)>> \o Tail(s)
  <2> DEFINE h == <<Head(s)>>
             u == h \o Tail(s)
  <2>1. h \in Seq(S) /\ Len(h) = 1 /\ h[1] = Head(s)
    BY <1>1
  <2> HIDE DEF h
  <2>2. /\ u \in Seq(S) /\ Len(u) = 1 + Len(Tail(s)) /\ u[1] = h[1]
        /\ \A i \in 1 .. Len(Tail(s)) : u[i + 1] = Tail(s)[i]
    <3> DEFINE v == Tail(s)
    <3>1. v \in Seq(S)
      BY <1>1
    <3> HIDE DEF v
    <3>2. /\ h \o v \in Seq(S) /\ Len(h \o v) = 1 + Len(v)
          /\ (h \o v)[1] = h[1]
          /\ \A i \in 1 .. Len(v) : (h \o v)[i + 1] = v[i]
      BY <2>1, <3>1, Prefixed
    <3> QED
      BY <3>2 DEF v
  <2> HIDE DEF u
  <2>3. /\ Head(s) = s[1] /\ Len(s) \in Nat /\ Len(s) > 0
        /\ Len(Tail(s)) = Len(s) - 1
        /\ \A i \in 1 .. Len(s) - 1 : Tail(s)[i] = s[i + 1]
    BY Taken
  <2>4. ASSUME NEW i \in 1 .. Len(s) PROVE u[i] = s[i]
    <3>1. CASE i = 1
      BY <2>1, <2>2, <2>3, <3>1
    <3>2. CASE i # 1
      <4>1. i - 1 \in 1 .. Len(Tail(s)) /\ (i - 1) + 1 = i
        BY <2>3, <3>2
      <4> QED
        BY <2>2, <2>3, <4>1
    <3> QED
      BY <3>1, <3>2
  <2>5. u = s
    <3>1. Len(u) = Len(s)
      BY <2>2, <2>3
    <3> QED
      BY <2>2, <2>4, <3>1, SeqEqual
  <2> QED
    BY <2>1, <2>5 DEF u, h
<1>3. /\ Count(s, x) = Count(<<Head(s)>>, x) + Count(Tail(s), x)
      /\ Count(Tail(s), x) \in Nat
  <2> DEFINE h == <<Head(s)>>
  <2>1. h \in Seq(S) /\ s = h \o Tail(s)
    BY <1>2
  <2> HIDE DEF h
  <2>2. Count(h \o Tail(s), x) = Count(h, x) + Count(Tail(s), x)
    BY <1>1, <2>1, CountJoined
  <2> QED
    BY <1>1, <2>1, <2>2, Counted DEF h
<1> QED
  BY <1>3, CountOne

\* Counting the buffers of images is counting in the queue of the buffers.
LEMMA CountBufs ==
    ASSUME NEW q \in Seq(Frames), NEW x
    PROVE  Bufs(q) \in Seq(Buffers) /\ CountBuf(q, x) = Count(Bufs(q), x)
<1>1. DOMAIN Bufs(q) = DOMAIN q /\ \A i \in DOMAIN q : Bufs(q)[i] = q[i].buf
  BY DEF Bufs
<1>2. {i \in DOMAIN q : q[i].buf = x} = {i \in DOMAIN Bufs(q) : Bufs(q)[i] = x}
  BY <1>1
<1>3. Bufs(q) \in Seq(Buffers)
  <2>1. \A i \in 1 .. Len(q) : q[i].buf \in Buffers
    <3>1. \A i \in 1 .. Len(q) : q[i] \in Frames
      OBVIOUS
    <3> QED
      BY <3>1 DEF Frames
  <2>2. DOMAIN q = 1 .. Len(q) /\ Len(q) \in Nat
    OBVIOUS
  <2> QED
    BY <2>1, <2>2 DEF Bufs
<1> QED
  BY <1>2, <1>3 DEF Count, CountBuf

\* The buffers of a queue of images move as the images do.
LEMMA BufsMoves ==
    ASSUME NEW q \in Seq(Frames)
    PROVE  /\ \A e \in Frames : Bufs(Append(q, e)) = Append(Bufs(q), e.buf)
           /\ q # << >> => /\ Bufs(q) # << >> /\ Bufs(Tail(q)) = Tail(Bufs(q))
                           /\ Head(Bufs(q)) = Head(q).buf
           /\ Bufs(<< >>) = << >>
<1>1. ASSUME NEW e \in Frames PROVE Bufs(Append(q, e)) = Append(Bufs(q), e.buf)
  BY DEF Bufs, Frames
<1>2. ASSUME q # << >>
      PROVE  /\ Bufs(q) # << >> /\ Bufs(Tail(q)) = Tail(Bufs(q))
             /\ Head(Bufs(q)) = Head(q).buf
  BY <1>2 DEF Bufs, Frames
<1>3. Bufs(<< >>) = << >>
  BY DEF Bufs
<1> QED
  BY <1>1, <1>2, <1>3

\* A buffer that goes from the head of one part of a chain to the end of the
\* part before it.
LEMMA MovedIn ==
    ASSUME NEW S, NEW s \in Seq(S), NEW t \in Seq(S), t # << >>, NEW u \in Seq(S)
    PROVE  Append(s, Head(t)) \o (Tail(t) \o u) = s \o (t \o u)
<1>1. Append(s, Head(t)) \in Seq(S) /\ Tail(t) \in Seq(S)
  BY Taken, Appended
<1>2. Append(s, Head(t)) \o (Tail(t) \o u) = (Append(s, Head(t)) \o Tail(t)) \o u
  BY <1>1, ConcatAssociative
<1>3. s \o (t \o u) = (s \o t) \o u
  BY ConcatAssociative
<1> QED
  BY <1>2, <1>3, Moved

-----------------------------------------------------------------------------
(* Buffers chosen for some of those that wait.                              *)

Refilled(c, c2, k) ==
    /\ Len(c2) = Len(c)
    /\ \A i \in 1 .. Len(c) : c2[i] = c[i] \/ (c[i] = Null /\ c2[i] = Internal)
    /\ Count(c2, Internal) = Count(c, Internal) + k

\* Two queues in a row, each with buffers chosen for its Nulls.
LEMMA RefilledJoined ==
    ASSUME NEW a \in Seq(Slots), NEW b \in Seq(Slots), NEW a2 \in Seq(Slots),
           NEW b2 \in Seq(Slots), NEW k \in Nat, NEW l \in Nat,
           Refilled(a, a2, k), Refilled(b, b2, l)
    PROVE  Refilled(a \o b, a2 \o b2, k + l)
<1> DEFINE c == a \o b
           c2 == a2 \o b2
<1>1. /\ Len(c) = Len(a) + Len(b) /\ Len(c2) = Len(a2) + Len(b2)
      /\ Len(a) \in Nat /\ Len(b) \in Nat
      /\ \A i \in 1 .. Len(a) : c[i] = a[i]
      /\ \A i \in 1 .. Len(b) : c[i + Len(a)] = b[i]
      /\ \A i \in 1 .. Len(a) + Len(b) :
           i \in 1 .. Len(a) \/ i - Len(a) \in 1 .. Len(b)
  BY Joined
<1>2. /\ \A i \in 1 .. Len(a2) : c2[i] = a2[i]
      /\ \A i \in 1 .. Len(b2) : c2[i + Len(a2)] = b2[i]
  BY Joined
<1>3. Count(c, Internal) = Count(a, Internal) + Count(b, Internal)
      /\ Count(c2, Internal) = Count(a2, Internal) + Count(b2, Internal)
  BY CountJoined
<1>4. Count(a, Internal) \in Nat /\ Count(b, Internal) \in Nat
  BY Counted
<1> HIDE DEF c, c2
<1>5. Len(a2) = Len(a) /\ Len(b2) = Len(b)
  BY DEF Refilled
<1>6. ASSUME NEW i \in 1 .. Len(c)
      PROVE  c2[i] = c[i] \/ (c[i] = Null /\ c2[i] = Internal)
  <2>1. CASE i \in 1 .. Len(a)
    <3>1. c[i] = a[i] /\ c2[i] = a2[i]
      BY <1>1, <1>2, <1>5, <2>1
    <3> QED
      BY <2>1, <3>1 DEF Refilled
  <2>2. CASE i - Len(a) \in 1 .. Len(b)
    <3> DEFINE h == i - Len(a)
    <3>1. h \in 1 .. Len(b) /\ h + Len(a) = i
      BY <1>1, <2>2
    <3> HIDE DEF h
    <3>2. c[i] = b[h] /\ c2[i] = b2[h]
      BY <1>1, <1>2, <1>5, <3>1
    <3> QED
      BY <3>1, <3>2 DEF Refilled
  <2> QED
    BY <1>1, <2>1, <2>2
<1>7. Len(c2) = Len(c)
  BY <1>1, <1>5
<1>8. Count(c2, Internal) = Count(c, Internal) + (k + l)
  BY <1>3, <1>4 DEF Refilled
<1> QED
  BY <1>6, <1>7, <1>8 DEF Refilled, c, c2

\* A queue in which none is chosen.
LEMMA RefilledNot ==
    ASSUME NEW a \in Seq(Slots)
    PROVE  Refilled(a, a, 0)
<1>1. Count(a, Internal) \in Nat
  BY Counted
<1> QED
  BY <1>1 DEF Refilled

\* A queue with buffers chosen, after another.
LEMMA RefilledAfter ==
    ASSUME NEW a \in Seq(Slots), NEW b \in Seq(Slots), NEW b2 \in Seq(Slots),
           NEW k \in Nat, Refilled(b, b2, k)
    PROVE  a \o b \in Seq(Slots) /\ a \o b2 \in Seq(Slots)
           /\ Refilled(a \o b, a \o b2, k)
<1>1. Refilled(a \o b, a \o b2, 0 + k)
  BY RefilledNot, RefilledJoined
<1>2. a \o b \in Seq(Slots) /\ a \o b2 \in Seq(Slots)
  BY ConcatProperties
<1> QED
  BY <1>1, <1>2

\* And before another.
LEMMA RefilledBefore ==
    ASSUME NEW a \in Seq(Slots), NEW b \in Seq(Slots), NEW a2 \in Seq(Slots),
           NEW k \in Nat, Refilled(a, a2, k)
    PROVE  a \o b \in Seq(Slots) /\ a2 \o b \in Seq(Slots)
           /\ Refilled(a \o b, a2 \o b, k)
<1>1. Refilled(a \o b, a2 \o b, k + 0)
  BY RefilledNot, RefilledJoined
<1>2. a \o b \in Seq(Slots) /\ a2 \o b \in Seq(Slots)
  BY ConcatProperties
<1> QED
  BY <1>1, <1>2

\* A queue is what it begins with and what is left.
LEMMA Divided ==
    ASSUME NEW S, NEW w \in Seq(S), NEW n \in 0 .. Len(w)
    PROVE  /\ SubSeq(w, 1, n) \in Seq(S) /\ Len(SubSeq(w, 1, n)) = n
           /\ \A i \in 1 .. n : SubSeq(w, 1, n)[i] = w[i]
           /\ SubSeq(w, n + 1, Len(w)) \in Seq(S)
           /\ SubSeq(w, 1, n) \o SubSeq(w, n + 1, Len(w)) = w
<1> DEFINE p == SubSeq(w, 1, n)
           r == SubSeq(w, n + 1, Len(w))
<1>1. Len(w) \in Nat /\ n \in Nat /\ n <= Len(w) /\ \A i \in 1 .. Len(w) : w[i] \in S
  OBVIOUS
<1>2. /\ p \in Seq(S) /\ Len(p) = n
      /\ \A i \in 1 .. n : p[i] = w[i]
  <2>1. \A i \in 1 .. n : w[i] \in S
    BY <1>1
  <2>2. p \in Seq(S) /\ Len(p) = IF 1 <= n THEN n - 1 + 1 ELSE 0
    BY <1>1, <2>1, SubSeqProperties
  <2>3. \A i \in 1 .. n - 1 + 1 : p[i] = w[1 + i - 1]
    BY <1>1, <2>1, SubSeqProperties
  <2> QED
    BY <1>1, <2>2, <2>3
<1>3. /\ r \in Seq(S) /\ Len(r) = Len(w) - n
      /\ \A i \in 1 .. Len(w) - n : r[i] = w[n + i]
  <2>1. \A i \in n + 1 .. Len(w) : w[i] \in S
    BY <1>1
  <2>2. r \in Seq(S) /\ Len(r) = IF n + 1 <= Len(w) THEN Len(w) - (n + 1) + 1 ELSE 0
    BY <1>1, <2>1, SubSeqProperties
  <2>3. \A i \in 1 .. Len(w) - (n + 1) + 1 : r[i] = w[(n + 1) + i - 1]
    BY <1>1, <2>1, SubSeqProperties
  <2>4. Len(r) = Len(w) - n
    BY <1>1, <2>2
  <2>5. \A i \in 1 .. Len(w) - n : (n + 1) + i - 1 = n + i
    BY <1>1
  <2>6. Len(w) - (n + 1) + 1 = Len(w) - n
    BY <1>1
  <2> QED
    BY <2>2, <2>3, <2>4, <2>5, <2>6
<1> HIDE DEF p, r
<1> DEFINE u == p \o r
<1>4. /\ u \in Seq(S) /\ Len(u) = Len(p) + Len(r)
      /\ \A i \in 1 .. Len(p) : u[i] = p[i]
      /\ \A i \in 1 .. Len(r) : u[i + Len(p)] = r[i]
  BY <1>2, <1>3, Joined
<1> HIDE DEF u
<1>5. ASSUME NEW i \in 1 .. Len(w) PROVE u[i] = w[i]
  <2>1. CASE i \in 1 .. n
    BY <1>2, <1>4, <2>1
  <2>2. CASE i \notin 1 .. n
    <3> DEFINE h == i - n
    <3>1. h \in 1 .. Len(w) - n /\ h + n = i /\ n + h = i
      BY <1>1, <2>2
    <3> HIDE DEF h
    <3>2. u[h + n] = r[h] /\ r[h] = w[n + h]
      BY <1>2, <1>3, <1>4, <3>1
    <3> QED
      BY <3>1, <3>2
  <2> QED
    BY <2>1, <2>2
<1>6. u = w
  <2>1. Len(u) = Len(w)
    BY <1>1, <1>2, <1>3, <1>4
  <2> QED
    BY <1>4, <1>5, <2>1, SeqEqual
<1> QED
  BY <1>2, <1>3, <1>6 DEF u, p, r

\* ReturnBuffer sends what waited, with a buffer of the pool for every Null.
LEMMA SentRefills ==
    ASSUME NEW w \in Seq(Slots), NEW n \in Nat, NEW p \in Seq(Slots), Len(p) = n,
           \A i \in 1 .. n : p[i] = w[i],
           NEW have \in Seq(Buffers), \A i \in DOMAIN have : have[i] = Internal,
           Nulls(w, n) <= Len(have)
    PROVE  /\ Chosen(w, have, n) \in Seq(Slots)
           /\ Refilled(p, Chosen(w, have, n), Nulls(w, n))
<1> DEFINE new == Chosen(w, have, n)
<1>0. DOMAIN new = 1 .. n /\ \A i \in 1 .. n :
        new[i] = IF w[i] = Null THEN have[Nulls(w, i)] ELSE w[i]
  BY DEF Chosen
<1>1. Nulls(w, n) \in Nat /\ Len(have) \in Nat /\ DOMAIN have = 1 .. Len(have)
  BY NullsBounds
<1>2. ASSUME NEW i \in 1 .. n
      PROVE  /\ w[i] = Null => new[i] = Internal
             /\ w[i] # Null => new[i] = p[i]
             /\ new[i] \in Slots
  <2>1. i \in Nat /\ p[i] \in Slots /\ p[i] = w[i]
    OBVIOUS
  <2>2. CASE w[i] = Null
    <3>1. Nulls(w, i) \in Nat /\ Nulls(w, i) >= 1 /\ Nulls(w, i) <= Nulls(w, n)
      BY <2>1, <2>2, NullsBounds
    <3>2. Nulls(w, i) \in DOMAIN have
      BY <1>1, <3>1
    <3> QED
      BY <1>0, <2>2, <3>2 DEF Slots, Buffers
  <2>3. CASE w[i] # Null
    BY <1>0, <2>1, <2>3
  <2> QED
    BY <2>2, <2>3
<1>3. new \in Seq(Slots) /\ DOMAIN new = 1 .. n /\ Len(new) = n
  <2>1. new \in [1 .. n -> Slots]
    BY <1>2 DEF Chosen
  <2> HIDE DEF new
  <2> QED
    BY <2>1
<1> HIDE DEF new
<1> DEFINE A == {i \in 1 .. n : p[i] = Internal}
           N == {i \in 1 .. n : w[i] = Null}
           B == {i \in 1 .. n : new[i] = Internal}
<1>4. Internal # Null
  BY RPiAssumption DEF RPiAssumption
<1>5. B = A \cup N /\ A \cap N = {}
  <2>1. \A i \in 1 .. n : new[i] = Internal <=> p[i] = Internal \/ w[i] = Null
    BY <1>2, <1>4
  <2>2. \A i \in 1 .. n : ~(p[i] = Internal /\ w[i] = Null)
    BY <1>4
  <2> QED
    BY <2>1, <2>2
<1>6. DOMAIN p = 1 .. n
  OBVIOUS
<1>7. /\ Count(p, Internal) = Cardinality(A) /\ Nulls(w, n) = Cardinality(N)
      /\ Count(new, Internal) = Cardinality(B)
  BY <1>3, <1>6 DEF Count, Nulls
<1>8. A \subseteq 1 .. n /\ N \subseteq 1 .. n
  OBVIOUS
<1> HIDE DEF A, N, B
<1>9. IsFiniteSet(1 .. n)
  BY FS_Interval
<1>10. IsFiniteSet(A) /\ IsFiniteSet(N)
  BY <1>8, <1>9, FS_Subset
<1>11. Cardinality(A \cup N) = Cardinality(A) + Cardinality(N) - Cardinality(A \cap N)
  BY <1>10, FS_Union
<1>12. /\ Cardinality(A) \in Nat /\ Cardinality(N) \in Nat
       /\ Cardinality(A \cap N) = 0
  BY <1>5, <1>10, FS_CardinalityType, FS_EmptySet
<1>13. Count(new, Internal) = Count(p, Internal) + Nulls(w, n)
  BY <1>5, <1>7, <1>11, <1>12
<1>14. \A i \in 1 .. n : p[i] = w[i]
  OBVIOUS
<1> QED
  BY <1>2, <1>3, <1>13, <1>14 DEF Refilled, new

\* A buffer that comes back to the pool is there, or was chosen for one that
\* waited.
LEMMA ReturnBufferFeed ==
    ASSUME NEW st \in StreamType, \A i \in DOMAIN st.available : st.available[i] = Internal,
           NEW new, new = ReturnBuffer(st, Internal)
    PROVE  /\ new \in StreamType
           /\ \A i \in DOMAIN new.available : new.available[i] = Internal
           /\ \E k \in Nat : /\ Refilled(Feed(st), Feed(new), k)
                             /\ Len(new.available) + k = Len(st.available) + 1
<1> DEFINE w == st.waiting
           dv == st.device
           have == Append(st.available, Internal)
<1>1. new \in StreamType
  BY ReturnBufferType DEF Buffers
<1>2. PICK n \in 0 .. Len(w) :
        Nulls(w, n) <= Len(have) /\ new = SentUpTo(st, have, n)
  BY ReturnBufferSent DEF Buffers
<1> HIDE DEF have
<1> DEFINE a == Nulls(w, n)
           sent == Chosen(w, have, n)
<1>3. /\ new.available = SubSeq(have, a + 1, Len(have))
      /\ new.waiting = SubSeq(w, n + 1, Len(w))
      /\ new.device = dv \o sent
  <2>1. new = [available |-> SubSeq(have, a + 1, Len(have)),
               waiting |-> SubSeq(w, n + 1, Len(w)), device |-> dv \o sent]
    BY <1>2 DEF SentUpTo
  <2> DEFINE x == SubSeq(have, a + 1, Len(have))
             y == SubSeq(w, n + 1, Len(w))
             z == dv \o sent
  <2>2. new = [available |-> x, waiting |-> y, device |-> z]
    BY <2>1
  <2> HIDE DEF x, y, z
  <2>3. new.available = x /\ new.waiting = y /\ new.device = z
    BY <2>2
  <2> QED
    BY <2>3 DEF x, y, z
<1>4. /\ have \in Seq(Buffers) /\ Len(have) = Len(st.available) + 1
      /\ \A i \in DOMAIN have : have[i] = Internal
  <2> DEFINE av == st.available
  <2>1. av \in Seq(Buffers) /\ Internal \in Buffers /\ \A i \in DOMAIN av : av[i] = Internal
    BY DEF StreamType, Buffers
  <2> HIDE DEF av
  <2>2. /\ Append(av, Internal) \in Seq(Buffers) /\ Len(Append(av, Internal)) = Len(av) + 1
        /\ \A i \in DOMAIN Append(av, Internal) : Append(av, Internal)[i] = Internal
    BY <2>1
  <2> QED
    BY <2>2 DEF av, have
<1>5. /\ w \in Seq(Slots) /\ dv \in Seq(Slots) /\ Len(w) \in Nat
      /\ st.available \in Seq(Buffers)
  BY DEF StreamType, Slots
<1>6. Feed(st) = dv \o w /\ Feed(new) = (dv \o sent) \o SubSeq(w, n + 1, Len(w))
  BY <1>3 DEF Feed
<1> HIDE DEF w, dv
<1> DEFINE p == SubSeq(w, 1, n)
           r == SubSeq(w, n + 1, Len(w))
<1>7. /\ p \in Seq(Slots) /\ Len(p) = n /\ \A i \in 1 .. n : p[i] = w[i]
      /\ r \in Seq(Slots) /\ p \o r = w
  BY <1>5, Divided
<1>8. Feed(st) = dv \o (p \o r) /\ Feed(new) = (dv \o sent) \o r
  BY <1>6, <1>7
<1> HIDE DEF p, r
<1>9. n \in Nat
  BY <1>5
<1>10. a \in Nat /\ Len(have) \in Nat
  BY <1>4, <1>9, NullsBounds
<1>11. sent \in Seq(Slots) /\ Refilled(p, sent, a)
  BY <1>2, <1>4, <1>5, <1>7, <1>9, SentRefills
<1> HIDE DEF sent
<1>12. /\ \A i \in DOMAIN new.available : new.available[i] = Internal
       /\ Len(new.available) = Len(have) - a
  <2>1. \A i \in a + 1 .. Len(have) : have[i] \in {Internal}
    BY <1>4, <1>10
  <2> DEFINE v == SubSeq(have, a + 1, Len(have))
  <2>2. /\ v \in Seq({Internal})
        /\ Len(v) = IF a + 1 <= Len(have) THEN Len(have) - (a + 1) + 1 ELSE 0
    <3> HIDE DEF a
    <3> QED
      BY <1>10, <2>1, SubSeqProperties
  <2> HIDE DEF v
  <2>3. Len(v) = Len(have) - a
    <3> HIDE DEF a
    <3> QED
      BY <1>2, <1>10, <2>2 DEF a
  <2>4. \A i \in DOMAIN v : v[i] = Internal
    BY <2>2
  <2> QED
    BY <1>3, <2>3, <2>4 DEF v
<1> HIDE DEF a
<1>13. Refilled(Feed(st), Feed(new), a)
  <2>1. Refilled(p \o r, sent \o r, a) /\ p \o r \in Seq(Slots) /\ sent \o r \in Seq(Slots)
    BY <1>7, <1>10, <1>11, RefilledBefore
  <2>2. Refilled(dv \o (p \o r), dv \o (sent \o r), a)
    BY <1>5, <1>10, <2>1, RefilledAfter
  <2>3. (dv \o sent) \o r = dv \o (sent \o r)
    <3>1. dv \in Seq(Slots) /\ sent \in Seq(Slots) /\ r \in Seq(Slots)
      BY <1>5, <1>7, <1>11
    <3> QED
      BY <3>1, ConcatAssociative
  <2> QED
    BY <1>8, <2>2, <2>3
<1>14. Len(new.available) + a = Len(st.available) + 1
  BY <1>4, <1>10, <1>12
<1> QED
  BY <1>1, <1>10, <1>12, <1>13, <1>14
-----------------------------------------------------------------------------
(* The end and the head of a chain.                                         *)

\* A buffer queued to a stream comes last of what the stream has.
Queues(st, left, e) ==
    IF st.waiting = << >>
      THEN [st EXCEPT !.available = left, !.device = Append(@, e)]
      ELSE [st EXCEPT !.available = left, !.waiting = Append(@, e)]

\* A buffer queued to a stream is behind all that it has been given.
LEMMA FeedQueued ==
    ASSUME NEW st \in StreamType, NEW e \in Slots, NEW left
    PROVE  /\ Feed(Queues(st, left, e)) = Append(Feed(st), e)
           /\ Queues(st, left, e).available = left
<1> DEFINE av == st.available
           w == st.waiting
           dv == st.device
           new == Queues(st, left, e)
<1>1. /\ st = [available |-> av, waiting |-> w, device |-> dv]
      /\ w \in Seq(Slots) /\ dv \in Seq(Slots)
  BY DEF StreamType, Slots
<1>2. Feed(st) = dv \o w
  BY DEF Feed
<1>3. CASE w = << >>
  <2> DEFINE dv2 == Append(dv, e)
  <2>1. new = [available |-> left, waiting |-> w, device |-> dv2]
    BY <1>1, <1>3 DEF Queues
  <2>2. dv2 \o << >> = dv2 /\ dv \o << >> = dv
    BY <1>1
  <2> HIDE DEF av, w, dv, dv2, new
  <2>3. Feed(new) = dv2 \o w /\ new.available = left
    BY <2>1 DEF Feed
  <2> QED
    BY <1>2, <1>3, <2>2, <2>3 DEF dv2, new
<1>4. CASE w # << >>
  <2> DEFINE w2 == Append(w, e)
  <2>1. new = [available |-> left, waiting |-> w2, device |-> dv]
    BY <1>1, <1>4 DEF Queues
  <2> HIDE DEF av, w, dv, w2, new
  <2>2. Feed(new) = dv \o w2 /\ new.available = left
    BY <2>1 DEF Feed
  <2>3. dv \o w2 = Append(dv \o w, e)
    BY <1>1, Postponed DEF w2
  <2> QED
    BY <1>2, <2>2, <2>3 DEF new
<1> QED
  BY <1>3, <1>4

\* queueBuffer with a buffer leaves the pool alone.
LEMMA QueueBufferFeed ==
    ASSUME NEW st \in StreamType, NEW b \in Buffers
    PROVE  /\ Feed(QueueBuffer(st, b)) = Append(Feed(st), b)
           /\ QueueBuffer(st, b).available = st.available
<1>1. b # Null
  BY RPiAssumption DEF RPiAssumption, Buffers
<1> DEFINE left == st.available
<1>2. QueueBuffer(st, b) = Queues(st, left, b)
  BY <1>1 DEF QueueBuffer, Queues
<1> HIDE DEF left
<1>3. b \in Slots
  BY DEF Slots
<1>4. /\ Feed(Queues(st, left, b)) = Append(Feed(st), b)
      /\ Queues(st, left, b).available = left
  BY <1>3, FeedQueued
<1> QED
  BY <1>2, <1>4 DEF left

\* Without a buffer, it is one of the pool or one yet to be chosen.
LEMMA QueueNullFeed ==
    ASSUME NEW st \in StreamType,
           \A i \in DOMAIN st.available : st.available[i] = Internal,
           NEW new, new = QueueBuffer(st, Null)
    PROVE  /\ \A i \in DOMAIN new.available : new.available[i] = Internal
           /\ \E e \in {Internal, Null} :
                /\ Feed(new) = Append(Feed(st), e)
                /\ Len(new.available) + (IF e = Internal THEN 1 ELSE 0)
                     = Len(st.available)
<1> DEFINE av == st.available
           w == st.waiting
           dv == st.device
<1>1. /\ av \in Seq(Buffers) /\ \A i \in DOMAIN av : av[i] = Internal
      /\ Internal \in Slots /\ Null \in Slots /\ Internal # Null
  BY RPiAssumption DEF StreamType, Slots, Buffers, RPiAssumption
<1>2. CASE av = << >>
  <2>1. new = [st EXCEPT !.waiting = Append(@, Null)]
    BY <1>2 DEF QueueBuffer
  <2> DEFINE w2 == Append(w, Null)
  <2>2. new = [available |-> av, waiting |-> w2, device |-> dv]
    BY <2>1 DEF StreamType
  <2>3. w \in Seq(Slots) /\ dv \in Seq(Slots)
    BY DEF StreamType, Slots
  <2>4. dv \o w2 = Append(dv \o w, Null)
    <3> HIDE DEF w, dv
    <3> QED
      BY <1>1, <2>3, Postponed
  <2>5. Feed(st) = dv \o w
    BY DEF Feed
  <2> HIDE DEF av, w, dv, w2
  <2>6. Feed(new) = dv \o w2 /\ new.available = av
    BY <2>2 DEF Feed
  <2>7. Len(av) = 0
    BY <1>2
  <2>8. Feed(new) = Append(Feed(st), Null)
    BY <2>4, <2>5, <2>6
  <2> QED
    BY <1>1, <2>6, <2>7, <2>8 DEF av
<1>3. CASE av # << >>
  <2> DEFINE buf == Head(av)
             left == Tail(av)
  <2>1. new = Queues(st, left, buf)
    BY <1>3 DEF QueueBuffer, Queues
  <2> HIDE DEF av
  <2>2. /\ buf = Internal /\ Len(left) + 1 = Len(av)
        /\ \A i \in DOMAIN left : left[i] = Internal
    BY <1>1, <1>3
  <2> HIDE DEF buf, left
  <2>3. Feed(new) = Append(Feed(st), buf) /\ new.available = left
    <3>1. buf \in Slots
      BY <1>1, <2>2
    <3> QED
      BY <2>1, <3>1, FeedQueued
  <2> QED
    BY <2>2, <2>3 DEF av
<1> QED
  BY <1>2, <1>3

\* What a stream feeds to its device is a queue of buffers and Nulls.
LEMMA FeedType ==
    ASSUME NEW st \in StreamType
    PROVE  Feed(st) \in Seq(Slots) /\ st.device \in Seq(Slots)
           /\ st.waiting \in Seq(Slots)
<1>1. st.device \in Seq(Slots) /\ st.waiting \in Seq(Slots)
  BY DEF StreamType, Slots
<1> QED
  BY <1>1, ConcatProperties DEF Feed

\* So are the buffers of a queue of images.
LEMMA BufsType ==
    ASSUME NEW q \in Seq(Frames) PROVE Bufs(q) \in Seq(Slots)
<1>1. Bufs(q) \in Seq(Buffers)
  BY CountBufs
<1> QED
  BY <1>1 DEF Slots

\* A buffer of the stream's own, first in its chain, comes back to it.
LEMMA PoolReturns ==
    ASSUME NEW st \in StreamType, NEW g \in Seq(Slots), g # << >>,
           Head(g) = Internal, Pooled(st.available, g \o Feed(st)),
           NEW new, new = ReturnBuffer(st, Internal)
    PROVE  /\ Pooled(new.available, Tail(g) \o Feed(new))
           /\ Tail(g) \o Feed(new) \in Seq(Slots)
           /\ \E k \in Nat : Refilled(Tail(g \o Feed(st)), Tail(g) \o Feed(new), k)
<1> DEFINE av == st.available
           av2 == new.available
           c == g \o Feed(st)
           c1 == Tail(g) \o Feed(st)
           c2 == Tail(g) \o Feed(new)
<1>1. \A i \in DOMAIN av : av[i] = Internal
  BY DEF Pooled
<1>2. PICK k \in Nat : /\ Refilled(Feed(st), Feed(new), k)
                       /\ Len(av2) + k = Len(av) + 1
  BY <1>1, ReturnBufferFeed
<1>3. new \in StreamType /\ \A i \in DOMAIN av2 : av2[i] = Internal
  BY <1>1, ReturnBufferFeed
<1>4. /\ Feed(st) \in Seq(Slots) /\ Feed(new) \in Seq(Slots)
      /\ Tail(g) \in Seq(Slots)
  BY <1>3, FeedType, Taken
<1>5. Refilled(c1, c2, k) /\ c1 \in Seq(Slots) /\ c2 \in Seq(Slots)
  BY <1>2, <1>4, RefilledAfter
<1>6. c \in Seq(Slots) /\ c # << >> /\ Head(c) = Internal /\ Tail(c) = c1
  BY <1>4, Fronts, ConcatProperties
<1>7. Len(av) \in Nat /\ Len(av2) \in Nat
  BY <1>3 DEF StreamType
<1>8. Len(av) + Count(c, Internal) = BufferCount
  BY DEF Pooled
<1> HIDE DEF c, c1, c2, av, av2
<1>9. /\ Count(c, Internal) = Count(c1, Internal) + 1
      /\ Count(c2, Internal) = Count(c1, Internal) + k
      /\ Count(c1, Internal) \in Nat
  BY <1>5, <1>6, CountTaken, Counted DEF Refilled
<1>10. Pooled(av2, c2)
  <2> DEFINE x == Len(av)
             x2 == Len(av2)
             m == Count(c1, Internal)
             n == Count(c, Internal)
             n2 == Count(c2, Internal)
  <2>1. /\ x \in Nat /\ x2 \in Nat /\ m \in Nat /\ x + n = BufferCount
        /\ n = m + 1 /\ n2 = m + k /\ x2 + k = x + 1
    BY <1>2, <1>7, <1>8, <1>9
  <2> HIDE DEF x, x2, m, n, n2
  <2>2. x2 + n2 = BufferCount
    BY <2>1
  <2> QED
    BY <1>3, <2>2 DEF Pooled, x2, n2
<1>11. Refilled(Tail(c), c2, k)
  BY <1>5, <1>6
<1> QED
  BY <1>5, <1>10, <1>11 DEF c, c2, av2

\* A request's, first in the chain, leaves it.
LEMMA PoolLeaves ==
    ASSUME NEW available, NEW c \in Seq(Slots), c # << >>, Head(c) # Internal,
           Pooled(available, c)
    PROVE  Pooled(available, Tail(c))
<1>1. Count(c, Internal) = Count(Tail(c), Internal) + 0
  BY CountTaken
<1>2. Count(Tail(c), Internal) \in Nat
  BY Counted, Taken
<1> QED
  BY <1>1, <1>2 DEF Pooled

\* The first of a chain is for the frame worked on: of the first request if no
\* frame is to be dropped.
LEMMA OrderTaken ==
    ASSUME NEW drop \in Nat, NEW queue \in Seq(Requests), NEW c \in Seq(Slots),
           c # << >>, InOrder(drop, queue, 0, c)
    PROVE  /\ InOrder(drop, queue, 1, Tail(c))
           /\ drop = 0 => queue # << >> /\ Head(c) = Head(queue)
           /\ drop # 0 => Head(c) \in {Internal, Null}
<1> DEFINE v == Tail(c)
<1>1. /\ Head(c) = c[1] /\ Len(c) \in Nat /\ Len(c) > 0 /\ Len(v) = Len(c) - 1
      /\ \A i \in 1 .. Len(c) - 1 : v[i] = c[i + 1]
      /\ Len(queue) \in Nat /\ (Len(queue) = 0 <=> queue = << >>)
  BY Taken, Emptied
<1>2. /\ Len(c) + 0 = drop + Len(queue)
      /\ \A i \in 1 .. Len(c) :
         IF i + 0 <= drop THEN c[i] \in {Internal, Null}
                          ELSE c[i] = queue[i + 0 - drop]
  BY DEF InOrder
<1>3. Len(queue) > 0 => Head(queue) = queue[1]
  OBVIOUS
<1> HIDE DEF v
<1>4. ASSUME NEW i \in 1 .. Len(v)
      PROVE  IF i + 1 <= drop THEN v[i] \in {Internal, Null}
                              ELSE v[i] = queue[i + 1 - drop]
  <2> DEFINE h == i + 1
  <2>1. h \in 1 .. Len(c) /\ v[i] = c[h] /\ h + 0 = h /\ h \in Nat
    BY <1>1
  <2> HIDE DEF h
  <2>2. IF h <= drop THEN c[h] \in {Internal, Null} ELSE c[h] = queue[h - drop]
    BY <1>2, <2>1
  <2> QED
    BY <2>1, <2>2 DEF h
<1>5. InOrder(drop, queue, 1, v)
  BY <1>1, <1>2, <1>4 DEF InOrder
<1>6. 1 \in 1 .. Len(c) /\ 1 + 0 = 1
  BY <1>1
<1>7. drop = 0 => queue # << >> /\ c[1] = queue[1]
  BY <1>1, <1>2, <1>6
<1>8. drop # 0 => c[1] \in {Internal, Null}
  BY <1>2, <1>6
<1> QED
  BY <1>1, <1>3, <1>5, <1>7, <1>8 DEF v

\* Buffers of the pool take the place of Nulls, for frames to be dropped.
LEMMA OrderRefilled ==
    ASSUME NEW drop \in Nat, NEW queue \in Seq(Requests), NEW k \in Nat,
           NEW c \in Seq(Slots), NEW c2 \in Seq(Slots), NEW n,
           InOrder(drop, queue, k, c), Refilled(c, c2, n)
    PROVE  InOrder(drop, queue, k, c2)
<1>1. Len(c) \in Nat /\ Len(queue) \in Nat
  OBVIOUS
<1>2. ASSUME NEW i \in 1 .. Len(c)
      PROVE  IF i + k <= drop THEN c2[i] \in {Internal, Null}
                              ELSE c2[i] = queue[i + k - drop]
  <2>1. c2[i] = c[i] \/ (c[i] = Null /\ c2[i] = Internal)
    BY DEF Refilled
  <2>2. CASE i + k <= drop
    BY <2>1, <2>2 DEF InOrder
  <2>3. CASE ~(i + k <= drop)
    <3>1. c[i] = queue[i + k - drop] /\ Len(c) + k = drop + Len(queue)
      BY <2>3 DEF InOrder
    <3>2. i + k - drop \in 1 .. Len(queue)
      BY <1>1, <2>3, <3>1
    <3>3. c[i] \in Requests
      BY <3>1, <3>2
    <3>4. c[i] # Null
      BY <3>3, RPiAssumption DEF RPiAssumption
    <3> QED
      BY <2>1, <2>3, <3>1, <3>4
  <2> QED
    BY <2>2, <2>3
<1>3. Len(c2) = Len(c)
  BY DEF Refilled
<1> QED
  BY <1>2, <1>3 DEF InOrder

\* A request queued last has its buffer last in the chain.
LEMMA OrderQueued ==
    ASSUME NEW drop \in Nat, NEW queue \in Seq(Requests), NEW k \in Nat,
           NEW c \in Seq(Slots), NEW r \in Requests, InOrder(drop, queue, k, c)
    PROVE  InOrder(drop, Append(queue, r), k, Append(c, r))
<1> DEFINE q2 == Append(queue, r)
           c2 == Append(c, r)
<1>1. /\ Len(q2) = Len(queue) + 1 /\ \A i \in 1 .. Len(queue) : q2[i] = queue[i]
      /\ q2[Len(queue) + 1] = r /\ Len(queue) \in Nat
  BY Appended, Emptied
<1>2. /\ Len(c2) = Len(c) + 1 /\ \A i \in 1 .. Len(c) : c2[i] = c[i]
      /\ c2[Len(c) + 1] = r /\ Len(c) \in Nat
  BY Appended, Emptied DEF Slots, Buffers
<1>3. /\ Len(c) + k = drop + Len(queue)
      /\ \A i \in 1 .. Len(c) :
         IF i + k <= drop THEN c[i] \in {Internal, Null}
                          ELSE c[i] = queue[i + k - drop]
  BY DEF InOrder
<1> HIDE DEF q2, c2
<1>4. ASSUME NEW i \in 1 .. Len(c2)
      PROVE  IF i + k <= drop THEN c2[i] \in {Internal, Null}
                              ELSE c2[i] = q2[i + k - drop]
  <2>1. CASE i \in 1 .. Len(c)
    <3>1. c2[i] = c[i]
      BY <1>2, <2>1
    <3>2. CASE i + k <= drop
      BY <1>3, <2>1, <3>1, <3>2
    <3>3. CASE ~(i + k <= drop)
      <4>1. i + k - drop \in 1 .. Len(queue)
        BY <1>1, <1>2, <1>3, <2>1, <3>3
      <4>2. q2[i + k - drop] = queue[i + k - drop]
        BY <1>1, <4>1
      <4> QED
        BY <1>3, <2>1, <3>1, <3>3, <4>2
    <3> QED
      BY <3>2, <3>3
  <2>2. CASE i = Len(c) + 1
    <3> DEFINE lc == Len(c)
               lq == Len(queue)
    <3>1. lc \in Nat /\ lq \in Nat /\ lc + k = drop + lq /\ i = lc + 1
      BY <1>1, <1>2, <1>3, <2>2
    <3> HIDE DEF lc, lq
    <3>2. i + k - drop = lq + 1 /\ ~(i + k <= drop)
      BY <3>1
    <3>3. i + k - drop = Len(queue) + 1 /\ ~(i + k <= drop)
      BY <3>2 DEF lq
    <3> QED
      BY <1>1, <1>2, <2>2, <3>3
  <2> QED
    BY <1>2, <2>1, <2>2
<1>5. Len(c2) + k = drop + Len(q2)
  <2> DEFINE lc == Len(c)
             lq == Len(queue)
  <2>1. /\ lc \in Nat /\ lq \in Nat /\ lc + k = drop + lq
        /\ Len(c2) = lc + 1 /\ Len(q2) = lq + 1
    BY <1>1, <1>2, <1>3
  <2> HIDE DEF lc, lq
  <2> QED
    BY <2>1
<1>6. InOrder(drop, q2, k, c2)
  BY <1>4, <1>5 DEF InOrder
<1> QED
  BY <1>6 DEF q2, c2

\* The frame is complete, or dropped.
LEMMA OrderCompleted ==
    ASSUME NEW queue \in Seq(Requests), queue # << >>, NEW c \in Seq(Slots),
           InOrder(0, queue, 1, c)
    PROVE  InOrder(0, Tail(queue), 0, c)
<1> DEFINE q2 == Tail(queue)
<1>1. /\ Len(queue) \in Nat /\ Len(queue) > 0 /\ Len(q2) = Len(queue) - 1
      /\ \A i \in 1 .. Len(queue) - 1 : q2[i] = queue[i + 1]
  BY Taken
<1>2. /\ Len(c) + 1 = 0 + Len(queue) /\ Len(c) \in Nat
      /\ \A i \in 1 .. Len(c) :
         IF i + 1 <= 0 THEN c[i] \in {Internal, Null}
                       ELSE c[i] = queue[i + 1 - 0]
  BY DEF InOrder
<1> HIDE DEF q2
<1>3. ASSUME NEW i \in 1 .. Len(c) PROVE c[i] = q2[i]
  <2>1. ~(i + 1 <= 0) /\ i + 1 - 0 = i + 1 /\ i \in 1 .. Len(queue) - 1
    BY <1>1, <1>2
  <2> QED
    BY <1>1, <1>2, <2>1
<1>4. \A i \in 1 .. Len(c) : ~(i + 0 <= 0) /\ i + 0 - 0 = i
  BY <1>2
<1>5. Len(c) + 0 = 0 + Len(q2)
  BY <1>1, <1>2
<1>6. InOrder(0, q2, 0, c)
  BY <1>3, <1>4, <1>5 DEF InOrder
<1> QED
  BY <1>6 DEF q2

\* A frame dropped is one fewer to drop, and its buffer has come.
LEMMA OrderDropped ==
    ASSUME NEW drop \in Nat, drop # 0, NEW queue \in Seq(Requests),
           NEW c \in Seq(Slots), InOrder(drop, queue, 1, c)
    PROVE  InOrder(drop - 1, queue, 0, c)
<1>1. Len(queue) \in Nat /\ Len(c) \in Nat
  OBVIOUS
<1>2. Len(c) + 0 = (drop - 1) + Len(queue)
  BY <1>1 DEF InOrder
<1>3. ASSUME NEW i \in 1 .. Len(c)
      PROVE  IF i + 0 <= drop - 1 THEN c[i] \in {Internal, Null}
                                  ELSE c[i] = queue[i + 0 - (drop - 1)]
  <2>1. (i + 0 <= drop - 1 <=> i + 1 <= drop) /\ i + 0 - (drop - 1) = i + 1 - drop
    BY <1>1
  <2> QED
    BY <2>1 DEF InOrder
<1> QED
  BY <1>2, <1>3 DEF InOrder

-----------------------------------------------------------------------------
(* What is ahead of the streams.                                            *)

\* What is ahead of each stream.
LEMMA AheadParts ==
    ASSUME NEW d, NEW t, NEW m, NEW j, NEW f, NEW n
    PROVE  /\ Ahead(d, t, m, j, f, n)["Image"]
                = Parts5(Bufs(n["Input"]), Bufs(Unread(j, f)), Sending(t, m),
                         Bufs(d.bayerQueue), Bufs(n["Image"]))
           /\ Ahead(d, t, m, j, f, n)["Embedded"]
                = Parts3(Reading(t, m), Bufs(d.embeddedQueue), Bufs(n["Embedded"]))
           /\ Ahead(d, t, m, j, f, n)["Output0"] = Bufs(n["Output0"])
BY DEF Ahead

\* Three queues in a row are a queue.
LEMMA Parts3Type ==
    ASSUME NEW S, NEW a \in Seq(S), NEW b \in Seq(S), NEW c \in Seq(S)
    PROVE  Parts3(a, b, c) \in Seq(S)
<1>1. b \o c \in Seq(S)
  BY ConcatProperties
<1> QED
  BY <1>1, ConcatProperties DEF Parts3

\* So are five.
LEMMA Parts5Type ==
    ASSUME NEW S, NEW a \in Seq(S), NEW b \in Seq(S), NEW c \in Seq(S),
           NEW p \in Seq(S), NEW q \in Seq(S)
    PROVE  Parts5(a, b, c, p, q) \in Seq(S)
<1>1. Parts3(c, p, q) \in Seq(S)
  BY Parts3Type
<1>2. b \o Parts3(c, p, q) \in Seq(S)
  BY <1>1, ConcatProperties
<1> QED
  BY <1>1, <1>2, ConcatProperties DEF Parts5

\* The parts of a chain are queues of buffers.
LEMMA PartTypes ==
    ASSUME NEW d \in DataType, NEW t \in Seq(IpaMessages),
           NEW m \in Seq(HandlerMessages), NEW j \in Seq(Frames), NEW f,
           j = << >> => "Input" \notin f, NEW n \in [Streams -> Seq(Frames)]
    PROVE  /\ \A s \in Streams : Bufs(n[s]) \in Seq(Slots)
           /\ Unread(j, f) \in Seq(Frames) /\ Bufs(Unread(j, f)) \in Seq(Slots)
           /\ Sending(t, m) \in Seq(Slots) /\ Reading(t, m) \in Seq(Slots)
           /\ Bufs(d.bayerQueue) \in Seq(Slots)
           /\ Bufs(d.embeddedQueue) \in Seq(Slots)
<1>1. \A s \in Streams : Bufs(n[s]) \in Seq(Slots)
  BY BufsType
<1>2. Unread(j, f) \in Seq(Frames)
  BY Taken DEF Unread
<1>3. d.bayerQueue \in Seq(Frames) /\ d.embeddedQueue \in Seq(Frames)
  BY DEF DataType
<1>4. \A e \in Frames : <<e.buf>> \in Seq(Slots)
  BY DEF Frames, Slots
<1>5. << >> \in Seq(Slots)
  OBVIOUS
<1>6. ASSUME m # << >>
      PROVE  /\ m[Len(m)].type = "runIsp" => m[Len(m)].bayer \in Frames
             /\ m[1].type = "embeddedComplete" => m[1].embedded \in Frames
  <2>1. m[Len(m)] \in HandlerMessages /\ m[1] \in HandlerMessages
    BY <1>6
  <2> DEFINE a == m[Len(m)]
             b == m[1]
  <2>2. a \in HandlerMessages /\ b \in HandlerMessages
    BY <2>1
  <2> HIDE DEF a, b
  <2>3. a.type = "runIsp" => a.bayer \in Frames
    BY <2>2 DEF HandlerMessages
  <2>4. b.type = "embeddedComplete" => b.embedded \in Frames
    BY <2>2 DEF HandlerMessages
  <2> QED
    BY <2>3, <2>4 DEF a, b
<1>7. ASSUME t # << >>, t[1].type = "signalIspPrepare"
      PROVE  t[1].bayer \in Frames /\ (t[1].embedded # Null => t[1].embedded \in Frames)
  <2> DEFINE a == t[1]
  <2>1. a \in IpaMessages /\ a.type = "signalIspPrepare"
    BY <1>7
  <2> HIDE DEF a
  <2>2. a.bayer \in Frames /\ (a.embedded # Null => a.embedded \in Frames)
    BY <2>1 DEF IpaMessages, Prepares
  <2> QED
    BY <2>2 DEF a
<1>8. Sending(t, m) \in Seq(Slots)
  BY <1>4, <1>5, <1>6, <1>7 DEF Sending
<1>9. Reading(t, m) \in Seq(Slots)
  BY <1>4, <1>5, <1>6, <1>7 DEF Reading, EmbeddedFirst
<1> QED
  BY <1>1, <1>2, <1>3, <1>8, <1>9, BufsType

\* And so is what is ahead of a stream.
LEMMA AheadType ==
    ASSUME NEW d \in DataType, NEW t \in Seq(IpaMessages),
           NEW m \in Seq(HandlerMessages), NEW j \in Seq(Frames), NEW f,
           j = << >> => "Input" \notin f, NEW n \in [Streams -> Seq(Frames)]
    PROVE  \A s \in External : Ahead(d, t, m, j, f, n)[s] \in Seq(Slots)
<1>1. /\ Bufs(n["Input"]) \in Seq(Slots) /\ Bufs(n["Image"]) \in Seq(Slots)
      /\ Bufs(n["Embedded"]) \in Seq(Slots) /\ Bufs(n["Output0"]) \in Seq(Slots)
      /\ Bufs(Unread(j, f)) \in Seq(Slots)
      /\ Sending(t, m) \in Seq(Slots) /\ Reading(t, m) \in Seq(Slots)
      /\ Bufs(d.bayerQueue) \in Seq(Slots) /\ Bufs(d.embeddedQueue) \in Seq(Slots)
  BY PartTypes DEF Streams, IspStreams, IspOutputs
<1>2. Ahead(d, t, m, j, f, n)["Image"] \in Seq(Slots)
  BY <1>1, AheadParts, Parts5Type
<1>3. Ahead(d, t, m, j, f, n)["Embedded"] \in Seq(Slots)
  BY <1>1, AheadParts, Parts3Type
<1>4. Ahead(d, t, m, j, f, n)["Output0"] \in Seq(Slots)
  BY <1>1, AheadParts
<1> QED
  BY <1>2, <1>3, <1>4 DEF External

\* What these are now.
LEMMA AheadNowType ==
    ASSUME PipelineInv
    PROVE  \A s \in External :
             /\ AheadNow[s] \in Seq(Slots) /\ stream[s] \in StreamType
             /\ Feed(stream[s]) \in Seq(Slots)
             /\ Chain(stream, AheadNow, s) \in Seq(Slots)
<1>1. /\ data \in DataType /\ toIpa \in Seq(IpaMessages)
      /\ messages \in Seq(HandlerMessages) /\ jobs \in Seq(Frames)
      /\ (jobs = << >> => finished = {}) /\ done \in [Streams -> Seq(Frames)]
  BY ContextNow DEF Context
<1>2. \A s \in External : AheadNow[s] \in Seq(Slots)
  BY <1>1, AheadType DEF AheadNow
<1>3. ASSUME NEW s \in External
      PROVE  stream[s] \in StreamType /\ Feed(stream[s]) \in Seq(Slots)
  <2>1. stream \in [Queued -> StreamType]
    BY DEF PipelineInv, Types
  <2>2. stream[s] \in StreamType
    BY <2>1 DEF External, Queued, Streams, IspStreams, IspOutputs
  <2> QED
    BY <2>2, FeedType
<1>4. ASSUME NEW s \in External PROVE Chain(stream, AheadNow, s) \in Seq(Slots)
  BY <1>2, <1>3, ConcatProperties DEF Chain
<1> QED
  BY <1>2, <1>3, <1>4

-----------------------------------------------------------------------------
(* handleState.                                                             *)

\* What the completed frame has had is off the queue, or counted.
LEMMA CheckedKept ==
    ASSUME NEW d \in DataType, NEW rq, NEW o, NEW st, NEW h,
           Kept(d, rq, o, st, h),
           \A s \in External : Chain(st, h, s) \in Seq(Slots),
           Working(d) => d.requestQueue # << >>,
           CheckedData(d, rq).state = "Idle" => o["Input"] = 0 /\ o["Output0"] = 0
    PROVE  Kept(CheckedData(d, rq), CheckedRequests(d, rq), o, st, h)
<1> DEFINE c == CheckedData(d, rq)
<1>1. /\ d.dropFrameCount \in Nat /\ d.requestQueue \in Seq(Requests)
  BY DEF DataType
<1>2. ASSUME NEW s \in External, Completes(d, rq) \/ Drops(d),
             NEW n, n = c.dropFrameCount, NEW q, q = c.requestQueue,
             c.state = "Idle",
             InOrder(d.dropFrameCount, d.requestQueue, 1, Chain(st, h, s))
               => InOrder(n, q, 0, Chain(st, h, s))
      PROVE  StreamKept(c, o, s, st[s].available, Chain(st, h, s))
  <2> DEFINE a == st[s].available
             x == Chain(st, h, s)
  <2>1. StreamKept(d, o, s, a, x)
    BY DEF Kept
  <2>2. Working(d) /\ ~Working(c) /\ o["Input"] = 0 /\ o["Output0"] = 0
    BY <1>2 DEF Working, Completes, Drops
  <2>3. Had(d, o, s) = 1 /\ Had(c, o, s) = 0
    BY <2>2 DEF Had, IspOf
  <2> HIDE DEF a, x, c
  <2> QED
    BY <1>2, <2>1, <2>3 DEF StreamKept, a, x
<1>3. CASE Completes(d, rq)
  <2>1. d.dropFrameCount = 0 /\ d.requestQueue # << >>
    BY <1>3 DEF Completes, Working
  <2>2. c = [d EXCEPT !.state = "Idle", !.requestQueue = Tail(@)]
    BY <1>3 DEF CheckedData
  <2>3. /\ c.state = "Idle" /\ c.requestQueue = Tail(d.requestQueue)
        /\ c.dropFrameCount = 0
    BY <2>1, <2>2 DEF DataType
  <2> HIDE DEF c
  <2>4. ASSUME NEW s \in External
        PROVE  StreamKept(c, o, s, st[s].available, Chain(st, h, s))
    <3>1. InOrder(0, d.requestQueue, 1, Chain(st, h, s))
            => InOrder(0, Tail(d.requestQueue), 0, Chain(st, h, s))
      BY <1>1, <2>1, OrderCompleted
    <3> QED
      BY <1>2, <1>3, <2>1, <2>3, <3>1
  <2>5. ~Working(c)
    BY <2>3 DEF Working
  <2> QED
    BY <2>4, <2>5 DEF Kept, Awaited, c
<1>4. CASE ~Completes(d, rq) /\ Drops(d)
  <2>1. d.dropFrameCount # 0
    BY <1>4 DEF Drops
  <2>2. c = [d EXCEPT !.state = "Idle", !.dropFrameCount = @ - 1]
    BY <1>4 DEF CheckedData
  <2>3. /\ c.state = "Idle" /\ c.requestQueue = d.requestQueue
        /\ c.dropFrameCount = d.dropFrameCount - 1
    BY <2>1, <2>2 DEF DataType
  <2> HIDE DEF c
  <2>4. ASSUME NEW s \in External
        PROVE  StreamKept(c, o, s, st[s].available, Chain(st, h, s))
    <3>1. InOrder(d.dropFrameCount, d.requestQueue, 1, Chain(st, h, s))
            => InOrder(d.dropFrameCount - 1, d.requestQueue, 0, Chain(st, h, s))
      BY <1>1, <2>1, OrderDropped
    <3> QED
      BY <1>2, <1>4, <2>3, <3>1
  <2>5. ~Working(c)
    BY <2>3 DEF Working
  <2> QED
    BY <2>4, <2>5 DEF Kept, Awaited, c
<1>5. CASE ~Completes(d, rq) /\ ~Drops(d)
  BY <1>5 DEF CheckedData, CheckedRequests
<1> QED
  BY <1>3, <1>4, <1>5

\* The buffers handleState sends to the IPA stay where they are in the chains.
LEMMA RanAhead ==
    ASSUME NEW d \in DataType, CanRun(d), NEW j \in Seq(Frames), NEW f,
           j = << >> => "Input" \notin f, NEW n \in [Streams -> Seq(Frames)]
    PROVE  Ahead(TryRunPipeline(d), <<IspPrepare(d)>>, << >>, j, f, n)
             = Ahead(d, << >>, << >>, j, f, n)
<1> DEFINE bq == d.bayerQueue
           eq == d.embeddedQueue
           e == TryRunPipeline(d)
           t == <<IspPrepare(d)>>
<1>1. /\ bq \in Seq(Frames) /\ eq \in Seq(Frames) /\ bq # << >> /\ eq # << >>
  BY DEF DataType, CanRun
<1>2. e.bayerQueue = Tail(bq) /\ e.embeddedQueue = Tail(eq)
  BY DEF DataType, TryRunPipeline
<1>3. Head(eq) \in Frames /\ Head(bq) \in Frames
  BY <1>1, Taken
<1>4. t # << >> /\ t[1] = [type |-> "signalIspPrepare", bayer |-> Head(bq),
                           embedded |-> Head(eq)]
  BY DEF IspPrepare
<1>5. Head(eq) # Null
  BY <1>3, RPiAssumption DEF RPiAssumption, Frames, Buffers
<1>6. /\ Sending(t, << >>) = <<Head(bq).buf>> /\ Sending(<< >>, << >>) = << >>
      /\ Reading(t, << >>) = <<Head(eq).buf>> /\ Reading(<< >>, << >>) = << >>
  <2> DEFINE x == Head(bq)
             y == Head(eq)
  <2>1. t[1] = [type |-> "signalIspPrepare", bayer |-> x, embedded |-> y] /\ y # Null
        /\ t # << >>
    BY <1>4, <1>5
  <2> HIDE DEF x, y, t
  <2>2. t[1].type = "signalIspPrepare" /\ t[1].bayer = x /\ t[1].embedded = y
    BY <2>1
  <2>3. Sending(t, << >>) = <<x.buf>> /\ Sending(<< >>, << >>) = << >>
    BY <2>1, <2>2 DEF Sending
  <2>4. Reading(t, << >>) = <<y.buf>> /\ Reading(<< >>, << >>) = << >>
    BY <2>1, <2>2 DEF Reading, EmbeddedFirst
  <2> QED
    BY <2>3, <2>4 DEF x, y
<1> DEFINE a == Bufs(n["Input"])
           b == Bufs(Unread(j, f))
           p == Bufs(bq)
           q == Bufs(n["Image"])
           v == Bufs(eq)
           w == Bufs(n["Embedded"])
           z == Bufs(n["Output0"])
<1>7. /\ p \in Seq(Slots) /\ q \in Seq(Slots) /\ v \in Seq(Slots) /\ w \in Seq(Slots)
  BY <1>1, BufsType DEF Streams, IspStreams, IspOutputs
<1>8. /\ p # << >> /\ Bufs(Tail(bq)) = Tail(p) /\ Head(p) = Head(bq).buf
      /\ v # << >> /\ Bufs(Tail(eq)) = Tail(v) /\ Head(v) = Head(eq).buf
  BY <1>1, BufsMoves
<1>9. Ahead(e, t, << >>, j, f, n)
        = [Image |-> Parts5(a, b, <<Head(p)>>, Tail(p), q),
           Embedded |-> Parts3(<<Head(v)>>, Tail(v), w), Output0 |-> z]
  BY <1>2, <1>6, <1>8 DEF Ahead
<1>10. Ahead(d, << >>, << >>, j, f, n)
         = [Image |-> Parts5(a, b, << >>, p, q),
            Embedded |-> Parts3(<< >>, v, w), Output0 |-> z]
  BY <1>6 DEF Ahead
<1> HIDE DEF a, b, p, q, v, w, z, t, e, bq, eq
<1>11. ASSUME NEW x \in Seq(Slots), x # << >>, NEW y \in Seq(Slots)
       PROVE  <<Head(x)>> \o (Tail(x) \o y) = << >> \o (x \o y)
  <2>1. << >> \in Seq(Slots) /\ Append(<< >>, Head(x)) = <<Head(x)>>
    OBVIOUS
  <2> QED
    BY <1>11, <2>1, MovedIn
<1>12. /\ Parts3(<<Head(p)>>, Tail(p), q) = Parts3(<< >>, p, q)
       /\ Parts3(<<Head(v)>>, Tail(v), w) = Parts3(<< >>, v, w)
  BY <1>7, <1>8, <1>11 DEF Parts3
<1>13. Ahead(e, t, << >>, j, f, n) = Ahead(d, << >>, << >>, j, f, n)
  BY <1>9, <1>10, <1>12 DEF Parts5
<1> QED
  BY <1>13 DEF e, t

\* tryRunPipeline moves an image and its embedded data on to the IPA.
LEMMA RanKept ==
    ASSUME NEW d \in DataType, CanRun(d), NEW rq, NEW o, NEW o2, NEW st, NEW h,
           Kept(d, rq, o, st, h),
           \A s \in {"Input", "Output0"} : o2[s] = 1
    PROVE  Kept(TryRunPipeline(d), rq, o2, st, h)
<1> DEFINE e == TryRunPipeline(d)
<1>1. /\ e.dropFrameCount = d.dropFrameCount /\ e.requestQueue = d.requestQueue
      /\ ~Working(d)
  BY DEF TryRunPipeline, CanRun, DataType, Working
<1> HIDE DEF e
<1>2. \A s \in External : o2[IspOf(s)] = 1
  BY DEF IspOf
<1>3. \A s \in External : Had(e, o2, s) = 0 /\ Had(d, o, s) = 0
  BY <1>1, <1>2 DEF Had
<1>4. ASSUME NEW s \in External
      PROVE  StreamKept(e, o2, s, st[s].available, Chain(st, h, s))
  <2>1. StreamKept(d, o, s, st[s].available, Chain(st, h, s))
    BY DEF Kept
  <2> QED
    BY <1>1, <1>3, <2>1 DEF StreamKept
<1>5. Awaited(e, rq, o2)
  BY <1>2 DEF Awaited, Requested, External
<1> QED
  BY <1>4, <1>5 DEF Kept, e
\* Every handler ends with both: what it leaves in the chains is what it found.
LEMMA HandledKept ==
    ASSUME PipelineInv', FramesInv',
           NEW d \in DataType, NEW rq \in [Requests -> RequestType],
           NEW t \in Seq(IpaMessages), HandleState(d, rq, t), d.state # "Stopped",
           d.state # "Busy" => t = << >> /\ messages' = << >>,
           Working(d) => d.requestQueue # << >>,
           NEW o, o = Owed(t, messages', jobs', finished', done'),
           NEW h, h = Ahead(d, t, messages', jobs', finished', done'),
           Kept(d, rq, o, stream', h),
           \A s \in External : Chain(stream', h, s) \in Seq(Slots)
    PROVE  PoolInv'
<1> DEFINE c == CheckedData(d, rq)
           crq == CheckedRequests(d, rq)
           m1 == messages'
           j1 == jobs'
           f1 == finished'
           n1 == done'
           s1 == stream'
           t1 == toIpa'
           d1 == data'
           o1 == Owed(t1, m1, j1, f1, n1)
<1>1. /\ d1 = TryRunPipeline(c) /\ request' = crq
      /\ t1 = IF CanRun(c) THEN Append(t, IspPrepare(c)) ELSE t
  BY DEF HandleState
<1>2. /\ j1 \in Seq(Frames) /\ f1 \in SUBSET IspStreams /\ n1 \in [Streams -> Seq(Frames)]
      /\ (j1 = << >> => f1 = {})
  BY DEF PipelineInv, Types, OneFlight, OneJob
<1>3. Paid(d1, o1)
  BY DEF FramesInv, Sound
<1>4. /\ c \in DataType
      /\ c.state # d.state => d.state = "IpaComplete" /\ c.state = "Idle"
      /\ c.state = d.state => c = d
  BY CheckedType DEF Working
<1>5. c.bayerQueue = d.bayerQueue /\ c.embeddedQueue = d.embeddedQueue
  BY DEF CheckedData, DataType
<1>6. /\ Kept(d, rq, o, s1, h) /\ o = Owed(t, m1, j1, f1, n1)
      /\ h = Ahead(d, t, m1, j1, f1, n1)
      /\ \A s \in External : Chain(s1, h, s) \in Seq(Slots)
      /\ d.state # "Busy" => t = << >> /\ m1 = << >>
  OBVIOUS
<1>7. PoolInv' <=> (d1.state # "Stopped" =>
                      Kept(d1, crq, o1, s1, Ahead(d1, t1, m1, j1, f1, n1)))
  BY <1>1 DEF PoolInv, OwedNow, AheadNow
<1> HIDE DEF c, crq, m1, j1, f1, n1, s1, t1, d1
<1>8. Ahead(c, t, m1, j1, f1, n1) = h
  BY <1>5, <1>6 DEF Ahead
<1>9. \A s \in {"Input", "Output0"} :
        /\ o[s] = ToSend(t, m1) + InIsp(j1, f1, s) + Len(n1[s])
        /\ o1[s] = ToSend(t1, m1) + InIsp(j1, f1, s) + Len(n1[s])
        /\ InIsp(j1, f1, s) \in Nat /\ Len(n1[s]) \in Nat
  <2>1. \A s \in {"Input", "Output0"} : s \in IspStreams
    BY DEF IspStreams, IspOutputs
  <2> QED
    BY <1>2, <1>6, <2>1, OwedSum, OwedParts
<1>10. CASE CanRun(c)
  <2>1. c.state = "Idle" /\ t = << >> /\ m1 = << >>
    BY <1>4, <1>6, <1>10 DEF CanRun
  <2>2. t1 = <<IspPrepare(c)>>
    BY <1>1, <1>10, <2>1
  <2>3. ToSend(t1, m1) = 1 /\ ToSend(t, m1) = 0
    <3> DEFINE p == IspPrepare(c)
    <3>1. p.type = "signalIspPrepare"
      BY DEF IspPrepare
    <3> HIDE DEF p
    <3>2. 1 \in DOMAIN <<p>> /\ <<p>>[1] = p
      OBVIOUS
    <3>3. HasType(t1, "signalIspPrepare")
      BY <2>2, <3>1, <3>2 DEF HasType, p
    <3> QED
      BY <2>1, <3>3, NothingSent DEF ToSend, Upstream
  <2>4. \A s \in {"Input", "Output0"} : o1[s] = 1 /\ o[s] = 0
    <3>1. ASSUME NEW s \in {"Input", "Output0"} PROVE o1[s] = 1 /\ o[s] = 0
      <4> DEFINE a == InIsp(j1, f1, s)
                 b == Len(n1[s])
                 x == o1[s]
      <4>1. x <= 1
        BY <1>3 DEF Paid
      <4>2. a \in Nat /\ b \in Nat /\ x = 1 + a + b /\ o[s] = 0 + a + b
        BY <1>9, <2>3
      <4> HIDE DEF a, b, x
      <4>3. x = 1 /\ o[s] = 0
        BY <4>1, <4>2
      <4> QED
        BY <4>3 DEF x
    <3> QED
      BY <3>1
  <2> HIDE DEF o1
  <2>5. Kept(c, crq, o, s1, h)
    BY <1>6, <2>4, CheckedKept DEF c, crq
  <2>6. Kept(d1, crq, o1, s1, h)
    BY <1>1, <1>4, <1>10, <2>4, <2>5, RanKept
  <2>7. Ahead(d1, t1, m1, j1, f1, n1) = h
    <3>1. Ahead(TryRunPipeline(c), <<IspPrepare(c)>>, << >>, j1, f1, n1)
            = Ahead(c, << >>, << >>, j1, f1, n1)
      BY <1>2, <1>4, <1>10, RanAhead
    <3> QED
      BY <1>1, <1>8, <2>1, <2>2, <3>1
  <2> QED
    BY <1>7, <2>6, <2>7 DEF o1
<1>11. CASE ~CanRun(c)
  <2>1. d1 = c /\ t1 = t
    BY <1>1, <1>11 DEF TryRunPipeline
  <2>2. o1 = o
    BY <1>6, <2>1
  <2>3. c.state = "Idle" => o["Input"] = 0 /\ o["Output0"] = 0
    BY <1>3, <2>1, <2>2 DEF Paid
  <2> HIDE DEF o1
  <2>4. Kept(c, crq, o, s1, h)
    BY <1>6, <2>3, CheckedKept DEF c, crq
  <2> QED
    BY <1>7, <1>8, <2>1, <2>2, <2>4 DEF o1
<1> QED
  BY <1>10, <1>11
-----------------------------------------------------------------------------
(* The steps of the application, the IPA, the sensor and the ISP.           *)

\* What the invariant says of one stream.
LEMMA KeptNow ==
    ASSUME PoolInv, data.state # "Stopped", NEW s \in External
    PROVE  /\ StreamKept(data, OwedNow, s, stream[s].available,
                         Chain(stream, AheadNow, s))
           /\ Pooled(stream[s].available, Chain(stream, AheadNow, s))
           /\ s \in Requested =>
                InOrder(data.dropFrameCount, data.requestQueue,
                        Had(data, OwedNow, s), Chain(stream, AheadNow, s))
           /\ s = "Embedded" => OwnOnly(Chain(stream, AheadNow, s))
           /\ Awaited(data, request, OwedNow)
BY DEF PoolInv, Kept, StreamKept

\* Streams whose pools and chains are as they were.
LEMMA SameKept ==
    ASSUME NEW d, NEW rq, NEW rq2, NEW o, NEW st, NEW st2, NEW h, NEW h2,
           Kept(d, rq, o, st, h),
           \A s \in External : /\ st2[s].available = st[s].available
                               /\ Chain(st2, h2, s) = Chain(st, h, s),
           Awaited(d, rq2, o)
    PROVE  Kept(d, rq2, o, st2, h2)
BY DEF Kept

\* A step that only moves buffers along their chains.
LEMMA QuietStep ==
    ASSUME PoolInv, data' = data, request' = request, OwedNow' = OwedNow,
           \A s \in External :
             /\ stream'[s].available = stream[s].available
             /\ Chain(stream', AheadNow', s) = Chain(stream, AheadNow, s)
    PROVE  PoolInv'
<1> SUFFICES ASSUME data.state # "Stopped"
             PROVE  Kept(data, request, OwedNow, stream', AheadNow')
  BY DEF PoolInv
<1>1. Kept(data, request, OwedNow, stream, AheadNow)
  BY DEF PoolInv
<1>2. Awaited(data, request, OwedNow)
  BY <1>1 DEF Kept
<1> DEFINE st2 == stream'
           h2 == AheadNow'
<1>3. \A s \in External : /\ st2[s].available = stream[s].available
                          /\ Chain(st2, h2, s) = Chain(stream, AheadNow, s)
  OBVIOUS
<1> HIDE DEF st2, h2
<1>4. Kept(data, request, OwedNow, st2, h2)
  BY <1>1, <1>2, <1>3, SameKept
<1> QED
  BY <1>4 DEF st2, h2

\* A start gives every external stream buffers for the frames to drop, and no
\* request waits yet.
LEMMA PoolStart ==
    ASSUME PipelineInv, FramesInv, Start PROVE PoolInv'
<1>1. PICK drop \in DropCounts :
        /\ stream' = [s \in Queued |-> StartedStream(s, drop)]
        /\ data' = [StoppedData EXCEPT !.state = "Idle", !.dropFrameCount = drop]
  BY DEF Start
<1>2. data.state = "Stopped" /\ UNCHANGED <<jobs, finished, done, messages, toIpa>>
  BY DEF Start
<1>3. jobs = << >> /\ finished = {} /\ \A s \in Streams : done[s] = << >>
  BY <1>2, FramesParts DEF Resting
<1>4. toIpa = << >> /\ messages = << >>
  BY <1>2, ContextNow DEF Context
<1>5. /\ data'.state = "Idle" /\ data'.dropFrameCount = drop
      /\ data'.requestQueue = << >> /\ data'.bayerQueue = << >>
      /\ data'.embeddedQueue = << >>
  BY <1>1 DEF StoppedData
<1>6. drop \in Nat /\ BufferCount \in Nat \ {0} /\ Internal # Null
  BY RPiAssumption DEF RPiAssumption
<1> DEFINE now == IF drop < BufferCount THEN drop ELSE BufferCount
           a == Copies(BufferCount - now)
           p == Copies(now)
           w == [i \in 1 .. drop - now |-> Null]
           c == p \o w
<1>7. now \in Nat /\ BufferCount - now \in Nat /\ drop - now \in Nat
      /\ (drop - now) + now = drop
  BY <1>6
<1>8. ASSUME NEW s \in External
      PROVE  stream'[s].available = a /\ Feed(stream'[s]) = c
  <2>1. stream'[s] = StartedStream(s, drop)
    BY <1>1 DEF External, Queued, Streams, IspStreams, IspOutputs
  <2>2. stream'[s] = [available |-> a, waiting |-> w, device |-> p]
    BY <2>1 DEF StartedStream
  <2> HIDE DEF a, w, p
  <2> QED
    BY <2>2 DEF Feed
<1> HIDE DEF now
<1>9. /\ a \in Seq(Slots) /\ Len(a) = BufferCount - now
      /\ \A i \in DOMAIN a : a[i] = Internal
      /\ p \in Seq(Slots) /\ Len(p) = now /\ \A i \in 1 .. now : p[i] = Internal
      /\ w \in Seq(Slots) /\ Len(w) = drop - now
      /\ \A i \in 1 .. drop - now : w[i] = Null
  BY <1>7 DEF Copies, Slots, Buffers
<1> HIDE DEF a, p, w
<1>10. /\ c \in Seq(Slots) /\ Len(c) = drop
       /\ \A i \in 1 .. Len(c) : c[i] \in {Internal, Null}
  <2>1. /\ c \in Seq(Slots) /\ Len(c) = Len(p) + Len(w)
        /\ \A i \in 1 .. Len(p) : c[i] = p[i]
        /\ \A i \in 1 .. Len(w) : c[i + Len(p)] = w[i]
        /\ \A i \in 1 .. Len(p) + Len(w) :
             i \in 1 .. Len(p) \/ i - Len(p) \in 1 .. Len(w)
    <3>1. p \in Seq(Slots) /\ w \in Seq(Slots)
      BY <1>9
    <3> QED
      BY <3>1, Joined
  <2> HIDE DEF c
  <2>2. Len(c) = drop
    BY <1>7, <1>9, <2>1
  <2>3. ASSUME NEW i \in 1 .. Len(c) PROVE c[i] \in {Internal, Null}
    <3>1. CASE i \in 1 .. Len(p)
      BY <1>9, <2>1, <3>1
    <3>2. CASE i - Len(p) \in 1 .. Len(w)
      <4> DEFINE x == i - Len(p)
      <4>1. x \in 1 .. Len(w) /\ x + Len(p) = i
        BY <1>7, <1>9, <3>2
      <4> HIDE DEF x
      <4>2. c[i] = w[x]
        BY <2>1, <4>1
      <4> QED
        BY <1>9, <4>1, <4>2
    <3> QED
      BY <2>1, <3>1, <3>2
  <2> QED
    BY <2>1, <2>2, <2>3
<1>11. Count(c, Internal) = now
  <2>1. Count(c, Internal) = Count(p, Internal) + Count(w, Internal)
    BY <1>9, CountJoined
  <2>2. DOMAIN p = 1 .. now /\ DOMAIN w = 1 .. drop - now
    BY <1>9
  <2>3. Count(p, Internal) = now
    BY <1>9, <2>2, Counted
  <2>4. Count(w, Internal) = 0
    BY <1>6, <1>9, <2>2, Counted
  <2> QED
    BY <1>7, <2>1, <2>3, <2>4
<1>12. \A s \in External : AheadNow'[s] = << >>
  <2>1. \A s \in Streams : Bufs(done'[s]) = << >>
    BY <1>2, <1>3 DEF Bufs
  <2>2. /\ Bufs(Unread(jobs', finished')) = << >>
        /\ Sending(toIpa', messages') = << >> /\ Reading(toIpa', messages') = << >>
        /\ Bufs(data'.bayerQueue) = << >> /\ Bufs(data'.embeddedQueue) = << >>
    BY <1>2, <1>3, <1>4, <1>5 DEF Bufs, Unread, Sending, Reading, EmbeddedFirst
  <2>3. << >> \o << >> = << >>
    OBVIOUS
  <2>4. AheadNow' = [Image |-> Parts5(<< >>, << >>, << >>, << >>, << >>),
                     Embedded |-> Parts3(<< >>, << >>, << >>), Output0 |-> << >>]
    BY <2>1, <2>2 DEF AheadNow, Ahead, Streams, IspStreams, IspOutputs
  <2>5. AheadNow' = [Image |-> << >>, Embedded |-> << >>, Output0 |-> << >>]
    BY <2>3, <2>4 DEF Parts3, Parts5
  <2> QED
    BY <2>5 DEF External
<1>13. ASSUME NEW s \in External
       PROVE  StreamKept(data', OwedNow', s, stream'[s].available,
                         Chain(stream', AheadNow', s))
  <2>1. Chain(stream', AheadNow', s) = << >> \o c
    BY <1>8, <1>12 DEF Chain
  <2> HIDE DEF c
  <2>2. Chain(stream', AheadNow', s) = c
    BY <1>10, <2>1
  <2>3. Pooled(a, c)
    BY <1>6, <1>7, <1>9, <1>11 DEF Pooled
  <2>4. Had(data', OwedNow', s) = 0
    BY <1>5 DEF Had, Working
  <2>5. InOrder(drop, << >>, 0, c)
    <3>1. Len(<< >>) = 0
      OBVIOUS
    <3> QED
      BY <1>6, <1>10, <3>1 DEF InOrder
  <2>6. OwnOnly(c)
    BY <1>10 DEF OwnOnly
  <2> QED
    BY <1>5, <1>8, <2>2, <2>3, <2>4, <2>5, <2>6 DEF StreamKept
<1>14. Awaited(data', request', OwedNow')
  BY <1>5 DEF Awaited, Working
<1> QED
  BY <1>13, <1>14 DEF PoolInv, Kept

\* A request the application queues is not the first of the handler's.
LEMMA PoolQueueRequest ==
    ASSUME PipelineInv, FramesInv, PoolInv, NEW r \in Requests, QueueRequest(r)
    PROVE  PoolInv'
<1>1. /\ request[r].status # "queued"
      /\ request' = [request EXCEPT ![r] =
                       [FreshRequest EXCEPT !.status = "queued", !.pending = Requested]]
      /\ UNCHANGED <<data, stream, jobs, finished, done, messages, toIpa>>
  BY DEF QueueRequest
<1>2. data' = data /\ stream' = stream /\ OwedNow' = OwedNow /\ AheadNow' = AheadNow
  BY <1>1 DEF OwedNow, AheadNow
<1> SUFFICES ASSUME data.state # "Stopped"
             PROVE  Kept(data, request', OwedNow, stream, AheadNow)
  BY <1>2 DEF PoolInv
<1>3. Awaited(data, request', OwedNow)
  <2>1. ASSUME Working(data)
        PROVE  request'[Head(data.requestQueue)] = request[Head(data.requestQueue)]
    <3>1. data.requestQueue # << >>
      BY <2>1, ContextNow DEF Context
    <3>2. request[Head(data.requestQueue)].status = "queued"
      BY <3>1, LineNow, FramesParts DEF Waiting
    <3> QED
      BY <1>1, <3>2
  <2>2. Awaited(data, request, OwedNow)
    BY DEF PoolInv, Kept
  <2> QED
    BY <2>1, <2>2 DEF Awaited
<1>4. Kept(data, request, OwedNow, stream, AheadNow)
  BY DEF PoolInv
<1> DEFINE rq2 == request'
<1>5. Awaited(data, rq2, OwedNow)
  BY <1>3
<1> HIDE DEF rq2
<1>6. Kept(data, rq2, OwedNow, stream, AheadNow)
  BY <1>4, <1>5, SameKept
<1> QED
  BY <1>6 DEF rq2

\* The IPA's thread only hands on what it was given.
LEMMA IpaPool ==
    ASSUME PoolInv, UNCHANGED <<request, data, stream, jobs, finished, done>>,
           OwedNow' = OwedNow,
           Sending(toIpa', messages') = Sending(toIpa, messages),
           Reading(toIpa', messages') = Reading(toIpa, messages)
    PROVE  PoolInv'
<1>1. AheadNow' = AheadNow
  BY DEF AheadNow, Ahead
<1> QED
  BY <1>1, QuietStep

\* The IPA tells the handler that it has read the embedded data.
LEMMA PoolIpaEmbedded ==
    ASSUME PipelineInv, FramesInv, PoolInv, IpaEmbedded PROVE PoolInv'
<1> DEFINE h == toIpa[1]
           g == toIpa'[1]
           e == [type |-> "embeddedComplete", embedded |-> h.embedded]
<1>1. /\ toIpa # << >> /\ Len(toIpa) = 1 /\ toIpa \in Seq(IpaMessages)
      /\ h.type = "signalIspPrepare" /\ h.embedded # Null
      /\ messages' = Append(messages, e)
      /\ toIpa' = [toIpa EXCEPT ![1].embedded = Null]
      /\ UNCHANGED <<request, data, stream, jobs, finished, done>>
  BY IpaMessageTypes, Before DEF IpaEmbedded, Reply
<1>2. messages = << >>
  <2>1. messages = << >> \/ EmbeddedFirst(messages)
    BY <1>1, IpaMessageTypes
  <2>2. OneJob(data.state, toIpa, messages, jobs, finished, done["Stats"])
    BY Before
  <2> QED
    BY <1>1, <2>1, <2>2 DEF OneJob
<1>3. h \in Prepares /\ DOMAIN toIpa = {1}
  BY <1>1 DEF IpaMessages, Prepares
<1>4. /\ toIpa' # << >> /\ g.type = "signalIspPrepare" /\ g.bayer = h.bayer
  <2>1. toIpa' = [toIpa EXCEPT ![1] = [h EXCEPT !.embedded = Null]]
    BY <1>1
  <2>2. DOMAIN toIpa' = {1} /\ g = [h EXCEPT !.embedded = Null]
    BY <1>3, <2>1
  <2>3. toIpa' # << >>
    BY <2>2
  <2> HIDE DEF h, g
  <2> QED
    BY <1>3, <2>2, <2>3 DEF Prepares
<1>5. messages' = <<e>>
  BY <1>1, <1>2
<1>6. /\ messages' # << >> /\ Len(messages') = 1 /\ messages'[1] = e
  BY <1>5
<1>7. e.type = "embeddedComplete" /\ e.embedded = h.embedded
  OBVIOUS
<1> HIDE DEF h, g, e
<1>8. Sending(toIpa', messages') = Sending(toIpa, messages)
  <2>1. Sending(toIpa', messages') = <<g.bayer.buf>>
    BY <1>4, <1>6, <1>7 DEF Sending, g
  <2>2. Sending(toIpa, messages) = <<h.bayer.buf>>
    BY <1>1, <1>2 DEF Sending, h
  <2> QED
    BY <1>4, <2>1, <2>2
<1>9. Reading(toIpa', messages') = Reading(toIpa, messages)
  <2>1. Reading(toIpa', messages') = <<h.embedded.buf>>
    BY <1>6, <1>7 DEF Reading, EmbeddedFirst
  <2>2. Reading(toIpa, messages) = <<h.embedded.buf>>
    BY <1>1, <1>2 DEF Reading, EmbeddedFirst, h
  <2> QED
    BY <2>1, <2>2
<1> QED
  BY <1>1, <1>8, <1>9, FramesIpaEmbedded, IpaPool

\* And to run the ISP on the image.
LEMMA PoolIpaPrepared ==
    ASSUME PipelineInv, FramesInv, PoolInv, IpaPrepared PROVE PoolInv'
<1> DEFINE h == toIpa[1]
           e == [type |-> "runIsp", bayer |-> h.bayer]
<1>1. /\ toIpa # << >> /\ Len(toIpa) = 1 /\ toIpa \in Seq(IpaMessages)
      /\ h.type = "signalIspPrepare" /\ h.embedded = Null
      /\ messages' = Append(messages, e) /\ toIpa' = Tail(toIpa)
      /\ messages \in Seq(HandlerMessages)
      /\ UNCHANGED <<request, data, stream, jobs, finished, done>>
  BY IpaMessageTypes, Before DEF IpaPrepared, Reply
<1>2. messages = << >> \/ (EmbeddedFirst(messages) /\ Len(messages) = 1)
  BY <1>1, Before, FlightParts
<1>3. toIpa' = << >>
  BY <1>1
<1>4. /\ messages' # << >> /\ messages'[Len(messages')] = e
      /\ messages = << >> => messages'[1] = e
      /\ messages # << >> => messages'[1] = messages[1]
  <2> HIDE DEF e
  <2> QED
    BY <1>1
<1>5. e.type = "runIsp" /\ e.bayer = h.bayer
  OBVIOUS
<1> HIDE DEF h, e
<1>6. Sending(toIpa', messages') = Sending(toIpa, messages)
  <2>1. Sending(toIpa', messages') = <<h.bayer.buf>>
    BY <1>4, <1>5 DEF Sending
  <2>2. Sending(toIpa, messages) = <<h.bayer.buf>>
    BY <1>1, <1>2 DEF Sending, EmbeddedFirst, h
  <2> QED
    BY <2>1, <2>2
<1>7. Reading(toIpa', messages') = Reading(toIpa, messages)
  BY <1>1, <1>2, <1>3, <1>4, <1>5 DEF Reading, EmbeddedFirst, h
<1> QED
  BY <1>1, <1>6, <1>7, FramesIpaPrepared, IpaPool

\* And that it has the metadata.
LEMMA PoolIpaStatReady ==
    ASSUME PipelineInv, FramesInv, PoolInv, IpaStatReady PROVE PoolInv'
<1> DEFINE h == toIpa[1]
           e == [type |-> "statsMetadataComplete", metadata |-> ipaFrame]
<1>1. /\ toIpa # << >> /\ Len(toIpa) = 1 /\ toIpa \in Seq(IpaMessages)
      /\ h.type = "signalStatReady"
      /\ messages' = Append(messages, e) /\ toIpa' = Tail(toIpa)
      /\ UNCHANGED <<request, data, stream, jobs, finished, done>>
  BY IpaMessageTypes, Before DEF IpaStatReady, Reply
<1>2. messages = << >>
  <2>1. messages = << >> \/ EmbeddedFirst(messages)
    BY <1>1, IpaMessageTypes
  <2>2. OneJob(data.state, toIpa, messages, jobs, finished, done["Stats"])
    BY Before
  <2> QED
    BY <1>1, <2>1, <2>2 DEF OneJob
<1>3. toIpa' = << >>
  BY <1>1
<1>4. messages' # << >> /\ Len(messages') = 1 /\ messages'[1] = e
  BY <1>1, <1>2
<1>5. e.type = "statsMetadataComplete"
  OBVIOUS
<1> HIDE DEF h, e
<1>6. Sending(toIpa', messages') = << >> /\ Sending(toIpa, messages) = << >>
  BY <1>1, <1>2, <1>3, <1>4, <1>5 DEF Sending, h
<1>7. Reading(toIpa', messages') = << >> /\ Reading(toIpa, messages) = << >>
  BY <1>1, <1>2, <1>3, <1>4, <1>5 DEF Reading, EmbeddedFirst, h
<1> QED
  BY <1>1, <1>6, <1>7, FramesIpaStatReady, IpaPool
\* A device that fills its first buffer moves it ahead of the stream.
LEMMA DeviceTakes ==
    ASSUME NEW st \in StreamType, st.device # << >>, NEW h \in Seq(Slots),
           NEW st2, st2 = [st EXCEPT !.device = Tail(st.device)]
    PROVE  /\ st2.available = st.available /\ Head(st.device) \in Buffers
           /\ Both(Added(h, Head(st.device)), Feed(st2)) = Both(h, Feed(st))
<1> DEFINE av == st.available
           w == st.waiting
           dv == st.device
           dv2 == Tail(dv)
<1>1. w \in Seq(Slots) /\ dv \in Seq(Slots) /\ dv \in Seq(Buffers)
  BY DEF StreamType, Slots
<1>2. Feed(st) = dv \o w /\ dv # << >>
  BY DEF Feed
<1>3. st2.available = av /\ Feed(st2) = dv2 \o w
  <2>1. st = [available |-> av, waiting |-> w, device |-> dv]
    BY DEF StreamType
  <2>2. st2 = [st EXCEPT !.device = dv2]
    OBVIOUS
  <2> HIDE DEF av, w, dv, dv2
  <2>3. st2 = [available |-> av, waiting |-> w, device |-> dv2]
    BY <2>1, <2>2
  <2> QED
    BY <2>3 DEF Feed
<1> HIDE DEF av, w, dv, dv2
<1>4. Append(h, Head(dv)) \o (dv2 \o w) = h \o (dv \o w)
  BY <1>1, <1>2, MovedIn DEF dv2
<1>5. Head(dv) \in Buffers
  BY <1>1, <1>2, Taken
<1>6. Both(Added(h, Head(dv)), Feed(st2)) = Both(h, Feed(st))
  BY <1>2, <1>3, <1>4 DEF Both, Added
<1> QED
  BY <1>3, <1>5, <1>6 DEF av, dv

\* A buffer added at the end of the last of three parts, or of five.
LEMMA Postponed3 ==
    ASSUME NEW S, NEW a \in Seq(S), NEW b \in Seq(S), NEW q \in Seq(S), NEW x \in S
    PROVE  Parts3(a, b, Added(q, x)) = Added(Parts3(a, b, q), x)
<1>1. b \o q \in Seq(S)
  BY ConcatProperties
<1>3. b \o Append(q, x) = Append(b \o q, x)
  BY Postponed
<1>4. a \o Append(b \o q, x) = Append(a \o (b \o q), x)
  BY <1>1, Postponed
<1> QED
  BY <1>3, <1>4 DEF Parts3, Added

\* The same of five.
LEMMA Postponed5 ==
    ASSUME NEW S, NEW a \in Seq(S), NEW b \in Seq(S), NEW c \in Seq(S),
           NEW p \in Seq(S), NEW q \in Seq(S), NEW x \in S
    PROVE  Parts5(a, b, c, p, Added(q, x)) = Added(Parts5(a, b, c, p, q), x)
<1> DEFINE u == Parts3(c, p, q)
<1>1. Parts3(c, p, Added(q, x)) = Added(u, x)
  BY Postponed3
<1>2. u \in Seq(S)
  BY Parts3Type
<1> HIDE DEF u
<1>3. Parts3(a, b, Added(u, x)) = Added(Parts3(a, b, u), x)
  BY <1>2, Postponed3
<1>4. /\ Parts5(a, b, c, p, Added(q, x)) = Parts3(a, b, Added(u, x))
      /\ Parts5(a, b, c, p, q) = Parts3(a, b, u)
  BY <1>1 DEF Parts5, Parts3, u
<1> QED
  BY <1>3, <1>4

\* The first of a queue moves to the end of the one before it.
LEMMA MovedBoth ==
    ASSUME NEW S, NEW a \in Seq(S), NEW b \in Seq(S), b # << >>, NEW c \in Seq(S)
    PROVE  Both(Added(a, Head(b)), Both(Tail(b), c)) = Both(a, Both(b, c))
BY MovedIn DEF Both, Added

\* The first of the second of five parts moves to the first.
LEMMA MovedOn ==
    ASSUME NEW S, NEW a \in Seq(S), NEW b \in Seq(S), b # << >>, NEW c \in Seq(S),
           NEW p \in Seq(S), NEW q \in Seq(S)
    PROVE  Parts5(Added(a, Head(b)), Tail(b), c, p, q) = Parts5(a, b, c, p, q)
<1>1. Parts3(c, p, q) \in Seq(S)
  BY Parts3Type
<1>2. Both(Added(a, Head(b)), Both(Tail(b), Parts3(c, p, q)))
        = Both(a, Both(b, Parts3(c, p, q)))
  BY <1>1, MovedBoth
<1> QED
  BY <1>2 DEF Parts5, Both

\* An image more is a buffer more.
LEMMA BufsAdded ==
    ASSUME NEW q \in Seq(Frames), NEW e \in Frames
    PROVE  Bufs(Added(q, e)) = Added(Bufs(q), e.buf)
BY BufsMoves DEF Added

\* What a buffer more of a stream adds to what is ahead of it.
Placed(d, t, m, j, f, n) ==
    /\ d \in DataType /\ t \in Seq(IpaMessages) /\ m \in Seq(HandlerMessages)
    /\ j \in Seq(Frames) /\ (j = << >> => "Input" \notin f)
    /\ n \in [Streams -> Seq(Frames)]

Gets(n, n2, s, e) ==
    s \in External /\ e \in Frames /\ n2["Input"] = n["Input"]
    /\ n2[s] = Added(n[s], e)

\* A buffer the driver has finished is the last of what is ahead of its stream.
LEMMA AheadGets ==
    ASSUME NEW d, NEW t, NEW m, NEW j, NEW f, NEW n, NEW n2, NEW s, NEW e,
           Placed(d, t, m, j, f, n), Gets(n, n2, s, e)
    PROVE  Ahead(d, t, m, j, f, n2)[s] = Added(Ahead(d, t, m, j, f, n)[s], e.buf)
<1>0. /\ d \in DataType /\ t \in Seq(IpaMessages) /\ m \in Seq(HandlerMessages)
      /\ j \in Seq(Frames) /\ (j = << >> => "Input" \notin f)
      /\ n \in [Streams -> Seq(Frames)] /\ s \in External /\ e \in Frames
      /\ n2["Input"] = n["Input"] /\ n2[s] = Added(n[s], e)
  BY DEF Placed, Gets
<1>1. s \in Streams /\ "Input" \in Streams /\ e.buf \in Slots
  BY <1>0 DEF External, Streams, IspStreams, IspOutputs, Frames, Slots
<1>2. Bufs(n2[s]) = Added(Bufs(n[s]), e.buf)
  BY <1>0, <1>1, BufsAdded
<1>3. /\ Bufs(n["Input"]) \in Seq(Slots) /\ Bufs(n[s]) \in Seq(Slots)
      /\ Bufs(Unread(j, f)) \in Seq(Slots) /\ Sending(t, m) \in Seq(Slots)
      /\ Bufs(d.bayerQueue) \in Seq(Slots) /\ Reading(t, m) \in Seq(Slots)
      /\ Bufs(d.embeddedQueue) \in Seq(Slots)
  BY <1>0, <1>1, PartTypes
<1>4. CASE s = "Image"
  BY <1>0, <1>1, <1>2, <1>3, <1>4, AheadParts, Postponed5
<1>5. CASE s = "Embedded"
  BY <1>0, <1>1, <1>2, <1>3, <1>5, AheadParts, Postponed3
<1>6. CASE s = "Output0"
  BY <1>0, <1>1, <1>2, <1>3, <1>6, AheadParts
<1> QED
  BY <1>0, <1>4, <1>5, <1>6 DEF External

\* A stream whose parts are as they were.
LEMMA AheadSame ==
    ASSUME NEW d, NEW t, NEW m, NEW j, NEW f, NEW n, NEW n2, NEW j2, NEW f2,
           NEW s \in External, Unread(j2, f2) = Unread(j, f), n2[s] = n[s],
           s = "Image" => n2["Input"] = n["Input"]
    PROVE  Ahead(d, t, m, j2, f2, n2)[s] = Ahead(d, t, m, j, f, n)[s]
BY AheadParts DEF External

\* The sensor fills a buffer of the Unicam streams that have one.
LEMMA PoolSensorFrame ==
    ASSUME PipelineInv, FramesInv, PoolInv, SensorFrame PROVE PoolInv'
<1> DEFINE taking == {s \in {"Image", "Embedded"} : stream[s].device # << >>}
<1>1. /\ done' = [s \in Streams |-> IF s \in taking THEN Append(done[s], Filled(s))
                                                    ELSE done[s]]
      /\ stream' = [s \in Queued |-> IF s \in taking
                       THEN [stream[s] EXCEPT !.device = Tail(@)] ELSE stream[s]]
      /\ UNCHANGED <<request, data, jobs, finished, messages, toIpa>>
  BY DEF SensorFrame
<1>2. /\ data \in DataType /\ toIpa \in Seq(IpaMessages)
      /\ messages \in Seq(HandlerMessages) /\ jobs \in Seq(Frames)
      /\ (jobs = << >> => "Input" \notin finished) /\ done \in [Streams -> Seq(Frames)]
      /\ frame \in Nat
  BY ContextNow DEF Context, PipelineInv, Types
<1>3. ASSUME NEW s \in External
      PROVE  /\ stream'[s].available = stream[s].available
             /\ Chain(stream', AheadNow', s) = Chain(stream, AheadNow, s)
  <2> DEFINE n2 == done'
             st == stream[s]
             st2 == stream'[s]
             h == AheadNow[s]
             h2 == AheadNow'[s]
  <2>1. s \in Streams /\ s \in Queued /\ "Input" \in Streams /\ "Input" \notin taking
    BY DEF External, Queued, Streams, IspStreams, IspOutputs
  <2>2. n2["Input"] = done["Input"]
    BY <1>1, <2>1
  <2>3. h \in Seq(Slots) /\ st \in StreamType
    BY AheadNowType
  <2>4. AheadNow' = Ahead(data, toIpa, messages, jobs, finished, n2)
    BY <1>1 DEF AheadNow
  <2>5. CASE s \in taking
    <3> DEFINE e == Filled(s)
    <3>1. /\ st2 = [st EXCEPT !.device = Tail(@)] /\ n2[s] = Added(done[s], e)
          /\ st.device # << >>
      BY <1>1, <2>1, <2>5 DEF Added
    <3>2. /\ st2.available = st.available /\ Head(st.device) \in Buffers
          /\ Both(Added(h, Head(st.device)), Feed(st2)) = Both(h, Feed(st))
      <4> HIDE DEF st, st2, h
      <4> QED
        BY <2>3, <3>1, DeviceTakes
    <3>3. e \in Frames /\ e.buf = Head(st.device)
      BY <1>2, <3>2 DEF Filled, Frames
    <3> HIDE DEF e, n2, taking
    <3>4. h2 = Added(h, e.buf)
      <4>0. Gets(done, n2, s, e) /\ Placed(data, toIpa, messages, jobs, finished, done)
        BY <1>2, <2>2, <3>1, <3>3 DEF Gets, Placed
      <4>1. Ahead(data, toIpa, messages, jobs, finished, n2)[s]
              = Added(Ahead(data, toIpa, messages, jobs, finished, done)[s], e.buf)
        BY <4>0, AheadGets
      <4>2. h = Ahead(data, toIpa, messages, jobs, finished, done)[s]
        BY DEF AheadNow
      <4> QED
        BY <2>4, <4>1, <4>2
    <3> QED
      BY <3>2, <3>3, <3>4 DEF Chain, Both
  <2>6. CASE s \notin taking
    <3>1. st2 = st /\ n2[s] = done[s]
      BY <1>1, <2>1, <2>6
    <3> HIDE DEF n2, taking
    <3>2. h2 = h
      BY <2>2, <2>4, <3>1, AheadSame DEF AheadNow
    <3> QED
      BY <3>1, <3>2 DEF Chain
  <2> QED
    BY <2>5, <2>6
<1> QED
  BY <1>1, <1>3, FramesSensorFrame, QuietStep

\* The ISP gives back the first image it has not read.
LEMMA UnreadStep ==
    ASSUME PipelineInv, NEW s \in IspStreams, IspFinish(s)
    PROVE  /\ s # "Input" => Unread(jobs', finished') = Unread(jobs, finished)
           /\ s = "Input" => /\ Unread(jobs, finished) = jobs
                             /\ Unread(jobs', finished') = Tail(jobs)
<1>1. /\ s \notin finished
      /\ \/ finished \cup {s} = IspStreams /\ finished' = {} /\ jobs' = Tail(jobs)
         \/ finished' = finished \cup {s} /\ jobs' = jobs
  BY DEF IspFinish, JobStep
<1>2. "Input" \in IspStreams
  BY DEF IspStreams
<1>3. CASE finished \cup {s} = IspStreams /\ finished' = {} /\ jobs' = Tail(jobs)
  BY <1>1, <1>2, <1>3 DEF Unread
<1>4. CASE finished' = finished \cup {s} /\ jobs' = jobs
  BY <1>1, <1>4 DEF Unread
<1> QED
  BY <1>1, <1>3, <1>4

\* The ISP has filled a buffer of output 0, or is done with an image.
LEMMA PoolIspFinish ==
    ASSUME PipelineInv, FramesInv, PoolInv, NEW s \in IspStreams, IspFinish(s)
    PROVE  PoolInv'
<1> DEFINE b == [buf |-> IF s = "Input" THEN Head(jobs).buf ELSE Head(stream[s].device),
                 frame |-> Head(jobs).frame]
<1>1. /\ jobs # << >> /\ (s # "Input" => stream[s].device # << >>)
      /\ done' = [done EXCEPT ![s] = Append(@, b)]
      /\ stream' = IF s = "Input" THEN stream
                                  ELSE [stream EXCEPT ![s].device = Tail(@)]
      /\ UNCHANGED <<request, data, messages, toIpa>>
  BY DEF IspFinish
<1>2. /\ data \in DataType /\ toIpa \in Seq(IpaMessages)
      /\ messages \in Seq(HandlerMessages) /\ jobs \in Seq(Frames)
      /\ (jobs = << >> => "Input" \notin finished) /\ done \in [Streams -> Seq(Frames)]
      /\ stream \in [Queued -> StreamType] /\ s \in Streams
  BY ContextNow DEF Context, PipelineInv, Types, Streams
<1>3. Head(jobs) \in Frames /\ Tail(jobs) \in Seq(Frames)
  BY <1>1, <1>2, Taken
<1>4. /\ done'[s] = Append(done[s], b)
      /\ \A z \in Streams : z # s => done'[z] = done[z]
  BY <1>1, <1>2
<1>5. \A z \in External : z \in Streams /\ z \in Queued
  BY DEF External, Queued, Streams, IspStreams, IspOutputs
<1> DEFINE j2 == jobs'
           f2 == finished'
           n2 == done'
<1>6. AheadNow' = Ahead(data, toIpa, messages, j2, f2, n2)
  BY <1>1 DEF AheadNow
<1>7. CASE s = "Output0"
  <2>1. ASSUME NEW z \in External
        PROVE  /\ stream'[z].available = stream[z].available
               /\ Chain(stream', AheadNow', z) = Chain(stream, AheadNow, z)
    <3> DEFINE st == stream[z]
               st2 == stream'[z]
               h == AheadNow[z]
               h2 == AheadNow'[z]
    <3>1. h \in Seq(Slots) /\ st \in StreamType
      BY AheadNowType
    <3>2. Unread(j2, f2) = Unread(jobs, finished)
      BY <1>7, UnreadStep
    <3>3. n2["Input"] = done["Input"]
      BY <1>4, <1>7 DEF Streams, IspStreams
    <3>4. CASE z = s
      <4>1. st2 = [st EXCEPT !.device = Tail(@)] /\ st.device # << >>
        BY <1>1, <1>2, <1>5, <1>7, <3>4
      <4>2. /\ st2.available = st.available /\ Head(st.device) \in Buffers
            /\ Both(Added(h, Head(st.device)), Feed(st2)) = Both(h, Feed(st))
        <5> HIDE DEF st, st2, h
        <5> QED
          BY <3>1, <4>1, DeviceTakes
      <4>3. b \in Frames /\ b.buf = Head(st.device)
        BY <1>3, <1>7, <3>4, <4>2 DEF Frames
      <4>4. n2[z] = Added(done[z], b)
        BY <1>4, <3>4 DEF Added
      <4>5. h2 = Ahead(data, toIpa, messages, jobs, finished, n2)[z]
        <5>1. n2[z] = n2[z] /\ (z = "Image" => n2["Input"] = n2["Input"])
          OBVIOUS
        <5> HIDE DEF j2, f2, n2, b
        <5> QED
          BY <1>6, <3>2, <5>1, AheadSame
      <4> HIDE DEF b, n2, j2, f2
      <4>6. h2 = Added(h, b.buf)
        <5>0. /\ Gets(done, n2, z, b)
              /\ Placed(data, toIpa, messages, jobs, finished, done)
          BY <1>2, <3>3, <4>3, <4>4 DEF Gets, Placed
        <5>1. Ahead(data, toIpa, messages, jobs, finished, n2)[z]
                = Added(Ahead(data, toIpa, messages, jobs, finished, done)[z], b.buf)
          BY <5>0, AheadGets
        <5>2. h = Ahead(data, toIpa, messages, jobs, finished, done)[z]
          BY DEF AheadNow
        <5> QED
          BY <4>5, <5>1, <5>2
      <4> QED
        BY <4>2, <4>3, <4>6 DEF Chain, Both
    <3>5. CASE z # s
      <4>1. st2 = st /\ n2[z] = done[z]
        BY <1>1, <1>2, <1>4, <1>5, <1>7, <3>5
      <4> HIDE DEF b, n2, j2, f2
      <4>2. h2 = h
        BY <1>6, <3>2, <3>3, <4>1, AheadSame DEF AheadNow
      <4> QED
        BY <4>1, <4>2 DEF Chain
    <3> QED
      BY <3>4, <3>5
  <2> QED
    BY <1>1, <2>1, FramesIspFinish, QuietStep
<1>8. CASE s = "Input"
  <2>1. Unread(jobs, finished) = jobs /\ Unread(j2, f2) = Tail(jobs)
    BY <1>8, UnreadStep
  <2>2. b.buf = Head(jobs).buf /\ b \in Frames
    BY <1>3, <1>8 DEF Frames
  <2>3. /\ Bufs(n2["Input"]) = Append(Bufs(done["Input"]), Head(Bufs(jobs)))
        /\ Bufs(Tail(jobs)) = Tail(Bufs(jobs)) /\ Bufs(jobs) # << >>
    <3>1. done["Input"] \in Seq(Frames) /\ n2["Input"] = Append(done["Input"], b)
      BY <1>2, <1>4, <1>8
    <3> HIDE DEF b, n2
    <3> QED
      BY <1>1, <1>2, <2>2, <3>1, BufsMoves
  <2>4. ASSUME NEW z \in External PROVE AheadNow'[z] = AheadNow[z]
    <3>1. n2[z] = done[z]
      BY <1>4, <1>5, <1>8 DEF External
    <3>2. CASE z = "Image"
      <4> DEFINE a == Bufs(done["Input"])
                 g == Bufs(jobs)
                 c == Sending(toIpa, messages)
                 p == Bufs(data.bayerQueue)
                 q == Bufs(done["Image"])
      <4>1. AheadNow["Image"] = Parts5(a, g, c, p, q)
        BY <2>1, AheadParts DEF AheadNow
      <4>2. AheadNow'["Image"] = Parts5(Added(a, Head(g)), Tail(g), c, p, q)
        <5>1. /\ Bufs(Unread(j2, f2)) = Tail(g)
              /\ Bufs(n2["Input"]) = Added(a, Head(g)) /\ Bufs(n2["Image"]) = q
          BY <2>1, <2>3, <3>1, <3>2 DEF Added
        <5> HIDE DEF n2, j2, f2, b, a, g, c, p, q
        <5>2. AheadNow'["Image"] = Parts5(Bufs(n2["Input"]), Bufs(Unread(j2, f2)),
                Sending(toIpa, messages), Bufs(data.bayerQueue), Bufs(n2["Image"]))
          BY <1>6, AheadParts
        <5> QED
          BY <5>1, <5>2 DEF c, p
      <4>3. /\ a \in Seq(Slots) /\ g \in Seq(Slots) /\ c \in Seq(Slots)
            /\ p \in Seq(Slots) /\ q \in Seq(Slots) /\ g # << >>
        BY <1>2, <2>3, BufsType, PartTypes DEF Streams, IspStreams
      <4> HIDE DEF a, g, c, p, q
      <4>4. Parts5(Added(a, Head(g)), Tail(g), c, p, q) = Parts5(a, g, c, p, q)
        BY <4>3, MovedOn
      <4> QED
        BY <3>2, <4>1, <4>2, <4>4
    <3>3. CASE z # "Image"
      <4> HIDE DEF n2, j2, f2
      <4>1. /\ AheadNow'["Embedded"] = Parts3(Reading(toIpa, messages),
                 Bufs(data.embeddedQueue), Bufs(n2["Embedded"]))
            /\ AheadNow'["Output0"] = Bufs(n2["Output0"])
            /\ AheadNow["Embedded"] = Parts3(Reading(toIpa, messages),
                 Bufs(data.embeddedQueue), Bufs(done["Embedded"]))
            /\ AheadNow["Output0"] = Bufs(done["Output0"])
        BY <1>6, AheadParts DEF AheadNow
      <4> QED
        BY <3>1, <3>3, <4>1 DEF External
    <3> QED
      BY <3>2, <3>3
  <2>5. stream' = stream
    BY <1>1, <1>8
  <2>6. \A z \in External :
          /\ stream'[z].available = stream[z].available
          /\ Chain(stream', AheadNow', z) = Chain(stream, AheadNow, z)
    BY <2>4, <2>5 DEF Chain
  <2> QED
    BY <1>1, <2>6, FramesIspFinish, QuietStep
<1>9. CASE s \notin {"Input", "Output0"}
  <2>1. ASSUME NEW z \in External
        PROVE  /\ stream'[z].available = stream[z].available
               /\ Chain(stream', AheadNow', z) = Chain(stream, AheadNow, z)
    <3>1. z # s /\ "Input" # s /\ "Input" \in Streams
      BY <1>9 DEF External, IspStreams, IspOutputs, Streams
    <3>2. Unread(j2, f2) = Unread(jobs, finished)
      BY <1>9, UnreadStep
    <3>3. stream'[z] = stream[z] /\ n2[z] = done[z] /\ n2["Input"] = done["Input"]
      BY <1>1, <1>2, <1>4, <1>5, <3>1
    <3> HIDE DEF b, n2, j2, f2
    <3>4. AheadNow'[z] = AheadNow[z]
      BY <1>6, <3>2, <3>3, AheadSame DEF AheadNow
    <3> QED
      BY <3>3, <3>4 DEF Chain
  <2> QED
    BY <1>1, <2>1, FramesIspFinish, QuietStep
<1> QED
  BY <1>7, <1>8, <1>9
-----------------------------------------------------------------------------
(* The handler's steps.                                                     *)

\* A handler that leaves the streams kept, and calls handleState.
LEMMA HandledPool ==
    ASSUME PipelineInv', FramesInv',
           NEW d \in DataType, NEW rq \in [Requests -> RequestType],
           NEW t \in Seq(IpaMessages), HandleState(d, rq, t), d.state # "Stopped",
           d.state # "Busy" => t = << >> /\ messages' = << >>,
           Working(d) => d.requestQueue # << >>,
           Kept(d, rq, Owed(t, messages', jobs', finished', done'), stream',
                Ahead(d, t, messages', jobs', finished', done'))
    PROVE  PoolInv'
<1> DEFINE h == Ahead(d, t, messages', jobs', finished', done')
<1>1. /\ messages' \in Seq(HandlerMessages) /\ jobs' \in Seq(Frames)
      /\ (jobs' = << >> => finished' = {}) /\ done' \in [Streams -> Seq(Frames)]
      /\ stream' \in [Queued -> StreamType]
  BY DEF PipelineInv, Types, OneFlight, OneJob
<1>2. \A s \in External : h[s] \in Seq(Slots)
  <2> DEFINE m1 == messages'
             j1 == jobs'
             f1 == finished'
             n1 == done'
  <2>1. /\ m1 \in Seq(HandlerMessages) /\ j1 \in Seq(Frames)
        /\ (j1 = << >> => "Input" \notin f1) /\ n1 \in [Streams -> Seq(Frames)]
    BY <1>1
  <2> HIDE DEF m1, j1, f1, n1
  <2>2. \A s \in External : Ahead(d, t, m1, j1, f1, n1)[s] \in Seq(Slots)
    BY <2>1, AheadType
  <2> QED
    BY <2>2 DEF m1, j1, f1, n1
<1> HIDE DEF h
<1>3. ASSUME NEW s \in External PROVE Chain(stream', h, s) \in Seq(Slots)
  <2> DEFINE st == stream'[s]
  <2>1. st \in StreamType
    BY <1>1 DEF External, Queued, Streams, IspStreams, IspOutputs
  <2> HIDE DEF st
  <2>2. Feed(st) \in Seq(Slots)
    BY <2>1, FeedType
  <2>3. h[s] \o Feed(st) \in Seq(Slots)
    BY <1>2, <2>2, ConcatProperties
  <2> QED
    BY <2>3 DEF Chain, st
<1> QED
  BY <1>3, HandledKept DEF h

\* A step after which the first frame has what it had.
LEMMA StillKept ==
    ASSUME NEW d, NEW d2, NEW rq, NEW rq2, NEW o, NEW o2, NEW st, NEW st2, NEW h,
           NEW h2, Kept(d, rq, o, st, h),
           Working(d2) <=> Working(d), d2.dropFrameCount = d.dropFrameCount,
           d2.requestQueue = d.requestQueue,
           o2["Input"] = o["Input"], o2["Output0"] = o["Output0"],
           Working(d) => rq2[Head(d.requestQueue)].pending
                           = rq[Head(d.requestQueue)].pending,
           \A s \in External : /\ st2[s].available = st[s].available
                               /\ Chain(st2, h2, s) = Chain(st, h, s)
    PROVE  Kept(d2, rq2, o2, st2, h2)
<1>1. \A s \in External : o2[IspOf(s)] = o[IspOf(s)] /\ Had(d2, o2, s) = Had(d, o, s)
  BY DEF IspOf, Had
<1>2. ASSUME NEW s \in External
      PROVE  StreamKept(d2, o2, s, st2[s].available, Chain(st2, h2, s))
  <2>1. StreamKept(d, o, s, st[s].available, Chain(st, h, s))
    BY DEF Kept
  <2> QED
    BY <1>1, <2>1 DEF StreamKept
<1>3. Awaited(d2, rq2, o2)
  <2>1. Awaited(d, rq, o)
    BY DEF Kept
  <2>2. \A s \in Requested : o2[IspOf(s)] = o[IspOf(s)]
    BY <1>1 DEF Requested, External
  <2> QED
    BY <2>1, <2>2 DEF Awaited
<1> QED
  BY <1>2, <1>3 DEF Kept

\* The last of the images moves to the third part, and the third to the second.
LEMMA MovedFourth ==
    ASSUME NEW S, NEW a \in Seq(S), NEW b \in Seq(S), NEW c \in Seq(S),
           NEW p \in Seq(S), NEW q \in Seq(S), q # << >>
    PROVE  Parts5(a, b, c, Added(p, Head(q)), Tail(q)) = Parts5(a, b, c, p, q)
<1>1. << >> \in Seq(S) /\ \A x \in Seq(S) : x \o << >> = x
  OBVIOUS
<1>2. Tail(q) \in Seq(S) /\ Head(q) \in S
  BY Taken
<1>3. Append(p, Head(q)) \in Seq(S)
  BY <1>2, Appended
<1>4. Append(p, Head(q)) \o (Tail(q) \o << >>) = p \o (q \o << >>)
  BY <1>1, MovedIn
<1>5. Tail(q) \o << >> = Tail(q) /\ q \o << >> = q
  BY <1>1, <1>2
<1>6. Both(Added(p, Head(q)), Tail(q)) = Both(p, q)
  BY <1>4, <1>5 DEF Both, Added
<1> QED
  BY <1>6 DEF Parts5, Parts3, Both

\* An image the handler sends to the ISP moves from the third part to the second.
LEMMA MovedThird ==
    ASSUME NEW S, NEW a \in Seq(S), NEW b \in Seq(S), NEW e \in S,
           NEW p \in Seq(S), NEW q \in Seq(S)
    PROVE  Parts5(a, Added(b, e), << >>, p, q) = Parts5(a, b, <<e>>, p, q)
<1>1. /\ << >> \in Seq(S) /\ <<e>> \in Seq(S) /\ <<e>> # << >>
      /\ Head(<<e>>) = e /\ Tail(<<e>>) = << >>
  OBVIOUS
<1> DEFINE u == p \o q
           g == <<e>>
<1>2. u \in Seq(S)
  BY ConcatProperties
<1>3. g \in Seq(S) /\ g # << >> /\ Head(g) = e /\ Tail(g) = << >>
  BY <1>1
<1> HIDE DEF u, g
<1>4. Both(Added(b, Head(g)), Both(Tail(g), u)) = Both(b, Both(g, u))
  BY <1>2, <1>3, MovedBoth
<1>5. Both(Added(b, e), Both(<< >>, u)) = Both(b, Both(g, u))
  BY <1>3, <1>4
<1> QED
  BY <1>5 DEF Parts5, Parts3, Both, u, g

\* Embedded data the handler dequeues.
LEMMA MovedSecond ==
    ASSUME NEW S, NEW a \in Seq(S), NEW b \in Seq(S), NEW c \in Seq(S), c # << >>
    PROVE  Parts3(a, Added(b, Head(c)), Tail(c)) = Parts3(a, b, c)
<1>1. << >> \in Seq(S) /\ \A x \in Seq(S) : x \o << >> = x
  OBVIOUS
<1>2. Tail(c) \in Seq(S) /\ Head(c) \in S
  BY Taken
<1>4. Append(b, Head(c)) \o (Tail(c) \o << >>) = b \o (c \o << >>)
  BY <1>1, MovedIn
<1>5. Tail(c) \o << >> = Tail(c) /\ c \o << >> = c
  BY <1>1, <1>2
<1>6. Both(Added(b, Head(c)), Tail(c)) = Both(b, c)
  BY <1>4, <1>5 DEF Both, Added
<1> QED
  BY <1>6 DEF Parts3, Both

\* What the invariant says of all streams of a handler that runs.
LEMMA KeptAll ==
    ASSUME PoolInv, data.state # "Stopped"
    PROVE  Kept(data, request, OwedNow, stream, AheadNow)
BY DEF PoolInv

\* The metadata change no external stream.
LEMMA PoolStatsMetadataComplete ==
    ASSUME PipelineInv, FramesInv, PoolInv, StatsMetadataComplete PROVE PoolInv'
<1> DEFINE m == Head(messages).metadata
           first == Head(data.requestQueue)
           d == [data EXCEPT !.state = "IpaComplete"]
           rq == [request EXCEPT ![first].metadata = m]
           o == Owed(toIpa, messages', jobs', finished', done')
           h == Ahead(d, toIpa, messages', jobs', finished', done')
<1>1. /\ messages # << >> /\ Head(messages).type = "statsMetadataComplete"
      /\ messages' = Tail(messages) /\ HandleState(d, rq, toIpa)
      /\ stream' = [stream EXCEPT !["Stats"].device = Append(@, Internal)]
      /\ UNCHANGED <<jobs, finished, done>>
      /\ PipelineInv'
  BY StatsMetadataCompleteStep DEF StatsMetadataComplete, Message
<1>2. /\ Head(messages) \in HandlerMessages /\ messages' = << >>
      /\ data.state = "Busy" /\ toIpa = << >> /\ data.requestQueue # << >>
  BY <1>1, MessageAlone, Before
<1>3. /\ Head(messages) = messages[1] /\ DOMAIN messages = {1} /\ Len(messages) = 1
  <2>1. messages \in Seq(HandlerMessages) /\ Len(messages') = 0
    BY <1>2, Before
  <2> QED
    BY <1>1, <2>1
<1>4. FramesInv' /\ o = OwedNow
  BY FramesStatsMetadataComplete
<1>5. m \in Nat
  BY <1>1, <1>2 DEF HandlerMessages
<1> HIDE DEF m
<1>6. first \in Requests
  BY <1>2, Before, Taken DEF DataType
<1> HIDE DEF first
<1>7. /\ d \in DataType /\ d.state = "IpaComplete"
      /\ d.requestQueue = data.requestQueue /\ d.bayerQueue = data.bayerQueue
      /\ d.embeddedQueue = data.embeddedQueue
      /\ d.dropFrameCount = data.dropFrameCount
  BY Before DEF DataType
<1>8. rq \in [Requests -> RequestType] /\ rq[first].pending = request[first].pending
  <2>1. request[first] \in RequestType /\ request \in [Requests -> RequestType]
    BY <1>6, Before
  <2>2. [request[first] EXCEPT !.metadata = m] \in RequestType
    BY <1>5, <2>1 DEF RequestType
  <2> QED
    BY <1>6, <2>1, <2>2 DEF RequestType
<1>9. h = AheadNow
  <2>1. /\ Sending(toIpa, messages') = << >> /\ Sending(toIpa, messages) = << >>
        /\ Reading(toIpa, messages') = << >> /\ Reading(toIpa, messages) = << >>
    BY <1>1, <1>2, <1>3 DEF Sending, Reading, EmbeddedFirst
  <2>2. jobs' = jobs /\ finished' = finished /\ done' = done
    BY <1>1
  <2> HIDE DEF d
  <2> QED
    BY <1>7, <2>1, <2>2 DEF AheadNow, Ahead
<1> HIDE DEF d, rq, o, h
<1>10. \A s \in External : stream'[s] = stream[s]
  BY <1>1 DEF External
<1>11. Kept(data, request, OwedNow, stream, AheadNow)
  BY <1>2, KeptAll
<1>12. Kept(d, rq, o, stream', h)
  <2> DEFINE st2 == stream'
  <2>1. \A s \in External : /\ st2[s].available = stream[s].available
                            /\ Chain(st2, h, s) = Chain(stream, AheadNow, s)
    BY <1>9, <1>10 DEF Chain
  <2>2. Working(d) /\ Working(data)
    BY <1>2, <1>7 DEF Working
  <2>3. Head(data.requestQueue) = first
    BY DEF first
  <2> HIDE DEF st2
  <2>4. Kept(d, rq, o, st2, h)
    BY <1>4, <1>7, <1>8, <1>11, <2>1, <2>2, <2>3, StillKept
  <2> QED
    BY <2>4 DEF st2
<1>13. toIpa \in Seq(IpaMessages)
  BY Before
<1> QED
  BY <1>1, <1>2, <1>4, <1>7, <1>8, <1>12, <1>13, HandledPool DEF o, h

\* An image sent to the ISP is the last it has not read.
LEMMA UnreadMore ==
    ASSUME NEW j \in Seq(Frames), NEW f, j = << >> => "Input" \notin f, NEW b \in Frames
    PROVE  Unread(Append(j, b), f) = Append(Unread(j, f), b)
<1>1. j # << >> => Tail(Append(j, b)) = Append(Tail(j), b)
  OBVIOUS
<1> QED
  BY <1>1 DEF Unread

\* runIsp passes an image from the IPA on to the ISP.
LEMMA PoolRunIsp ==
    ASSUME PipelineInv, FramesInv, PoolInv, RunIsp PROVE PoolInv'
<1> DEFINE b == Head(messages).bayer
           d == [data EXCEPT !.ispOutputCount = 0]
           o == Owed(toIpa, messages', jobs', finished', done')
           h == Ahead(d, toIpa, messages', jobs', finished', done')
<1>1. /\ messages # << >> /\ Head(messages).type = "runIsp"
      /\ messages' = Tail(messages) /\ jobs' = Append(jobs, b)
      /\ HandleState(d, request, toIpa)
      /\ UNCHANGED <<stream, finished, done>>
      /\ PipelineInv'
  BY RunIspStep DEF RunIsp, Message
<1>2. /\ Head(messages) \in HandlerMessages /\ messages' = << >>
      /\ data.state = "Busy" /\ toIpa = << >> /\ data.requestQueue # << >>
      /\ jobs \in Seq(Frames) /\ (jobs = << >> => "Input" \notin finished)
      /\ done \in [Streams -> Seq(Frames)] /\ data \in DataType
      /\ messages \in Seq(HandlerMessages) /\ toIpa \in Seq(IpaMessages)
      /\ request \in [Requests -> RequestType]
  BY <1>1, MessageAlone, Before, ContextNow DEF Context
<1>3. Head(messages) = messages[1] /\ Len(messages) = 1
  <2>1. messages \in Seq(HandlerMessages) /\ Len(messages') = 0
    BY <1>2
  <2> QED
    BY <1>1, <2>1
<1>4. FramesInv' /\ o = OwedNow
  BY FramesRunIsp
<1>5. b \in Frames
  BY <1>1, <1>2 DEF HandlerMessages
<1>6. /\ d \in DataType /\ d.state = data.state
      /\ d.requestQueue = data.requestQueue /\ d.bayerQueue = data.bayerQueue
      /\ d.embeddedQueue = data.embeddedQueue
      /\ d.dropFrameCount = data.dropFrameCount
  BY <1>2 DEF DataType
<1>7. /\ Sending(toIpa, messages') = << >> /\ Sending(toIpa, messages) = <<b.buf>>
      /\ Reading(toIpa, messages') = << >> /\ Reading(toIpa, messages) = << >>
  BY <1>1, <1>2, <1>3 DEF Sending, Reading, EmbeddedFirst
<1> HIDE DEF b, d, o
<1> DEFINE a == Bufs(done["Input"])
           g == Bufs(Unread(jobs, finished))
           p == Bufs(data.bayerQueue)
           q == Bufs(done["Image"])
           x == b.buf
<1>8. /\ a \in Seq(Slots) /\ g \in Seq(Slots) /\ p \in Seq(Slots) /\ q \in Seq(Slots)
      /\ x \in Slots
  <2>1. /\ \A s \in Streams : Bufs(done[s]) \in Seq(Slots)
        /\ g \in Seq(Slots) /\ p \in Seq(Slots)
    BY <1>2, PartTypes
  <2> QED
    BY <1>5, <2>1 DEF Streams, IspStreams, Frames, Slots
<1>9. Bufs(Unread(jobs', finished')) = Added(g, x)
  <2>1. Unread(jobs, finished) \in Seq(Frames)
    BY <1>2, Taken DEF Unread
  <2>2. Unread(jobs', finished') = Added(Unread(jobs, finished), b)
    BY <1>1, <1>2, <1>5, UnreadMore DEF Added
  <2>3. Bufs(Added(Unread(jobs, finished), b)) = Added(g, x)
    BY <1>5, <2>1, BufsAdded
  <2> QED
    BY <2>2, <2>3
<1>10. h["Image"] = AheadNow["Image"]
  <2>1. AheadNow["Image"] = Parts5(a, g, <<x>>, p, q)
    BY <1>7, AheadParts DEF AheadNow
  <2>2. h["Image"] = Parts5(a, Added(g, x), << >>, p, q)
    <3> DEFINE m2 == messages'
               j2 == jobs'
               f2 == finished'
               n2 == done'
    <3>1. /\ n2["Input"] = done["Input"] /\ n2["Image"] = done["Image"]
          /\ Sending(toIpa, m2) = << >> /\ Bufs(Unread(j2, f2)) = Added(g, x)
      BY <1>1, <1>7, <1>9
    <3> HIDE DEF m2, j2, f2, n2, a, g, p, q, x
    <3>2. Ahead(d, toIpa, m2, j2, f2, n2)["Image"]
            = Parts5(Bufs(n2["Input"]), Bufs(Unread(j2, f2)), Sending(toIpa, m2),
                     Bufs(d.bayerQueue), Bufs(n2["Image"]))
      BY AheadParts
    <3>3. Ahead(d, toIpa, m2, j2, f2, n2)["Image"]
            = Parts5(Bufs(done["Input"]), Added(g, x), << >>,
                     Bufs(data.bayerQueue), Bufs(done["Image"]))
      BY <1>6, <3>1, <3>2
    <3> QED
      BY <3>3 DEF m2, j2, f2, n2, a, p, q
  <2> HIDE DEF a, g, p, q, x, h
  <2>3. Parts5(a, Added(g, x), << >>, p, q) = Parts5(a, g, <<x>>, p, q)
    BY <1>8, MovedThird
  <2> QED
    BY <2>1, <2>2, <2>3
<1>11. h["Embedded"] = AheadNow["Embedded"] /\ h["Output0"] = AheadNow["Output0"]
  <2>1. jobs' = jobs' /\ finished' = finished /\ done' = done
    BY <1>1
  <2> QED
    BY <1>6, <1>7, <2>1, AheadParts DEF AheadNow
<1> HIDE DEF h
<1>12. \A s \in External : h[s] = AheadNow[s]
  BY <1>10, <1>11 DEF External
<1>13. Kept(data, request, OwedNow, stream, AheadNow)
  BY <1>2, KeptAll
<1>14. Kept(d, request, o, stream', h)
  <2>1. \A s \in External : Chain(stream, h, s) = Chain(stream, AheadNow, s)
    BY <1>12 DEF Chain
  <2>2. Working(d) <=> Working(data)
    BY <1>6 DEF Working
  <2>3. Kept(d, request, o, stream, h)
    BY <1>4, <1>6, <1>13, <2>1, <2>2, StillKept
  <2> QED
    BY <1>1, <2>3
<1> QED
  BY <1>1, <1>2, <1>4, <1>6, <1>14, HandledPool DEF o, h

\* An image or its embedded data, dequeued, is the last of its queue.
LEMMA PoolUnicamBufferDequeue ==
    ASSUME PipelineInv, FramesInv, PoolInv, NEW s \in {"Image", "Embedded"},
           UnicamBufferDequeue(s)
    PROVE  PoolInv'
<1> DEFINE b == Head(done[s])
           d == IF s = "Image"
                  THEN [data EXCEPT !.bayerQueue = Append(@, b)]
                  ELSE [data EXCEPT !.embeddedQueue = Append(@, b)]
           o == Owed(toIpa, messages', jobs', finished', done')
           h == Ahead(d, toIpa, messages', jobs', finished', done')
           n2 == done'
<1>1. /\ Dequeue(s) /\ HandleState(d, request, toIpa)
      /\ UNCHANGED <<stream, jobs, finished, messages>>
      /\ PipelineInv'
  BY UnicamBufferDequeueStep DEF UnicamBufferDequeue
<1>2. s \in Streams /\ s \notin IspStreams
  BY DEF Streams, IspStreams, IspOutputs
<1>3. /\ b \in Frames /\ done[s] # << >> /\ done[s] \in Seq(Frames)
      /\ n2[s] = Tail(done[s]) /\ \A z \in Streams : z # s => n2[z] = done[z]
  BY <1>1, <1>2, DequeueTypes
<1>4. /\ data \in DataType /\ toIpa \in Seq(IpaMessages)
      /\ messages \in Seq(HandlerMessages) /\ jobs \in Seq(Frames)
      /\ (jobs = << >> => "Input" \notin finished) /\ done \in [Streams -> Seq(Frames)]
      /\ request \in [Requests -> RequestType]
      /\ data.state # "Busy" => toIpa = << >> /\ messages' = << >>
      /\ Working(data) => data.requestQueue # << >>
  BY <1>1, ContextNow DEF Context
<1>5. FramesInv' /\ data.state # "Stopped"
  <2>1. FramesInv'
    BY FramesUnicamBufferDequeue
  <2>2. data.state # "Stopped"
    BY <1>2, <1>3, FramesParts DEF Resting
  <2> QED
    BY <2>1, <2>2
<1>6. o["Input"] = OwedNow["Input"] /\ o["Output0"] = OwedNow["Output0"]
  <2>1. Upstream(toIpa, messages) = UpNow
    BY DEF UpNow
  <2>2. \A z \in IspStreams : z # s => o[z] = OwedNow[z]
    <3> HIDE DEF o
    <3> QED
      BY <1>1, <1>2, <2>1, DequeueOwed DEF o
  <2> QED
    BY <1>2, <2>2 DEF IspStreams, IspOutputs
<1>7. /\ d \in DataType /\ d.state = data.state
      /\ d.requestQueue = data.requestQueue
      /\ d.dropFrameCount = data.dropFrameCount
      /\ s = "Image" => /\ d.bayerQueue = Added(data.bayerQueue, b)
                        /\ d.embeddedQueue = data.embeddedQueue
      /\ s = "Embedded" => /\ d.embeddedQueue = Added(data.embeddedQueue, b)
                           /\ d.bayerQueue = data.bayerQueue
  <2> HIDE DEF b
  <2>1. /\ data.bayerQueue \in Seq(Frames) /\ data.embeddedQueue \in Seq(Frames)
    BY <1>4 DEF DataType
  <2>2. /\ Append(data.bayerQueue, b) \in Seq(Frames)
        /\ Append(data.embeddedQueue, b) \in Seq(Frames)
    BY <1>3, <2>1, Appended
  <2>3. CASE s = "Image"
    <3> DEFINE v == Append(data.bayerQueue, b)
    <3>1. d = [data EXCEPT !.bayerQueue = v] /\ v \in Seq(Frames)
              /\ v = Added(data.bayerQueue, b)
      BY <2>2, <2>3 DEF Added
    <3> HIDE DEF v, d
    <3>2. /\ d \in DataType /\ d.state = data.state
          /\ d.requestQueue = data.requestQueue
          /\ d.dropFrameCount = data.dropFrameCount
          /\ d.bayerQueue = v /\ d.embeddedQueue = data.embeddedQueue
      BY <1>4, <3>1 DEF DataType
    <3> QED
      BY <2>3, <3>1, <3>2
  <2>4. CASE s = "Embedded"
    <3> DEFINE v == Append(data.embeddedQueue, b)
    <3>1. d = [data EXCEPT !.embeddedQueue = v] /\ v \in Seq(Frames)
              /\ v = Added(data.embeddedQueue, b)
      BY <2>2, <2>4 DEF Added
    <3> HIDE DEF v, d
    <3>2. /\ d \in DataType /\ d.state = data.state
          /\ d.requestQueue = data.requestQueue
          /\ d.dropFrameCount = data.dropFrameCount
          /\ d.embeddedQueue = v /\ d.bayerQueue = data.bayerQueue
      BY <1>4, <3>1 DEF DataType
    <3> QED
      BY <2>4, <3>1, <3>2
  <2> QED
    BY <2>3, <2>4
<1>8. h = Ahead(d, toIpa, messages, jobs, finished, n2)
  BY <1>1
<1>9. /\ \A z \in Streams : Bufs(done[z]) \in Seq(Slots)
      /\ Bufs(Unread(jobs, finished)) \in Seq(Slots)
      /\ Sending(toIpa, messages) \in Seq(Slots) /\ Reading(toIpa, messages) \in Seq(Slots)
      /\ Bufs(data.bayerQueue) \in Seq(Slots) /\ Bufs(data.embeddedQueue) \in Seq(Slots)
      /\ data.bayerQueue \in Seq(Frames) /\ data.embeddedQueue \in Seq(Frames)
  BY <1>4, PartTypes DEF DataType
<1>10. /\ Bufs(n2[s]) = Tail(Bufs(done[s])) /\ Bufs(done[s]) # << >>
       /\ b.buf = Head(Bufs(done[s]))
  BY <1>3, BufsMoves
<1> HIDE DEF d, h, o, n2
<1>11. ASSUME s = "Image"
       PROVE  /\ h["Image"] = AheadNow["Image"]
              /\ h["Embedded"] = AheadNow["Embedded"]
              /\ h["Output0"] = AheadNow["Output0"]
  <2>1. Bufs(d.bayerQueue) = Added(Bufs(data.bayerQueue), b.buf)
    BY <1>3, <1>7, <1>9, <1>11, BufsAdded
  <2>2. n2["Input"] = done["Input"] /\ n2["Embedded"] = done["Embedded"]
        /\ n2["Output0"] = done["Output0"]
    BY <1>3, <1>11 DEF Streams, IspStreams, IspOutputs
  <2>3. h["Embedded"] = AheadNow["Embedded"] /\ h["Output0"] = AheadNow["Output0"]
    BY <1>7, <1>8, <1>11, <2>2, AheadParts DEF AheadNow
  <2> DEFINE a == Bufs(done["Input"])
             g == Bufs(Unread(jobs, finished))
             c == Sending(toIpa, messages)
             p == Bufs(data.bayerQueue)
             q == Bufs(done["Image"])
  <2>4. AheadNow["Image"] = Parts5(a, g, c, p, q)
    BY AheadParts DEF AheadNow
  <2>5. h["Image"] = Parts5(a, g, c, Added(p, Head(q)), Tail(q))
    <3>1. h["Image"] = Parts5(Bufs(n2["Input"]), g, c, Bufs(d.bayerQueue),
                              Bufs(n2["Image"]))
      BY <1>8, AheadParts
    <3>2. Bufs(n2["Image"]) = Tail(q) /\ Bufs(d.bayerQueue) = Added(p, Head(q))
      BY <1>10, <1>11, <2>1
    <3> HIDE DEF a, g, c, p, q, b
    <3> QED
      BY <2>2, <3>1, <3>2 DEF a
  <2>6. /\ a \in Seq(Slots) /\ g \in Seq(Slots) /\ c \in Seq(Slots)
        /\ p \in Seq(Slots) /\ q \in Seq(Slots) /\ q # << >>
    BY <1>9, <1>10, <1>11 DEF Streams, IspStreams
  <2> HIDE DEF a, g, c, p, q
  <2>7. Parts5(a, g, c, Added(p, Head(q)), Tail(q)) = Parts5(a, g, c, p, q)
    BY <2>6, MovedFourth
  <2> QED
    BY <2>3, <2>4, <2>5, <2>7
<1>12. ASSUME s = "Embedded"
       PROVE  /\ h["Image"] = AheadNow["Image"]
              /\ h["Embedded"] = AheadNow["Embedded"]
              /\ h["Output0"] = AheadNow["Output0"]
  <2>1. Bufs(d.embeddedQueue) = Added(Bufs(data.embeddedQueue), b.buf)
    BY <1>3, <1>7, <1>9, <1>12, BufsAdded
  <2>2. n2["Input"] = done["Input"] /\ n2["Image"] = done["Image"]
        /\ n2["Output0"] = done["Output0"]
    BY <1>3, <1>12 DEF Streams, IspStreams, IspOutputs
  <2>3. h["Image"] = AheadNow["Image"] /\ h["Output0"] = AheadNow["Output0"]
    BY <1>7, <1>8, <1>12, <2>2, AheadParts DEF AheadNow
  <2> DEFINE a == Reading(toIpa, messages)
             p == Bufs(data.embeddedQueue)
             q == Bufs(done["Embedded"])
  <2>4. AheadNow["Embedded"] = Parts3(a, p, q)
    BY AheadParts DEF AheadNow
  <2>5. h["Embedded"] = Parts3(a, Added(p, Head(q)), Tail(q))
    <3>1. h["Embedded"] = Parts3(a, Bufs(d.embeddedQueue), Bufs(n2["Embedded"]))
      BY <1>8, AheadParts
    <3>2. Bufs(n2["Embedded"]) = Tail(q) /\ Bufs(d.embeddedQueue) = Added(p, Head(q))
      BY <1>10, <1>12, <2>1
    <3> HIDE DEF a, p, q, b
    <3> QED
      BY <3>1, <3>2
  <2>6. /\ a \in Seq(Slots) /\ p \in Seq(Slots) /\ q \in Seq(Slots) /\ q # << >>
    BY <1>9, <1>10, <1>12 DEF Streams, IspStreams
  <2> HIDE DEF a, p, q
  <2>7. Parts3(a, Added(p, Head(q)), Tail(q)) = Parts3(a, p, q)
    BY <2>6, MovedSecond
  <2> QED
    BY <2>3, <2>4, <2>5, <2>7
<1>13. \A z \in External : h[z] = AheadNow[z]
  <2>1. /\ h["Image"] = AheadNow["Image"] /\ h["Embedded"] = AheadNow["Embedded"]
        /\ h["Output0"] = AheadNow["Output0"]
    BY <1>11, <1>12
  <2> QED
    BY <2>1 DEF External
<1>14. Kept(data, request, OwedNow, stream, AheadNow)
  BY <1>5, KeptAll
<1>15. Kept(d, request, o, stream', h)
  <2>1. \A z \in External : Chain(stream, h, z) = Chain(stream, AheadNow, z)
    BY <1>13 DEF Chain
  <2>2. Working(d) <=> Working(data)
    BY <1>7 DEF Working
  <2>3. Kept(d, request, o, stream, h)
    BY <1>6, <1>7, <1>14, <2>1, <2>2, StillKept
  <2> QED
    BY <1>1, <2>3
<1> QED
  BY <1>1, <1>4, <1>5, <1>7, <1>15, HandledPool DEF o, h, n2, Working

\* The first of what is ahead is the first of the chain.
LEMMA FirstAhead ==
    ASSUME NEW g \in Seq(Slots), g # << >>, NEW f \in Seq(Slots)
    PROVE  /\ Both(g, f) \in Seq(Slots) /\ Both(g, f) # << >>
           /\ Head(Both(g, f)) = Head(g) /\ Tail(Both(g, f)) = Both(Tail(g), f)
<1>1. g \o f \in Seq(Slots)
  BY ConcatProperties
<1>2. g \o f # << >> /\ Head(g \o f) = Head(g) /\ Tail(g \o f) = Tail(g) \o f
  BY Fronts
<1> QED
  BY <1>1, <1>2 DEF Both

\* Embedded data stay in buffers of the stream's own.
LEMMA RefilledOwn ==
    ASSUME NEW c \in Seq(Slots), NEW c2 \in Seq(Slots), c # << >>, NEW k,
           OwnOnly(c), Refilled(Tail(c), c2, k)
    PROVE  OwnOnly(c2)
<1> DEFINE v == Tail(c)
<1>1. Len(v) = Len(c) - 1 /\ Len(c) \in Nat /\ \A i \in 1 .. Len(c) - 1 : v[i] = c[i + 1]
  OBVIOUS
<1>2. Refilled(v, c2, k)
  OBVIOUS
<1> HIDE DEF v
<1>3. ASSUME NEW i \in 1 .. Len(c2) PROVE c2[i] \in {Internal, Null}
  <2>1. i \in 1 .. Len(c) - 1 /\ i + 1 \in 1 .. Len(c)
    BY <1>1, <1>2 DEF Refilled
  <2>2. v[i] \in {Internal, Null}
    BY <1>1, <2>1 DEF OwnOnly
  <2>3. c2[i] = v[i] \/ c2[i] = Internal
    BY <1>1, <1>2, <2>1 DEF Refilled
  <2> QED
    BY <2>2, <2>3
<1> QED
  BY <1>3 DEF OwnOnly

\* A buffer of the stream's own, dequeued, goes back to the stream.
LEMMA OwnReturns ==
    ASSUME NEW d \in DataType, NEW o, NEW o2, NEW s, NEW st \in StreamType,
           NEW g \in Seq(Slots), g # << >>, Head(g) = Internal,
           StreamKept(d, o, s, st.available, Both(g, Feed(st))),
           s \in Requested => Had(d, o, s) = 0 /\ Had(d, o2, s) = 1
    PROVE  StreamKept(d, o2, s, ReturnBuffer(st, Internal).available,
                      Both(Tail(g), Feed(ReturnBuffer(st, Internal))))
<1> DEFINE new == ReturnBuffer(st, Internal)
           f == Feed(st)
           c == Both(g, f)
           c2 == Both(Tail(g), Feed(new))
           av2 == new.available
           drop == d.dropFrameCount
           queue == d.requestQueue
<1>1. f \in Seq(Slots) /\ drop \in Nat /\ queue \in Seq(Requests)
  BY FeedType DEF DataType
<1>2. /\ c \in Seq(Slots) /\ c # << >>
  BY <1>1, FirstAhead
<1>3. Pooled(st.available, c)
  BY DEF StreamKept
<1>4. /\ Pooled(av2, c2) /\ c2 \in Seq(Slots)
      /\ \E k \in Nat : Refilled(Tail(c), c2, k)
  BY <1>3, PoolReturns DEF Both
<1>5. PICK k \in Nat : Refilled(Tail(c), c2, k)
  BY <1>4
<1>6. /\ s \in Requested => InOrder(drop, queue, Had(d, o, s), c)
      /\ s = "Embedded" => OwnOnly(c)
  BY DEF StreamKept
<1> HIDE DEF new, f, c, c2, av2, drop, queue
<1>7. s \in Requested => InOrder(drop, queue, 1, c2)
  <2>1. s \in Requested => InOrder(drop, queue, 0, c)
    BY <1>6
  <2>2. s \in Requested => InOrder(drop, queue, 1, Tail(c))
    BY <1>1, <1>2, <2>1, OrderTaken
  <2>3. Tail(c) \in Seq(Slots)
    BY <1>2, Taken
  <2> QED
    BY <1>1, <1>4, <1>5, <2>2, <2>3, OrderRefilled
<1>8. s = "Embedded" => OwnOnly(c2)
  BY <1>2, <1>4, <1>5, <1>6, RefilledOwn
<1> QED
  BY <1>4, <1>7, <1>8 DEF StreamKept, new, c2, av2, drop, queue

\* A buffer of the first request, dequeued, is that request's.
LEMMA RequestTakes ==
    ASSUME NEW d \in DataType, NEW o, NEW o2, NEW s \in Requested, NEW av,
           NEW f \in Seq(Slots), NEW g \in Seq(Slots), g # << >>, Head(g) # Internal,
           StreamKept(d, o, s, av, Both(g, f)), Had(d, o, s) = 0, Had(d, o2, s) = 1
    PROVE  StreamKept(d, o2, s, av, Both(Tail(g), f))
<1> DEFINE c == Both(g, f)
           drop == d.dropFrameCount
           queue == d.requestQueue
<1>1. drop \in Nat /\ queue \in Seq(Requests)
  BY DEF DataType
<1>2. /\ c \in Seq(Slots) /\ c # << >> /\ Head(c) # Internal
      /\ Tail(c) = Both(Tail(g), f)
  BY FirstAhead
<1>3. Pooled(av, c) /\ InOrder(drop, queue, 0, c)
  BY DEF StreamKept
<1> HIDE DEF c, drop, queue
<1>4. Pooled(av, Tail(c))
  BY <1>2, <1>3, PoolLeaves
<1>5. InOrder(drop, queue, 1, Tail(c))
  BY <1>1, <1>2, <1>3, OrderTaken
<1>6. s # "Embedded"
  BY DEF Requested
<1> QED
  BY <1>2, <1>4, <1>5, <1>6 DEF StreamKept, drop, queue

\* Of the two, it is the first request's when no frame is to be dropped.
LEMMA WhoseBuffer ==
    ASSUME NEW d \in DataType, NEW o, NEW s, NEW av,
           NEW f \in Seq(Slots), NEW g \in Seq(Slots), g # << >>, Head(g) \in Buffers,
           StreamKept(d, o, s, av, Both(g, f))
    PROVE  /\ s \in Requested /\ Had(d, o, s) = 0 =>
                IF d.dropFrameCount = 0
                  THEN d.requestQueue # << >> /\ Head(g) = Head(d.requestQueue)
                  ELSE Head(g) = Internal
           /\ s = "Embedded" => Head(g) = Internal
<1> DEFINE c == Both(g, f)
           drop == d.dropFrameCount
           queue == d.requestQueue
           b == Head(g)
<1>1. drop \in Nat /\ queue \in Seq(Requests) /\ b # Null
  BY RPiAssumption DEF DataType, Buffers, RPiAssumption
<1>2. /\ c \in Seq(Slots) /\ c # << >> /\ Head(c) = b
  BY FirstAhead
<1>3. /\ s \in Requested => InOrder(drop, queue, Had(d, o, s), c)
      /\ s = "Embedded" => OwnOnly(c)
  BY DEF StreamKept
<1> HIDE DEF c, drop, queue, b
<1>4. ASSUME s \in Requested, Had(d, o, s) = 0
      PROVE  IF drop = 0 THEN queue # << >> /\ b = Head(queue) ELSE b = Internal
  <2>1. InOrder(drop, queue, 0, c)
    BY <1>3, <1>4
  <2>2. /\ drop = 0 => queue # << >> /\ Head(c) = Head(queue)
        /\ drop # 0 => Head(c) \in {Internal, Null}
    BY <1>1, <1>2, <2>1, OrderTaken
  <2> QED
    BY <1>1, <1>2, <2>2
<1>5. s = "Embedded" => b = Internal
  <2>1. 1 \in 1 .. Len(c) /\ Head(c) = c[1]
    BY <1>2
  <2> QED
    BY <1>1, <1>2, <1>3, <2>1 DEF OwnOnly
<1> QED
  BY <1>4, <1>5 DEF drop, queue, b

\* A message taken, of the others the first was the second and the last the last.
LEMMA Dispatched ==
    ASSUME NEW S, NEW q \in Seq(S), q # << >>, NEW v, v = Tail(q)
    PROVE  /\ Head(q) = q[1] /\ Head(q) \in S
           /\ Len(q) \in Nat /\ Len(v) = Len(q) - 1
           /\ v # << >> => Len(q) # 1 /\ v[Len(v)] = q[Len(q)]
           /\ v = << >> => Len(q) = 1
           /\ v # << >> => v[1] = q[2] /\ 2 \in 2 .. Len(q)
<1>1. /\ Head(q) = q[1] /\ Head(q) \in S /\ Len(q) \in Nat /\ Len(q) > 0
      /\ v \in Seq(S) /\ Len(v) = Len(q) - 1
      /\ \A i \in 1 .. Len(q) - 1 : v[i] = q[i + 1]
  BY Taken
<1>2. v = << >> <=> Len(v) = 0
  BY <1>1, Emptied
<1>3. ASSUME v # << >> PROVE v[Len(v)] = q[Len(q)] /\ v[1] = q[2] /\ Len(q) >= 2
  <2>1. Len(v) \in 1 .. Len(q) - 1 /\ 1 \in 1 .. Len(q) - 1 /\ Len(q) >= 2
    BY <1>1, <1>2, <1>3
  <2>2. v[Len(v)] = q[Len(v) + 1] /\ v[1] = q[1 + 1]
    BY <1>1, <2>1
  <2> QED
    BY <1>1, <2>1, <2>2
<1> QED
  BY <1>1, <1>2, <1>3

\* The buffer of the embedded data the IPA has read goes back to its stream.
LEMMA PoolEmbeddedComplete ==
    ASSUME PipelineInv, FramesInv, PoolInv, EmbeddedComplete PROVE PoolInv'
<1> DEFINE e == Head(messages).embedded
           b == e.buf
           o == Owed(toIpa, messages', jobs', finished', done')
           h == Ahead(data, toIpa, messages', jobs', finished', done')
           g == AheadNow["Embedded"]
           st == stream["Embedded"]
<1>1. /\ messages # << >> /\ Head(messages).type = "embeddedComplete"
      /\ messages' = Tail(messages) /\ HandleState(data, request, toIpa)
      /\ stream' = HandledStream("Embedded", b)
      /\ UNCHANGED <<jobs, finished, done>>
      /\ PipelineInv'
  BY EmbeddedCompleteStep DEF EmbeddedComplete, Message
<1>2. /\ data \in DataType /\ request \in [Requests -> RequestType]
      /\ toIpa \in Seq(IpaMessages) /\ messages \in Seq(HandlerMessages)
      /\ data.state # "Busy" => toIpa = << >> /\ messages = << >>
      /\ Working(data) => data.requestQueue # << >>
      /\ jobs \in Seq(Frames) /\ (jobs = << >> => "Input" \notin finished)
      /\ done \in [Streams -> Seq(Frames)] /\ stream \in [Queued -> StreamType]
  BY ContextNow DEF Context, PipelineInv, Types
<1>3. data.state = "Busy" /\ (data.state # "Busy" => toIpa = << >> /\ messages' = << >>)
  BY <1>1, <1>2
<1>4. FramesInv' /\ o = OwedNow
  BY FramesEmbeddedComplete
<1> HIDE DEF o
<1>5. /\ Head(messages) = messages[1] /\ Head(messages) \in HandlerMessages
      /\ Len(messages) \in Nat /\ Len(messages') = Len(messages) - 1
      /\ messages' # << >> => /\ Len(messages) # 1
                              /\ messages'[Len(messages')] = messages[Len(messages)]
      /\ messages' = << >> => Len(messages) = 1
      /\ messages' # << >> => messages'[1] = messages[2] /\ 2 \in 2 .. Len(messages)
  BY <1>1, <1>2, Dispatched
<1>6. e \in Frames /\ b \in Buffers
  <2> DEFINE x == Head(messages)
  <2>1. x \in HandlerMessages /\ x.type = "embeddedComplete"
    BY <1>1, <1>5
  <2> HIDE DEF x
  <2>2. x.embedded \in Frames
    BY <2>1 DEF HandlerMessages
  <2> QED
    BY <2>2 DEF x, Frames
<1>7. OneJob(data.state, toIpa, messages, jobs, finished, done["Stats"])
  BY Before
<1>8. /\ Reading(toIpa, messages) = <<b>> /\ Reading(toIpa, messages') = << >>
  <2>1. EmbeddedFirst(messages)
    BY <1>1, <1>5 DEF EmbeddedFirst
  <2>2. ~EmbeddedFirst(messages')
    BY <1>5, <1>7 DEF OneJob, EmbeddedFirst
  <2>3. ~(toIpa # << >> /\ toIpa[1].type = "signalIspPrepare" /\ toIpa[1].embedded # Null)
    BY <1>7, <2>1 DEF OneJob
  <2> QED
    BY <1>5, <2>1, <2>2, <2>3 DEF Reading
<1>9. Sending(toIpa, messages') = Sending(toIpa, messages)
  BY <1>1, <1>5 DEF Sending
<1>10. /\ h["Image"] = AheadNow["Image"] /\ h["Output0"] = AheadNow["Output0"]
  <2>1. jobs' = jobs /\ finished' = finished /\ done' = done
    BY <1>1
  <2> QED
    BY <1>9, <2>1, AheadParts DEF AheadNow
<1>11. g \in Seq(Slots) /\ g # << >> /\ Head(g) = b /\ h["Embedded"] = Tail(g)
  <2> DEFINE p == Bufs(data.embeddedQueue)
             q == Bufs(done["Embedded"])
  <2>1. g = Parts3(<<b>>, p, q)
    BY <1>8, AheadParts DEF AheadNow
  <2>2. h["Embedded"] = Parts3(<< >>, p, q)
    <3>1. done' = done
      BY <1>1
    <3> QED
      BY <1>8, <3>1, AheadParts
  <2>3. p \in Seq(Slots) /\ q \in Seq(Slots) /\ b \in Slots
    BY <1>2, <1>6, PartTypes DEF Streams, Slots
  <2> DEFINE u == p \o q
             x == b
             i == <<x>>
  <2>4. u \in Seq(Slots)
    BY <2>3, ConcatProperties
  <2>5. i \in Seq(Slots) /\ i # << >> /\ Head(i) = x /\ Tail(i) = << >>
    BY <2>3
  <2>6. g = Both(i, u) /\ h["Embedded"] = Both(<< >>, u)
    BY <2>1, <2>2 DEF Parts3, Both
  <2> HIDE DEF u, x, i, g, h, p, q
  <2>7. /\ Both(i, u) \in Seq(Slots) /\ Both(i, u) # << >>
        /\ Head(Both(i, u)) = Head(i) /\ Tail(Both(i, u)) = Both(Tail(i), u)
    BY <2>4, <2>5, FirstAhead
  <2>8. Head(g) = x
    BY <2>5, <2>6, <2>7
  <2>9. h["Embedded"] = Tail(g)
    BY <2>5, <2>6, <2>7
  <2> QED
    BY <2>6, <2>7, <2>8, <2>9 DEF x
<1> HIDE DEF b, e, h
<1>12. st \in StreamType
  BY <1>2 DEF Queued, Streams, IspStreams
<1>13. /\ StreamKept(data, OwedNow, "Embedded", st.available, Both(g, Feed(st)))
       /\ Kept(data, request, OwedNow, stream, AheadNow)
  <2>1. Kept(data, request, OwedNow, stream, AheadNow)
    BY <1>3, KeptAll
  <2> QED
    BY <2>1 DEF Kept, Chain, Both, External
<1>14. b = Internal
  <2> HIDE DEF g, st
  <2> QED
    BY <1>2, <1>6, <1>11, <1>12, <1>13, FeedType, WhoseBuffer
<1>15. stream' = [stream EXCEPT !["Embedded"] = ReturnBuffer(st, Internal)]
  BY <1>1, <1>14 DEF HandledStream, IsForRequest, Requested
<1>16. StreamKept(data, OwedNow, "Embedded", ReturnBuffer(st, Internal).available,
                  Both(Tail(g), Feed(ReturnBuffer(st, Internal))))
  <2>1. "Embedded" \notin Requested
    BY DEF Requested
  <2> HIDE DEF g, st
  <2> QED
    BY <1>2, <1>11, <1>12, <1>13, <1>14, <2>1, OwnReturns
<1>17. ASSUME NEW s \in External
       PROVE  StreamKept(data, o, s, stream'[s].available, Chain(stream', h, s))
  <2>1. CASE s = "Embedded"
    <3>1. stream'[s] = ReturnBuffer(st, Internal)
      BY <1>2, <1>15, <2>1 DEF Queued, Streams, IspStreams
    <3> HIDE DEF g, st
    <3> QED
      BY <1>4, <1>11, <1>16, <2>1, <3>1 DEF Chain, Both
  <2>2. CASE s # "Embedded"
    <3>1. stream'[s] = stream[s] /\ h[s] = AheadNow[s]
      BY <1>10, <1>15, <2>2 DEF External
    <3>2. StreamKept(data, OwedNow, s, stream[s].available, Chain(stream, AheadNow, s))
      BY <1>13 DEF Kept
    <3>3. Chain(stream', h, s) = Chain(stream, AheadNow, s)
      BY <3>1 DEF Chain
    <3> QED
      BY <1>4, <3>1, <3>2, <3>3
  <2> QED
    BY <2>1, <2>2
<1>18. Kept(data, request, o, stream', h)
  <2>1. Awaited(data, request, o)
    BY <1>4, <1>13 DEF Kept
  <2> QED
    BY <1>17, <2>1 DEF Kept
<1> QED
  BY <1>1, <1>2, <1>3, <1>4, <1>18, HandledPool DEF o, h

\* A buffer the ISP is done with goes to the first request, or back to its
\* stream when the frame is dropped.
LEMMA HandledChains ==
    ASSUME PipelineInv, NEW s \in Requested, NEW b \in Buffers, NEW f \in Nat,
           NEW o, NEW h, Kept(data, request, OwedNow, stream, AheadNow),
           AheadNow[s] # << >>, Head(AheadNow[s]) = b, h[s] = Tail(AheadNow[s]),
           \A z \in External : z # s => h[z] = AheadNow[z],
           Working(data), OwedNow[IspOf(s)] = 1, o[IspOf(s)] = 0,
           \A z \in Requested : z # s => o[IspOf(z)] = OwedNow[IspOf(z)]
    PROVE  Kept(data, Completed(s, b, f), o, HandledStream(s, b), h)
<1> DEFINE g == AheadNow[s]
           st == stream[s]
           ns == HandledStream(s, b)
           queue == data.requestQueue
           drop == data.dropFrameCount
<1>1. /\ data \in DataType /\ request \in [Requests -> RequestType]
      /\ queue # << >> /\ queue \in Seq(Requests) /\ drop \in Nat
      /\ stream \in [Queued -> StreamType]
  BY ContextNow DEF Context, PipelineInv, Types, DataType
<1>2. s \in External /\ s \in Queued /\ s # "Embedded"
  BY DEF Requested, External, Queued, Streams, IspStreams, IspOutputs
<1>3. g \in Seq(Slots) /\ st \in StreamType
  BY <1>2, AheadNowType
<1>4. Feed(st) \in Seq(Slots)
  BY <1>3, FeedType
<1>5. Had(data, OwedNow, s) = 0 /\ Had(data, o, s) = 1
  BY DEF Had
<1>6. StreamKept(data, OwedNow, s, st.available, Both(g, Feed(st)))
  BY <1>2 DEF Kept, Chain, Both
<1>7. IF drop = 0 THEN b = Head(queue) ELSE b = Internal
  <2> HIDE DEF g, st
  <2> QED
    BY <1>1, <1>3, <1>4, <1>5, <1>6, WhoseBuffer DEF g
<1>8. Head(queue) \in Requests
  BY <1>1, Taken
<1>9. /\ IsForRequest(s, b) <=> drop = 0
      /\ drop = 0 => b \in Requests /\ b # Internal
  <2>1. Internal \notin Requests
    BY RPiAssumption DEF RPiAssumption
  <2> QED
    BY <1>1, <1>7, <1>8, <2>1 DEF IsForRequest
<1>10. /\ StreamKept(data, o, s, ns[s].available, Both(Tail(g), Feed(ns[s])))
       /\ \A z \in External : z # s => ns[z] = stream[z]
  <2>1. CASE drop = 0
    <3>1. ns = stream
      BY <1>9, <2>1 DEF HandledStream
    <3>2. Head(g) # Internal
      BY <1>9, <2>1
    <3>3. StreamKept(data, o, s, st.available, Both(Tail(g), Feed(st)))
      <4> HIDE DEF g, st
      <4> QED
        BY <1>1, <1>3, <1>4, <1>5, <1>6, <3>2, RequestTakes DEF g
    <3> QED
      BY <3>1, <3>3
  <2>2. CASE drop # 0
    <3>1. ns = [stream EXCEPT ![s] = ReturnBuffer(st, Internal)]
      BY <1>7, <1>9, <2>2 DEF HandledStream
    <3>2. /\ ns[s] = ReturnBuffer(st, Internal)
          /\ \A z \in External : z # s => ns[z] = stream[z]
      <4> DEFINE x == ReturnBuffer(st, Internal)
      <4> HIDE DEF x, ns
      <4>1. ns = [stream EXCEPT ![s] = x]
        BY <3>1 DEF x
      <4>2. ns[s] = x /\ \A z \in Queued : z # s => ns[z] = stream[z]
        BY <1>1, <1>2, <4>1
      <4> QED
        BY <4>2 DEF x, External, Queued, Streams, IspStreams, IspOutputs
    <3>3. Head(g) = Internal
      BY <1>7, <2>2
    <3>4. StreamKept(data, o, s, ReturnBuffer(st, Internal).available,
                     Both(Tail(g), Feed(ReturnBuffer(st, Internal))))
      <4> HIDE DEF g, st
      <4> QED
        BY <1>1, <1>3, <1>5, <1>6, <3>3, OwnReturns DEF g
    <3> HIDE DEF ns, g, st
    <3> QED
      BY <3>2, <3>4
  <2> QED
    BY <2>1, <2>2
<1> HIDE DEF ns
<1>11. ASSUME NEW z \in External
       PROVE  StreamKept(data, o, z, ns[z].available, Chain(ns, h, z))
  <2>1. CASE z = s
    BY <1>10, <2>1 DEF Chain, Both
  <2>2. CASE z # s
    <3>1. StreamKept(data, OwedNow, z, stream[z].available, Chain(stream, AheadNow, z))
      BY DEF Kept
    <3>2. ns[z] = stream[z] /\ h[z] = AheadNow[z]
      BY <1>10, <2>2
    <3>3. z \in Requested => Had(data, o, z) = Had(data, OwedNow, z)
      BY <2>2 DEF Had
    <3> QED
      BY <3>1, <3>2, <3>3 DEF StreamKept, Chain
  <2> QED
    BY <2>1, <2>2
<1>12. Awaited(data, Completed(s, b, f), o)
  <2>1. ASSUME drop = 0, NEW z \in Requested, o[IspOf(z)] = 0
        PROVE  z \notin Completed(s, b, f)[Head(queue)].pending
    <3>1. /\ Head(queue) = b /\ b \in Requests
          /\ Completed(s, b, f) = [request EXCEPT ![b].pending = @ \ {s}, ![b].got[s] = f]
      BY <1>7, <1>9, <2>1 DEF Completed
    <3>2. Completed(s, b, f)[b].pending = request[b].pending \ {s}
      <4>1. request[b] \in RequestType
        BY <1>1, <3>1
      <4>2. b \in DOMAIN request
        BY <1>1, <3>1
      <4>3. [request[b] EXCEPT !.pending = @ \ {s}, !.got[s] = f].pending
              = request[b].pending \ {s}
        BY <4>1 DEF RequestType
      <4> QED
        BY <3>1, <4>2, <4>3
    <3>3. CASE z = s
      BY <3>1, <3>2, <3>3
    <3>4. CASE z # s
      <4>1. z \notin request[b].pending
        BY <2>1, <3>1, <3>4 DEF Kept, Awaited
      <4> QED
        BY <3>1, <3>2, <4>1
    <3> QED
      BY <3>3, <3>4
  <2> QED
    BY <2>1 DEF Awaited
<1> QED
  BY <1>11, <1>12 DEF Kept, ns

\* The ISP has given back an image.
LEMMA PoolIspInputDequeue ==
    ASSUME PipelineInv, FramesInv, PoolInv, IspInputDequeue PROVE PoolInv'
<1> DEFINE e == Head(done["Input"])
           b == e.buf
           f == e.frame
           rq == Completed("Image", b, f)
           o == Owed(toIpa, messages', jobs', finished', done')
           h == Ahead(data, toIpa, messages', jobs', finished', done')
           n2 == done'
           g == AheadNow["Image"]
<1>1. /\ Dequeue("Input") /\ HandleState(data, rq, toIpa)
      /\ stream' = HandledStream("Image", b)
      /\ UNCHANGED <<jobs, finished, messages>>
      /\ PipelineInv'
  BY IspInputDequeueStep DEF IspInputDequeue
<1>2. "Input" \in Streams /\ "Image" \in Requested /\ "Input" \in IspStreams
      /\ "Output0" \in IspStreams
  BY DEF Streams, IspStreams, IspOutputs, Requested
<1>3. /\ e \in Frames /\ done["Input"] # << >> /\ done["Input"] \in Seq(Frames)
      /\ n2["Input"] = Tail(done["Input"])
      /\ \A z \in Streams : z # "Input" => n2[z] = done[z]
  BY <1>1, <1>2, DequeueTypes
<1>4. /\ data \in DataType /\ toIpa \in Seq(IpaMessages)
      /\ messages \in Seq(HandlerMessages) /\ jobs \in Seq(Frames)
      /\ (jobs = << >> => "Input" \notin finished) /\ done \in [Streams -> Seq(Frames)]
      /\ data.state # "Busy" => toIpa = << >> /\ messages' = << >>
      /\ Working(data) => data.requestQueue # << >>
  BY <1>1, ContextNow DEF Context
<1>5. OwedNow["Input"] = 1 /\ Working(data) /\ FramesInv'
  BY <1>1, DequeueIsp, FramesIspInputDequeue
<1>6. o["Input"] = 0 /\ o["Output0"] = OwedNow["Output0"]
  <2>1. Upstream(toIpa, messages) = UpNow
    BY DEF UpNow
  <2>2. \A z \in IspStreams : /\ z # "Input" => o[z] = OwedNow[z]
                              /\ z = "Input" => o[z] = OwedNow[z] - 1
    <3> HIDE DEF o
    <3> QED
      BY <1>1, <1>2, <2>1, DequeueOwed DEF o
  <2> QED
    BY <1>2, <1>5, <2>2
<1>7. b \in Buffers /\ f \in Nat
  BY <1>3 DEF Frames
<1>8. rq \in [Requests -> RequestType]
  BY <1>2, <1>7, CompletedType
<1>9. h = Ahead(data, toIpa, messages, jobs, finished, n2)
  BY <1>1
<1>10. /\ Bufs(n2["Input"]) = Tail(Bufs(done["Input"])) /\ Bufs(done["Input"]) # << >>
       /\ b = Head(Bufs(done["Input"]))
  BY <1>3, BufsMoves
<1>11. /\ \A z \in Streams : Bufs(done[z]) \in Seq(Slots)
       /\ Bufs(Unread(jobs, finished)) \in Seq(Slots)
       /\ Sending(toIpa, messages) \in Seq(Slots)
       /\ Bufs(data.bayerQueue) \in Seq(Slots)
  BY <1>4, PartTypes
<1> HIDE DEF rq, o, h, n2, b, e, f
<1>12. n2["Image"] = done["Image"] /\ n2["Embedded"] = done["Embedded"]
       /\ n2["Output0"] = done["Output0"]
  BY <1>3 DEF Streams, IspStreams, IspOutputs
<1>13. g # << >> /\ Head(g) = b /\ h["Image"] = Tail(g)
  <2> DEFINE a == Bufs(done["Input"])
             c == Bufs(Unread(jobs, finished))
             k == Sending(toIpa, messages)
             p == Bufs(data.bayerQueue)
             q == Bufs(done["Image"])
             u == Both(c, Parts3(k, p, q))
  <2>1. g = Parts5(a, c, k, p, q)
    BY AheadParts DEF AheadNow
  <2>2. h["Image"] = Parts5(Tail(a), c, k, p, q)
    <3>1. h["Image"] = Parts5(Bufs(n2["Input"]), c, k, p, Bufs(n2["Image"]))
      BY <1>9, AheadParts
    <3> HIDE DEF a, c, k, p
    <3> QED
      BY <1>10, <1>12, <3>1 DEF a
  <2>3. a \in Seq(Slots) /\ a # << >> /\ Head(a) = b
    BY <1>2, <1>10, <1>11
  <2>4. /\ c \in Seq(Slots) /\ k \in Seq(Slots) /\ p \in Seq(Slots) /\ q \in Seq(Slots)
    BY <1>11 DEF Streams
  <2> HIDE DEF a, c, k, p, q, g, u
  <2>5. u \in Seq(Slots)
    <3>1. Parts3(k, p, q) \in Seq(Slots)
      BY <2>4, Parts3Type
    <3>2. c \o Parts3(k, p, q) \in Seq(Slots)
      BY <2>4, <3>1, ConcatProperties
    <3> QED
      BY <3>2 DEF u, Both
  <2>6. g = Both(a, u) /\ h["Image"] = Both(Tail(a), u)
    BY <2>1, <2>2 DEF Parts5, Both, u
  <2>7. /\ Both(a, u) # << >> /\ Head(Both(a, u)) = Head(a)
        /\ Tail(Both(a, u)) = Both(Tail(a), u)
    BY <2>3, <2>5, FirstAhead
  <2> QED
    BY <2>3, <2>6, <2>7
<1>14. h["Embedded"] = AheadNow["Embedded"] /\ h["Output0"] = AheadNow["Output0"]
  BY <1>9, <1>12, AheadParts DEF AheadNow
<1> HIDE DEF g
<1>15. \A z \in External : z # "Image" => h[z] = AheadNow[z]
  BY <1>14 DEF External
<1>16. Kept(data, request, OwedNow, stream, AheadNow) /\ data.state # "Stopped"
  BY <1>5, KeptAll DEF Working
<1>17. Kept(data, rq, o, stream', h)
  <2>1. IspOf("Image") = "Input" /\ IspOf("Output0") = "Output0"
    BY DEF IspOf
  <2>2. \A z \in Requested : z # "Image" => o[IspOf(z)] = OwedNow[IspOf(z)]
    BY <1>6, <2>1 DEF Requested
  <2>3. /\ AheadNow["Image"] # << >> /\ Head(AheadNow["Image"]) = b
        /\ h["Image"] = Tail(AheadNow["Image"])
    BY <1>13 DEF g
  <2>4. OwedNow[IspOf("Image")] = 1 /\ o[IspOf("Image")] = 0
    BY <1>5, <1>6, <2>1
  <2>5. Kept(data, Completed("Image", b, f), o, HandledStream("Image", b), h)
    BY <1>2, <1>5, <1>7, <1>15, <1>16, <2>2, <2>3, <2>4, HandledChains
  <2> QED
    BY <1>1, <2>5 DEF rq
<1> QED
  BY <1>1, <1>4, <1>5, <1>8, <1>16, <1>17, HandledPool DEF o, h, n2

\* The ISP has made an image, or what comes with it.
LEMMA PoolIspOutputDequeue ==
    ASSUME PipelineInv, FramesInv, PoolInv, NEW s \in IspOutputs, IspOutputDequeue(s)
    PROVE  PoolInv'
<1> DEFINE e == Head(done[s])
           b == e.buf
           f == e.frame
           d == [data EXCEPT !.ispOutputCount = @ + 1]
           rq == IF s = "Output0" THEN Completed(s, b, f) ELSE request
           t == IF s = "Stats" THEN Append(toIpa, [type |-> "signalStatReady"])
                               ELSE toIpa
           o == Owed(t, messages', jobs', finished', done')
           h == Ahead(d, t, messages', jobs', finished', done')
           n2 == done'
<1>1. /\ Dequeue(s) /\ HandleState(d, rq, t)
      /\ stream' = CASE s = "Output0" -> HandledStream(s, b)
                     [] s = "Output1" -> [stream EXCEPT ![s].device = Append(@, b)]
                     [] OTHER -> stream
      /\ UNCHANGED <<jobs, finished, messages>>
      /\ PipelineInv'
  BY IspOutputDequeueStep DEF IspOutputDequeue
<1>2. /\ s \in Streams /\ s \in IspStreams /\ s # "Input" /\ "Output0" \in Requested
      /\ "Output0" \in IspStreams /\ "Input" \in IspStreams
  BY DEF Streams, IspStreams, IspOutputs, Requested
<1>3. /\ e \in Frames /\ done[s] # << >> /\ done[s] \in Seq(Frames)
      /\ n2[s] = Tail(done[s]) /\ \A z \in Streams : z # s => n2[z] = done[z]
  BY <1>1, <1>2, DequeueTypes
<1>4. /\ data \in DataType /\ toIpa \in Seq(IpaMessages)
      /\ messages \in Seq(HandlerMessages) /\ jobs \in Seq(Frames)
      /\ (jobs = << >> => "Input" \notin finished) /\ done \in [Streams -> Seq(Frames)]
      /\ request \in [Requests -> RequestType]
      /\ data.state # "Busy" => toIpa = << >> /\ messages' = << >>
      /\ Working(data) => data.requestQueue # << >>
  BY <1>1, ContextNow DEF Context
<1>5. FramesInv' /\ data.state # "Stopped"
  <2>1. FramesInv'
    BY FramesIspOutputDequeue
  <2>2. data.state # "Stopped"
    BY <1>2, <1>3, FramesParts DEF Resting
  <2> QED
    BY <2>1, <2>2
<1>6. /\ d \in DataType /\ d.state = data.state
      /\ d.requestQueue = data.requestQueue /\ d.bayerQueue = data.bayerQueue
      /\ d.embeddedQueue = data.embeddedQueue
      /\ d.dropFrameCount = data.dropFrameCount
  <2>1. data.ispOutputCount + 1 \in Nat
    BY <1>4 DEF DataType
  <2> QED
    BY <1>4, <2>1 DEF DataType
<1>7. b \in Buffers /\ f \in Nat
  BY <1>3 DEF Frames
<1>8. rq \in [Requests -> RequestType]
  <2>1. s = "Output0" => Completed(s, b, f) \in [Requests -> RequestType]
    BY <1>2, <1>7, CompletedType
  <2> QED
    BY <1>4, <2>1
<1>9. /\ t \in Seq(IpaMessages) /\ (d.state # "Busy" => t = << >> /\ messages' = << >>)
      /\ Sending(t, messages) = Sending(toIpa, messages)
      /\ Reading(t, messages) = Reading(toIpa, messages)
      /\ Upstream(t, messages) = UpNow
  <2> DEFINE m == [type |-> "signalStatReady"]
  <2>1. CASE s = "Stats"
    <3>1. /\ data.state = "Busy" /\ toIpa = << >> /\ messages = << >>
      BY <1>3, <2>1, StatsAlone
    <3>2. t = <<m>> /\ t[1] = m /\ DOMAIN t = {1} /\ m.type = "signalStatReady"
          /\ DOMAIN toIpa = {} /\ DOMAIN messages = {}
      BY <2>1, <3>1
    <3>3. m \in IpaMessages
      BY DEF IpaMessages
    <3> HIDE DEF m
    <3>4. t \in Seq(IpaMessages)
      BY <3>2, <3>3
    <3> HIDE DEF t
    <3>5. /\ Sending(t, messages) = Sending(toIpa, messages)
          /\ Reading(t, messages) = Reading(toIpa, messages)
      BY <3>1, <3>2 DEF Sending, Reading, EmbeddedFirst
    <3>6. Upstream(t, messages) = UpNow
      BY <3>2 DEF UpNow, Upstream, HasType
    <3> QED
      BY <1>6, <3>1, <3>4, <3>5, <3>6
  <2>2. CASE s # "Stats"
    BY <1>4, <1>6, <2>2 DEF UpNow
  <2> QED
    BY <2>1, <2>2
<1>10. /\ Bufs(n2[s]) = Tail(Bufs(done[s])) /\ Bufs(done[s]) # << >>
       /\ b = Head(Bufs(done[s]))
  BY <1>3, BufsMoves
<1> HIDE DEF t, e
<1>11. \A z \in IspStreams : /\ OwedNow[z] \in Nat
                             /\ z # s => o[z] = OwedNow[z]
                             /\ z = s => o[z] = OwedNow[z] - 1
  <2> HIDE DEF o
  <2> QED
    BY <1>1, <1>2, <1>9, DequeueOwed DEF o
<1>12. h = Ahead(data, toIpa, messages, jobs, finished, n2)
  <2>1. h = Ahead(d, t, messages, jobs, finished, n2)
    BY <1>1
  <2> HIDE DEF d, h, n2
  <2> QED
    BY <1>6, <1>9, <2>1 DEF Ahead
<1> HIDE DEF d, rq, o, h, n2, b, f
<1>13. h["Image"] = AheadNow["Image"] /\ h["Embedded"] = AheadNow["Embedded"]
  <2>1. /\ n2["Input"] = done["Input"] /\ n2["Image"] = done["Image"]
        /\ n2["Embedded"] = done["Embedded"]
    BY <1>2, <1>3 DEF Streams, IspStreams, IspOutputs
  <2> QED
    BY <1>12, <2>1, AheadParts DEF AheadNow
<1>14. h["Output0"] = Bufs(n2["Output0"]) /\ AheadNow["Output0"] = Bufs(done["Output0"])
  BY <1>12, AheadParts DEF AheadNow
<1>15. Kept(data, request, OwedNow, stream, AheadNow)
  BY <1>5, KeptAll
<1>16. Working(d) <=> Working(data)
  BY <1>6 DEF Working
<1>17. CASE s = "Output0"
  <2>1. /\ h["Output0"] = Tail(AheadNow["Output0"]) /\ AheadNow["Output0"] # << >>
        /\ Head(AheadNow["Output0"]) = b
    BY <1>14, <1>17, <1>10
  <2>2. OwedNow["Output0"] = 1 /\ Working(data)
    BY <1>1, <1>17, DequeueIsp
  <2>3. o["Output0"] = 0 /\ o["Input"] = OwedNow["Input"]
    BY <1>2, <1>11, <1>17, <2>2
  <2>4. IspOf("Image") = "Input" /\ IspOf("Output0") = "Output0"
    BY DEF IspOf
  <2>5. \A z \in Requested : z # "Output0" => o[IspOf(z)] = OwedNow[IspOf(z)]
    BY <2>3, <2>4 DEF Requested
  <2>6. \A z \in External : z # "Output0" => h[z] = AheadNow[z]
    BY <1>13 DEF External
  <2>7. OwedNow[IspOf("Output0")] = 1 /\ o[IspOf("Output0")] = 0
    BY <2>2, <2>3, <2>4
  <2>8. Kept(data, Completed("Output0", b, f), o, HandledStream("Output0", b), h)
    BY <1>2, <1>7, <1>15, <2>1, <2>2, <2>5, <2>6, <2>7, HandledChains
  <2>9. stream' = HandledStream("Output0", b) /\ rq = Completed("Output0", b, f)
    BY <1>1, <1>17 DEF rq
  <2>10. Kept(data, rq, o, stream', h)
    BY <2>8, <2>9
  <2>11. Kept(d, rq, o, stream', h)
    BY <1>6, <1>16, <2>10, StillKept
  <2> QED
    BY <1>1, <1>5, <1>6, <1>8, <1>9, <1>16, <1>4, <2>11, HandledPool DEF o, h, n2
<1>18. CASE s # "Output0"
  <2>1. h["Output0"] = AheadNow["Output0"]
    BY <1>3, <1>14, <1>18 DEF Streams, IspStreams, IspOutputs
  <2>2. \A z \in External : h[z] = AheadNow[z]
    BY <1>13, <2>1 DEF External
  <2>3. \A z \in External : stream'[z] = stream[z]
    BY <1>1, <1>18 DEF External, IspOutputs
  <2>4. o["Input"] = OwedNow["Input"] /\ o["Output0"] = OwedNow["Output0"]
    BY <1>2, <1>11, <1>18
  <2>5. rq = request
    BY <1>18 DEF rq
  <2> DEFINE st2 == stream'
  <2>6. \A z \in External : /\ st2[z].available = stream[z].available
                            /\ Chain(st2, h, z) = Chain(stream, AheadNow, z)
    BY <2>2, <2>3 DEF Chain
  <2> HIDE DEF st2
  <2>7. Kept(d, rq, o, st2, h)
    BY <1>6, <1>15, <1>16, <2>4, <2>5, <2>6, StillKept
  <2>8. Kept(d, rq, o, stream', h)
    BY <2>7 DEF st2
  <2> QED
    BY <1>1, <1>5, <1>6, <1>8, <1>9, <1>16, <1>4, <2>8, HandledPool DEF o, h, n2
<1> QED
  BY <1>17, <1>18

\* The buffer of a request queued is the last of its chain.
LEMMA QueuedRequest ==
    ASSUME NEW d \in DataType, NEW d2 \in DataType, NEW o, NEW s \in Requested,
           NEW st \in StreamType, NEW h \in Seq(Slots), NEW r \in Requests,
           d2.requestQueue = Added(d.requestQueue, r),
           d2.dropFrameCount = d.dropFrameCount, Working(d2) <=> Working(d),
           StreamKept(d, o, s, st.available, Both(h, Feed(st)))
    PROVE  StreamKept(d2, o, s, QueueBuffer(st, r).available,
                      Both(h, Feed(QueueBuffer(st, r))))
<1> DEFINE c == Both(h, Feed(st))
           av == st.available
           new == QueueBuffer(st, r)
           drop == d.dropFrameCount
           queue == d.requestQueue
           k == Had(d, o, s)
<1>1. r \in Buffers /\ r \in Slots /\ r # Internal
  BY RPiAssumption DEF Buffers, Slots, RPiAssumption
<1>2. Feed(st) \in Seq(Slots)
  BY FeedType
<1>3. new.available = av /\ Feed(new) = Append(Feed(st), r)
  BY <1>1, QueueBufferFeed
<1>4. c \in Seq(Slots) /\ Both(h, Feed(new)) = Append(c, r)
  <2>1. h \o Feed(st) \in Seq(Slots)
    BY <1>2, ConcatProperties
  <2>2. h \o Append(Feed(st), r) = Append(h \o Feed(st), r)
    BY <1>1, <1>2, Postponed
  <2> QED
    BY <1>3, <2>1, <2>2 DEF Both
<1>5. drop \in Nat /\ queue \in Seq(Requests) /\ k \in Nat
  BY DEF DataType, Had
<1>6. Pooled(av, c) /\ InOrder(drop, queue, k, c)
  BY DEF StreamKept
<1>7. Had(d2, o, s) = k /\ s # "Embedded"
  BY DEF Had, Requested
<1>8. d2.requestQueue = Append(queue, r) /\ d2.dropFrameCount = drop
  BY DEF Added
<1> HIDE DEF c, av, new, drop, queue, k
<1>9. Pooled(av, Append(c, r))
  <2>1. Count(Append(c, r), Internal) = Count(c, Internal) + 0
    BY <1>1, <1>4, CountAppended
  <2>2. Count(c, Internal) \in Nat
    BY <1>4, Counted
  <2> QED
    BY <1>6, <2>1, <2>2 DEF Pooled
<1>10. InOrder(drop, Append(queue, r), k, Append(c, r))
  BY <1>4, <1>5, <1>6, OrderQueued
<1>11. StreamKept(d2, o, s, av, Append(c, r))
  BY <1>7, <1>8, <1>9, <1>10 DEF StreamKept
<1> QED
  BY <1>3, <1>4, <1>11 DEF new

\* And a buffer of the stream's own, or one yet to be chosen, that of the
\* embedded data.
LEMMA QueuedOwn ==
    ASSUME NEW d, NEW d2, NEW o, NEW st \in StreamType, NEW h \in Seq(Slots),
           StreamKept(d, o, "Embedded", st.available, Both(h, Feed(st)))
    PROVE  StreamKept(d2, o, "Embedded", QueueBuffer(st, Null).available,
                      Both(h, Feed(QueueBuffer(st, Null))))
<1> DEFINE c == Both(h, Feed(st))
           av == st.available
           new == QueueBuffer(st, Null)
           av2 == new.available
<1>1. Feed(st) \in Seq(Slots)
  BY FeedType
<1>2. Pooled(av, c) /\ OwnOnly(c)
  BY DEF StreamKept
<1>3. \A i \in DOMAIN av : av[i] = Internal
  BY <1>2 DEF Pooled
<1>4. /\ \A i \in DOMAIN av2 : av2[i] = Internal
      /\ \E e \in {Internal, Null} :
           /\ Feed(new) = Append(Feed(st), e)
           /\ Len(av2) + (IF e = Internal THEN 1 ELSE 0) = Len(av)
  BY <1>3, QueueNullFeed
<1>5. PICK e \in {Internal, Null} :
        /\ Feed(new) = Append(Feed(st), e)
        /\ Len(av2) + (IF e = Internal THEN 1 ELSE 0) = Len(av)
  BY <1>4
<1>6. e \in Slots /\ "Embedded" \notin Requested
  BY DEF Slots, Buffers, Requested
<1>7. c \in Seq(Slots) /\ Both(h, Feed(new)) = Append(c, e)
  <2>1. h \o Feed(st) \in Seq(Slots)
    BY <1>1, ConcatProperties
  <2>2. h \o Append(Feed(st), e) = Append(h \o Feed(st), e)
    BY <1>1, <1>6, Postponed
  <2> QED
    BY <1>5, <2>1, <2>2 DEF Both
<1>8. Len(av2) \in Nat /\ Len(av) \in Nat
  <2>1. new \in StreamType
    BY QueueBufferType
  <2> QED
    BY <2>1 DEF StreamType
<1> HIDE DEF c, av, new, av2
<1>9. Pooled(av2, Append(c, e))
  <2>1. Count(Append(c, e), Internal) = Count(c, Internal) + (IF e = Internal THEN 1 ELSE 0)
    BY <1>6, <1>7, CountAppended
  <2>2. Count(c, Internal) \in Nat
    BY <1>7, Counted
  <2>3. /\ Len(av) + Count(c, Internal) = BufferCount
        /\ Len(av2) + (IF e = Internal THEN 1 ELSE 0) = Len(av)
    BY <1>2, <1>5 DEF Pooled
  <2> DEFINE m == Count(c, Internal)
             n == Count(Append(c, e), Internal)
             y == IF e = Internal THEN 1 ELSE 0
             x == Len(av)
             x2 == Len(av2)
  <2>4. /\ n = m + y /\ m \in Nat /\ x \in Nat /\ x2 \in Nat /\ x + m = BufferCount
        /\ x2 + y = x /\ y \in Nat
    BY <1>8, <2>1, <2>2, <2>3
  <2> HIDE DEF m, n, y, x, x2
  <2>5. x2 + n = BufferCount
    BY <2>4
  <2> QED
    BY <1>4, <2>5 DEF Pooled, x2, n
<1>10. OwnOnly(Append(c, e))
  <2> DEFINE c2 == Append(c, e)
  <2>1. /\ Len(c2) = Len(c) + 1 /\ Len(c) \in Nat
        /\ \A i \in 1 .. Len(c) : c2[i] = c[i]
        /\ c2[Len(c) + 1] = e
    BY <1>6, <1>7, Appended, Emptied
  <2> HIDE DEF c2
  <2>2. \A i \in 1 .. Len(c2) : c2[i] \in {Internal, Null}
    BY <1>2, <2>1 DEF OwnOnly
  <2> QED
    BY <2>2 DEF OwnOnly, c2
<1>11. StreamKept(d2, o, "Embedded", av2, Append(c, e))
  BY <1>6, <1>9, <1>10 DEF StreamKept
<1> QED
  BY <1>7, <1>11 DEF new, av2

\* What is first in a queue stays first when another is added.
LEMMA FirstStays ==
    ASSUME NEW S, NEW q \in Seq(S), NEW e \in S
    PROVE  Append(q, e) # << >> /\ (q # << >> => Head(Append(q, e)) = Head(q))
<1> DEFINE v == Append(q, e)
<1>1. v \in Seq(S) /\ v # << >> /\ \A i \in 1 .. Len(q) : v[i] = q[i]
  BY Appended
<1> HIDE DEF v
<1>2. Head(v) = v[1]
  BY <1>1, Taken
<1>3. ASSUME q # << >> PROVE Head(v) = Head(q)
  <2>1. Head(q) = q[1] /\ 1 \in 1 .. Len(q)
    BY <1>3, Taken
  <2> QED
    BY <1>1, <1>2, <2>1
<1> QED
  BY <1>1, <1>3 DEF v

\* A request brings a buffer to the image and to output 0, and has one chosen
\* for the embedded data.
LEMMA PoolQueueRequestDevice ==
    ASSUME PipelineInv, FramesInv, PoolInv, QueueRequestDevice PROVE PoolInv'
<1> DEFINE r == Head(posted)
           d == [data EXCEPT !.requestQueue = Append(@, r)]
           o == Owed(toIpa, messages', jobs', finished', done')
           h == Ahead(d, toIpa, messages', jobs', finished', done')
<1>1. /\ posted # << >> /\ data.state # "Stopped" /\ HandleState(d, request, toIpa)
      /\ stream' = [s \in Queued |->
                      IF s \in External
                        THEN QueueBuffer(stream[s], IF s \in Requested THEN r ELSE Null)
                        ELSE stream[s]]
      /\ UNCHANGED <<jobs, finished, done, messages>>
      /\ PipelineInv'
  BY QueueRequestDeviceStep DEF QueueRequestDevice
<1>2. /\ data \in DataType /\ request \in [Requests -> RequestType]
      /\ toIpa \in Seq(IpaMessages)
      /\ data.state # "Busy" => toIpa = << >> /\ messages' = << >>
      /\ Working(data) => data.requestQueue # << >>
      /\ data.requestQueue \in Seq(Requests) /\ r \in Requests
  <2>1. posted \in Seq(Requests)
    BY DEF PipelineInv, Types
  <2> QED
    BY <1>1, <2>1, Taken, ContextNow DEF Context, DataType
<1>3. FramesInv'
  BY FramesQueueRequestDevice
<1> HIDE DEF r
<1>4. /\ d \in DataType /\ d.state = data.state
      /\ d.requestQueue = Added(data.requestQueue, r)
      /\ d.bayerQueue = data.bayerQueue /\ d.embeddedQueue = data.embeddedQueue
      /\ d.dropFrameCount = data.dropFrameCount
  <2>1. Append(data.requestQueue, r) \in Seq(Requests)
    BY <1>2, Appended
  <2> QED
    BY <1>2, <2>1 DEF DataType, Added
<1>5. /\ d.requestQueue # << >>
      /\ Working(data) => Head(d.requestQueue) = Head(data.requestQueue)
  <2> DEFINE q == data.requestQueue
  <2>1. q \in Seq(Requests) /\ r \in Requests
    BY <1>2
  <2>2. Working(data) => q # << >>
    BY <1>2
  <2>3. d.requestQueue = Append(q, r)
    BY <1>4 DEF Added
  <2> HIDE DEF q
  <2>4. Append(q, r) # << >> /\ (q # << >> => Head(Append(q, r)) = Head(q))
    BY <2>1, FirstStays
  <2> QED
    BY <2>2, <2>3, <2>4 DEF q
<1>6. o = OwedNow
  BY <1>1 DEF OwedNow
<1>7. h = AheadNow
  <2>1. h = Ahead(d, toIpa, messages, jobs, finished, done)
    BY <1>1
  <2> HIDE DEF d, h
  <2> QED
    BY <1>4, <2>1 DEF AheadNow, Ahead
<1> HIDE DEF d, h, o
<1>8. Working(d) <=> Working(data)
  BY <1>4 DEF Working
<1>9. Kept(data, request, OwedNow, stream, AheadNow)
  BY <1>1, KeptAll
<1>10. ASSUME NEW s \in External
       PROVE  StreamKept(d, OwedNow, s, stream'[s].available,
                         Both(AheadNow[s], Feed(stream'[s])))
  <2> DEFINE st == stream[s]
             g == AheadNow[s]
  <2>1. st \in StreamType /\ g \in Seq(Slots)
    BY AheadNowType
  <2>2. StreamKept(data, OwedNow, s, st.available, Both(g, Feed(st)))
    BY <1>9 DEF Kept, Chain, Both
  <2>3. stream'[s] = QueueBuffer(st, IF s \in Requested THEN r ELSE Null)
    BY <1>1 DEF External, Queued, Streams, IspStreams, IspOutputs
  <2> HIDE DEF st, g
  <2>4. CASE s \in Requested
    <3>1. stream'[s] = QueueBuffer(st, r)
      BY <2>3, <2>4
    <3>2. StreamKept(d, OwedNow, s, QueueBuffer(st, r).available,
                     Both(g, Feed(QueueBuffer(st, r))))
      BY <1>2, <1>4, <1>8, <2>1, <2>2, <2>4, QueuedRequest
    <3> QED
      BY <3>1, <3>2 DEF g
  <2>5. CASE s = "Embedded"
    <3>1. stream'[s] = QueueBuffer(st, Null)
      BY <2>3, <2>5 DEF Requested
    <3>2. StreamKept(d, OwedNow, "Embedded", QueueBuffer(st, Null).available,
                     Both(g, Feed(QueueBuffer(st, Null))))
      BY <2>1, <2>2, <2>5, QueuedOwn
    <3> QED
      BY <2>5, <3>1, <3>2 DEF g
  <2> QED
    BY <2>4, <2>5 DEF External, Requested
<1>11. Awaited(d, request, OwedNow)
  BY <1>4, <1>5, <1>8, <1>9 DEF Kept, Awaited
<1>12. Kept(d, request, o, stream', h)
  BY <1>6, <1>7, <1>10, <1>11 DEF Kept, Chain, Both
<1> QED
  BY <1>1, <1>2, <1>3, <1>4, <1>5, <1>12, HandledPool DEF o, h

\* The invariant holds of a stopped handler, and every step preserves it.
LEMMA PoolStep ==
    ASSUME PipelineInv, FramesInv, PoolInv, [Next]_vars PROVE PoolInv'
<1>1. CASE Start
  BY <1>1, PoolStart
<1>2. ASSUME NEW r \in Requests, QueueRequest(r) PROVE PoolInv'
  BY <1>2, PoolQueueRequest
<1>3. CASE CallStop \/ Poll \/ UNCHANGED vars
  <2>1. UNCHANGED <<request, data, stream, jobs, finished, done, messages, toIpa>>
    BY <1>3 DEF CallStop, Poll, vars
  <2>2. OwedNow' = OwedNow /\ AheadNow' = AheadNow
    BY <2>1 DEF OwedNow, AheadNow
  <2>3. \A s \in External :
          /\ stream'[s].available = stream[s].available
          /\ Chain(stream', AheadNow', s) = Chain(stream, AheadNow, s)
    BY <2>1, <2>2
  <2> QED
    BY <2>1, <2>2, <2>3, QuietStep
<1>4. CASE Stop
  <2>1. data'.state = "Stopped"
    BY <1>4 DEF Stop, StoppedData
  <2> QED
    BY <2>1 DEF PoolInv
<1>5. CASE Handlers /\ ~Poll /\ ~Stop
  <2>1. CASE Messages
    BY <1>5, <2>1, PoolQueueRequestDevice, PoolEmbeddedComplete, PoolRunIsp,
       PoolStatsMetadataComplete DEF Messages
  <2>2. ASSUME NEW s \in {"Image", "Embedded"}, UnicamBufferDequeue(s) PROVE PoolInv'
    BY <2>2, PoolUnicamBufferDequeue
  <2>3. CASE IspInputDequeue
    BY <2>3, PoolIspInputDequeue
  <2>4. ASSUME NEW s \in IspOutputs, IspOutputDequeue(s) PROVE PoolInv'
    BY <2>4, PoolIspOutputDequeue
  <2> QED
    BY <1>5, <2>1, <2>2, <2>3, <2>4 DEF Handlers
<1>6. CASE Ipa
  BY <1>6, PoolIpaEmbedded, PoolIpaPrepared, PoolIpaStatReady DEF Ipa
<1>7. CASE SensorFrame
  BY <1>7, PoolSensorFrame
<1>8. CASE Isp
  BY <1>8, PoolIspFinish DEF Isp
<1> QED
  BY <1>1, <1>2, <1>3, <1>4, <1>5, <1>6, <1>7, <1>8 DEF Next

\* QueueBuffer and ReturnBuffer lose no buffer, and keep those of a stream in the
\* order of the frames they are for: the frames to drop, then the requests.
THEOREM PoolInvariance == Spec => [](PipelineInv /\ FramesInv /\ PoolInv)
<1>1. Init => PoolInv
  BY DEF Init, PoolInv, StoppedData
<1>2. PipelineInv /\ FramesInv /\ PoolInv /\ [Next]_vars => PoolInv'
  BY PoolStep
<1> QED
  BY <1>1, <1>2, FramesInvariance, PTL DEF Spec

-----------------------------------------------------------------------------
(* Counting. What the places of a buffer add up to is what its pool and its  *)
(* chain have of it.                                                         *)

\* Three queues in a row have of a buffer what each has.
LEMMA CountParts3 ==
    ASSUME NEW a \in Seq(Slots), NEW b \in Seq(Slots), NEW c \in Seq(Slots), NEW x
    PROVE  /\ Parts3(a, b, c) \in Seq(Slots)
           /\ Count(Parts3(a, b, c), x) = Count(a, x) + Count(b, x) + Count(c, x)
<1> DEFINE u == b \o c
<1>1. u \in Seq(Slots) /\ Count(u, x) = Count(b, x) + Count(c, x)
  BY CountJoined, ConcatProperties
<1> HIDE DEF u
<1>2. a \o u \in Seq(Slots) /\ Count(a \o u, x) = Count(a, x) + Count(u, x)
  BY <1>1, CountJoined, ConcatProperties
<1>3. Count(a, x) \in Nat /\ Count(b, x) \in Nat /\ Count(c, x) \in Nat
  BY Counted
<1>4. Parts3(a, b, c) = a \o u
  BY DEF Parts3, u
<1> QED
  BY <1>1, <1>2, <1>3, <1>4

\* And five.
LEMMA CountParts5 ==
    ASSUME NEW a \in Seq(Slots), NEW b \in Seq(Slots), NEW c \in Seq(Slots),
           NEW p \in Seq(Slots), NEW q \in Seq(Slots), NEW x
    PROVE  Count(Parts5(a, b, c, p, q), x)
             = Count(a, x) + Count(b, x) + Count(c, x) + Count(p, x) + Count(q, x)
<1> DEFINE u == Parts3(c, p, q)
<1>1. u \in Seq(Slots) /\ Count(u, x) = Count(c, x) + Count(p, x) + Count(q, x)
  BY CountParts3
<1>2. Parts5(a, b, c, p, q) = Parts3(a, b, u)
  BY DEF Parts5, Parts3
<1> HIDE DEF u
<1>3. Count(Parts3(a, b, u), x) = Count(a, x) + Count(b, x) + Count(u, x)
  BY <1>1, CountParts3
<1>4. /\ Count(a, x) \in Nat /\ Count(b, x) \in Nat /\ Count(c, x) \in Nat
      /\ Count(p, x) \in Nat /\ Count(q, x) \in Nat
  BY Counted
<1> QED
  BY <1>1, <1>2, <1>3, <1>4

\* One carrier counts its buffer once.
LEMMA OneCarrier ==
    ASSUME NEW A, NEW k, NEW e, NEW x, A \subseteq {k}, k \in A <=> e = x
    PROVE  Cardinality(A) = Count(<<e>>, x) /\ Count(<<e>>, x) \in Nat
<1>1. Count(<<e>>, x) = IF e = x THEN 1 ELSE 0
  BY CountOne
<1>2. Cardinality({}) = 0 /\ Cardinality({k}) = 1
  BY FS_EmptySet, FS_Singleton
<1>3. A = IF e = x THEN {k} ELSE {}
  OBVIOUS
<1> QED
  BY <1>1, <1>2, <1>3

\* At most one message carries an image, and one embedded data.
LEMMA Carriers ==
    ASSUME PipelineInv
    PROVE  /\ \A i \in DOMAIN toIpa : i = 1
           /\ toIpa # << >> => 1 \in DOMAIN toIpa
           /\ messages # << >> =>
                1 \in DOMAIN messages /\ Len(messages) \in DOMAIN messages
           /\ \A i \in DOMAIN messages :
                /\ messages[i].type = "runIsp" => i = Len(messages) /\ toIpa = << >>
                /\ messages[i].type = "embeddedComplete" =>
                     /\ i = 1
                     /\ toIpa # << >> => toIpa[1].type = "signalIspPrepare"
                                         /\ toIpa[1].embedded = Null
<1> DEFINE m == messages
           t == toIpa
           n == done["Stats"]
           state == data.state
<1>1. /\ t \in Seq(IpaMessages) /\ m \in Seq(HandlerMessages) /\ jobs \in Seq(Frames)
      /\ n \in Seq(Frames) /\ OneJob(state, t, m, jobs, finished, n)
  BY Before
<1> HIDE DEF m, t, n, state
<1>2. /\ Len(t) \in Nat /\ Len(m) \in Nat /\ Len(m) <= 2
      /\ EmbeddedFirst(m) => Len(m) >= 1
      /\ ~EmbeddedFirst(m) => Len(m) <= 1
      /\ t # << >> => Len(t) = 1 /\ (m = << >> \/ (EmbeddedFirst(m) /\ Len(m) = 1))
  BY <1>1, FlightParts
<1>3. (Len(t) = 0 <=> t = << >>) /\ (Len(m) = 0 <=> m = << >>)
  BY <1>1, Emptied
<1>4. DOMAIN t = 1 .. Len(t) /\ DOMAIN m = 1 .. Len(m)
  BY <1>1
<1>5. /\ \A i \in 2 .. Len(m) : m[i].type # "embeddedComplete"
      /\ EmbeddedFirst(m) /\ t # << >> =>
           t[1].type = "signalIspPrepare" /\ t[1].embedded = Null
  BY <1>1 DEF OneJob
<1>6. EmbeddedFirst(m) <=> m # << >> /\ m[1].type = "embeddedComplete"
  BY DEF EmbeddedFirst
<1>7. /\ \A i \in DOMAIN t : i = 1
      /\ t # << >> => 1 \in DOMAIN t
      /\ m # << >> => 1 \in DOMAIN m /\ Len(m) \in DOMAIN m
  BY <1>2, <1>3, <1>4
<1>8. ASSUME NEW i \in DOMAIN m, m[i].type = "runIsp" PROVE i = Len(m) /\ t = << >>
  <2>1. i = 1 => ~EmbeddedFirst(m)
    BY <1>6, <1>8
  <2>2. i \in 1 .. Len(m)
    BY <1>4
  <2>3. i = Len(m)
    BY <1>2, <2>1, <2>2
  <2>4. Len(m) = 1 => ~EmbeddedFirst(m)
    BY <2>1, <2>3
  <2> QED
    BY <1>2, <1>3, <2>2, <2>3, <2>4
<1>9. ASSUME NEW i \in DOMAIN m, m[i].type = "embeddedComplete"
      PROVE  /\ i = 1
             /\ t # << >> => t[1].type = "signalIspPrepare" /\ t[1].embedded = Null
  <2>1. i \in 1 .. Len(m) /\ i \notin 2 .. Len(m)
    BY <1>4, <1>5, <1>9
  <2>2. i = 1
    BY <1>2, <2>1
  <2>3. EmbeddedFirst(m)
    BY <1>3, <1>6, <1>9, <2>1, <2>2, <1>2
  <2> QED
    BY <1>5, <2>2, <2>3
<1> QED
  BY <1>7, <1>8, <1>9 DEF m, t

\* What the IPA and its messages hold of the images and of the embedded data.
LEMMA CountSending ==
    ASSUME PipelineInv, NEW b
    PROVE  AtIpa("bayer", "runIsp", b) = Count(Sending(toIpa, messages), b)
<1> DEFINE T == {i \in DOMAIN toIpa : /\ toIpa[i].type = "signalIspPrepare"
                                      /\ toIpa[i]["bayer"] # Null
                                      /\ toIpa[i]["bayer"].buf = b}
           M == {i \in DOMAIN messages : messages[i].type = "runIsp"
                                           /\ messages[i]["bayer"].buf = b}
           k == Len(messages)
<1>1. AtIpa("bayer", "runIsp", b) = Cardinality(T) + Cardinality(M)
  BY DEF AtIpa
<1>2. Cardinality({}) = 0 /\ \A x : Cardinality({x}) = 1
  BY FS_EmptySet, FS_Singleton
<1>3. CASE messages # << >> /\ messages[k].type = "runIsp"
  <2>1. k \in DOMAIN messages /\ toIpa = << >>
    BY <1>3, Carriers
  <2>2. T = {}
    BY <2>1
  <2>3. M \subseteq {k} /\ (k \in M <=> messages[k].bayer.buf = b)
    BY <1>3, <2>1, Carriers
  <2>4. Sending(toIpa, messages) = <<messages[k].bayer.buf>>
    BY <1>3 DEF Sending
  <2> DEFINE e == messages[k].bayer.buf
  <2> HIDE DEF T, M, e
  <2>5. Cardinality(M) = Count(<<e>>, b) /\ Count(<<e>>, b) \in Nat
    BY <2>3, OneCarrier DEF e
  <2>6. Cardinality(T) = 0
    BY <1>2, <2>2
  <2> QED
    BY <1>1, <2>4, <2>5, <2>6 DEF e
<1>4. CASE ~(messages # << >> /\ messages[k].type = "runIsp")
  <2>1. M = {}
    BY <1>4, Carriers
  <2>2. CASE toIpa # << >> /\ toIpa[1].type = "signalIspPrepare"
    <3>1. 1 \in DOMAIN toIpa /\ \A i \in DOMAIN toIpa : i = 1
      BY <2>2, Carriers
    <3>2. toIpa[1].bayer # Null
      <4> DEFINE x == toIpa[1]
      <4>1. x \in IpaMessages /\ x.type = "signalIspPrepare"
        BY <2>2, <3>1, Before
      <4> HIDE DEF x
      <4>2. x.bayer \in Frames
        BY <4>1 DEF IpaMessages, Prepares
      <4>3. Null \notin Frames
        BY RPiAssumption DEF RPiAssumption, Frames, Buffers
      <4> QED
        BY <4>2, <4>3 DEF x
    <3>3. T \subseteq {1} /\ (1 \in T <=> toIpa[1].bayer.buf = b)
      BY <2>2, <3>1, <3>2
    <3>4. Sending(toIpa, messages) = <<toIpa[1].bayer.buf>>
      BY <1>4, <2>2 DEF Sending
    <3> DEFINE e == toIpa[1].bayer.buf
    <3> HIDE DEF T, M, e
    <3>5. Cardinality(T) = Count(<<e>>, b) /\ Count(<<e>>, b) \in Nat
      <4> DEFINE one == 1
      <4>1. T \subseteq {one} /\ (one \in T <=> e = b)
        BY <3>3 DEF e
      <4> HIDE DEF one
      <4> QED
        BY <4>1, OneCarrier
    <3>6. Cardinality(M) = 0
      BY <1>2, <2>1
    <3> QED
      BY <1>1, <3>4, <3>5, <3>6 DEF e
  <2>3. CASE ~(toIpa # << >> /\ toIpa[1].type = "signalIspPrepare")
    <3>1. T = {}
      BY <2>3, Carriers
    <3>2. Sending(toIpa, messages) = << >>
      BY <1>4, <2>3 DEF Sending
    <3> HIDE DEF T, M
    <3> QED
      BY <1>1, <1>2, <2>1, <3>1, <3>2, CountNone
  <2> QED
    BY <2>2, <2>3
<1> QED
  BY <1>3, <1>4

\* And of the embedded data.
LEMMA CountReading ==
    ASSUME PipelineInv, NEW b
    PROVE  AtIpa("embedded", "embeddedComplete", b) = Count(Reading(toIpa, messages), b)
<1> DEFINE T == {i \in DOMAIN toIpa : /\ toIpa[i].type = "signalIspPrepare"
                                      /\ toIpa[i]["embedded"] # Null
                                      /\ toIpa[i]["embedded"].buf = b}
           M == {i \in DOMAIN messages : messages[i].type = "embeddedComplete"
                                           /\ messages[i]["embedded"].buf = b}
<1>1. AtIpa("embedded", "embeddedComplete", b) = Cardinality(T) + Cardinality(M)
  BY DEF AtIpa
<1>2. Cardinality({}) = 0 /\ \A x : Cardinality({x}) = 1
  BY FS_EmptySet, FS_Singleton
<1>3. CASE EmbeddedFirst(messages)
  <2>1. 1 \in DOMAIN messages /\ messages[1].type = "embeddedComplete"
    BY <1>3, Carriers DEF EmbeddedFirst
  <2>2. T = {}
    BY <2>1, Carriers
  <2>3. M \subseteq {1} /\ (1 \in M <=> messages[1].embedded.buf = b)
    BY <2>1, Carriers
  <2>4. Reading(toIpa, messages) = <<messages[1].embedded.buf>>
    BY <1>3 DEF Reading
  <2> DEFINE e == messages[1].embedded.buf
  <2> HIDE DEF T, M, e
  <2>5. Cardinality(M) = Count(<<e>>, b) /\ Count(<<e>>, b) \in Nat
    <3> DEFINE one == 1
    <3>1. M \subseteq {one} /\ (one \in M <=> e = b)
      BY <2>3 DEF e
    <3> HIDE DEF one
    <3> QED
      BY <3>1, OneCarrier
  <2>6. Cardinality(T) = 0
    BY <1>2, <2>2
  <2> QED
    BY <1>1, <2>4, <2>5, <2>6 DEF e
<1>4. CASE ~EmbeddedFirst(messages)
  <2>1. M = {}
    <3>1. messages = << >> => DOMAIN messages = {}
      OBVIOUS
    <3> QED
      BY <1>4, <3>1, Carriers DEF EmbeddedFirst
  <2>2. CASE toIpa # << >> /\ toIpa[1].type = "signalIspPrepare"
             /\ toIpa[1].embedded # Null
    <3>1. 1 \in DOMAIN toIpa /\ \A i \in DOMAIN toIpa : i = 1
      BY <2>2, Carriers
    <3>2. T \subseteq {1} /\ (1 \in T <=> toIpa[1].embedded.buf = b)
      BY <2>2, <3>1
    <3>3. Reading(toIpa, messages) = <<toIpa[1].embedded.buf>>
      BY <1>4, <2>2 DEF Reading
    <3> DEFINE e == toIpa[1].embedded.buf
    <3> HIDE DEF T, M, e
    <3>4. Cardinality(T) = Count(<<e>>, b) /\ Count(<<e>>, b) \in Nat
      <4> DEFINE one == 1
      <4>1. T \subseteq {one} /\ (one \in T <=> e = b)
        BY <3>2 DEF e
      <4> HIDE DEF one
      <4> QED
        BY <4>1, OneCarrier
    <3>5. Cardinality(M) = 0
      BY <1>2, <2>1
    <3> QED
      BY <1>1, <3>3, <3>4, <3>5 DEF e
  <2>3. CASE ~(toIpa # << >> /\ toIpa[1].type = "signalIspPrepare"
               /\ toIpa[1].embedded # Null)
    <3>1. T = {}
      <4>1. toIpa = << >> => DOMAIN toIpa = {}
        OBVIOUS
      <4> QED
        BY <2>3, <4>1, Carriers
    <3>2. Reading(toIpa, messages) = << >>
      BY <1>4, <2>3 DEF Reading
    <3> HIDE DEF T, M
    <3> QED
      BY <1>1, <1>2, <2>1, <3>1, <3>2, CountNone
  <2> QED
    BY <2>2, <2>3
<1> QED
  BY <1>3, <1>4

\* Every place a buffer may be is the pool, or in the chain.
LEMMA PlacesChain ==
    ASSUME PipelineInv, NEW s \in External, NEW b
    PROVE  Places(s, b) = Count(stream[s].available, b)
                            + Count(Chain(stream, AheadNow, s), b)
<1> DEFINE st == stream[s]
           h == AheadNow[s]
           av == st.available
           w == st.waiting
           dv == st.device
           other == CASE s = "Image" ->
                           CountBuf(data.bayerQueue, b) + AtIpa("bayer", "runIsp", b)
                           + (IF "Input" \in finished THEN CountBuf(Tail(jobs), b)
                                                      ELSE CountBuf(jobs, b))
                           + CountBuf(done["Input"], b)
                      [] s = "Embedded" ->
                           CountBuf(data.embeddedQueue, b)
                           + AtIpa("embedded", "embeddedComplete", b)
                      [] OTHER -> 0
<1>1. /\ data \in DataType /\ toIpa \in Seq(IpaMessages)
      /\ messages \in Seq(HandlerMessages) /\ jobs \in Seq(Frames)
      /\ (jobs = << >> => "Input" \notin finished) /\ done \in [Streams -> Seq(Frames)]
      /\ data.bayerQueue \in Seq(Frames) /\ data.embeddedQueue \in Seq(Frames)
  BY ContextNow DEF Context, DataType
<1>2. /\ \A z \in Streams : Bufs(done[z]) \in Seq(Slots) /\ done[z] \in Seq(Frames)
      /\ Unread(jobs, finished) \in Seq(Frames)
      /\ Bufs(Unread(jobs, finished)) \in Seq(Slots)
      /\ Sending(toIpa, messages) \in Seq(Slots) /\ Reading(toIpa, messages) \in Seq(Slots)
      /\ Bufs(data.bayerQueue) \in Seq(Slots) /\ Bufs(data.embeddedQueue) \in Seq(Slots)
  BY <1>1, PartTypes
<1>3. s \in Streams /\ "Input" \in Streams
  BY DEF External, Streams, IspStreams, IspOutputs
<1>4. /\ st \in StreamType /\ h \in Seq(Slots)
  BY AheadNowType
<1>5. av \in Seq(Buffers) /\ w \in Seq(Slots) /\ dv \in Seq(Slots)
  BY <1>4, FeedType DEF StreamType
<1>6. Count(Chain(stream, AheadNow, s), b) = Count(h, b) + Count(dv, b) + Count(w, b)
  <2> HIDE DEF h, w, dv
  <2>1. Chain(stream, AheadNow, s) = Parts3(h, dv, w)
    BY DEF Chain, Feed, Parts3, h, dv, w
  <2>2. Count(Parts3(h, dv, w), b) = Count(h, b) + Count(dv, b) + Count(w, b)
    BY <1>4, <1>5, CountParts3
  <2> QED
    BY <2>1, <2>2
<1>7. Places(s, b) = Count(av, b) + Count(w, b) + Count(dv, b)
                       + CountBuf(done[s], b) + other
  BY DEF Places
<1>8. CountBuf(done[s], b) = Count(Bufs(done[s]), b) /\ CountBuf(done[s], b) \in Nat
  <2>1. CountBuf(done[s], b) = Count(Bufs(done[s]), b)
    BY <1>2, <1>3, CountBufs
  <2>2. Count(Bufs(done[s]), b) \in Nat
    BY <1>2, <1>3, Counted
  <2> QED
    BY <2>1, <2>2
<1>9. Count(h, b) = CountBuf(done[s], b) + other /\ other \in Nat
  <2>1. CASE s = "Image"
    <3> DEFINE a == Bufs(done["Input"])
               c == Bufs(Unread(jobs, finished))
               k == Sending(toIpa, messages)
               p == Bufs(data.bayerQueue)
               q == Bufs(done["Image"])
    <3>1. h = Parts5(a, c, k, p, q)
      BY <2>1, AheadParts DEF AheadNow
    <3>2. /\ a \in Seq(Slots) /\ c \in Seq(Slots) /\ k \in Seq(Slots)
          /\ p \in Seq(Slots) /\ q \in Seq(Slots)
      BY <1>2, <1>3, <2>1
    <3>3. /\ CountBuf(data.bayerQueue, b) = Count(p, b)
          /\ AtIpa("bayer", "runIsp", b) = Count(k, b)
          /\ CountBuf(done["Input"], b) = Count(a, b)
          /\ CountBuf(Unread(jobs, finished), b) = Count(c, b)
      BY <1>1, <1>2, <1>3, CountBufs, CountSending
    <3>4. other = CountBuf(data.bayerQueue, b) + AtIpa("bayer", "runIsp", b)
                    + CountBuf(Unread(jobs, finished), b) + CountBuf(done["Input"], b)
      BY <2>1 DEF Unread
    <3> HIDE DEF a, c, k, p, q, h, other
    <3>5. /\ Count(a, b) \in Nat /\ Count(c, b) \in Nat /\ Count(k, b) \in Nat
          /\ Count(p, b) \in Nat /\ Count(q, b) \in Nat
      BY <3>2, Counted
    <3>6. Count(h, b) = Count(a, b) + Count(c, b) + Count(k, b) + Count(p, b)
                          + Count(q, b)
      BY <3>1, <3>2, CountParts5
    <3>7. CountBuf(done[s], b) = Count(q, b)
      BY <1>8, <2>1 DEF q
    <3> QED
      BY <3>3, <3>4, <3>5, <3>6, <3>7
  <2>2. CASE s = "Embedded"
    <3> DEFINE a == Reading(toIpa, messages)
               p == Bufs(data.embeddedQueue)
               q == Bufs(done["Embedded"])
    <3>1. h = Parts3(a, p, q)
      BY <2>2, AheadParts DEF AheadNow
    <3>2. a \in Seq(Slots) /\ p \in Seq(Slots) /\ q \in Seq(Slots)
      BY <1>2, <1>3, <2>2
    <3>3. /\ CountBuf(data.embeddedQueue, b) = Count(p, b)
          /\ AtIpa("embedded", "embeddedComplete", b) = Count(a, b)
      BY <1>1, CountBufs, CountReading
    <3>4. other = CountBuf(data.embeddedQueue, b)
                    + AtIpa("embedded", "embeddedComplete", b)
      BY <2>2
    <3> HIDE DEF a, p, q, h, other
    <3>5. Count(a, b) \in Nat /\ Count(p, b) \in Nat /\ Count(q, b) \in Nat
      BY <3>2, Counted
    <3>6. Count(h, b) = Count(a, b) + Count(p, b) + Count(q, b)
      BY <3>1, <3>2, CountParts3
    <3>7. CountBuf(done[s], b) = Count(q, b)
      BY <1>8, <2>2 DEF q
    <3> QED
      BY <3>3, <3>4, <3>5, <3>6, <3>7
  <2>3. CASE s = "Output0"
    <3>1. h = Bufs(done["Output0"])
      BY <2>3, AheadParts DEF AheadNow
    <3>2. other = 0
      BY <2>3
    <3> HIDE DEF h, other
    <3> QED
      BY <1>8, <2>3, <3>1, <3>2
  <2> QED
    BY <2>1, <2>2, <2>3 DEF External
<1>10. /\ Count(av, b) \in Nat /\ Count(w, b) \in Nat /\ Count(dv, b) \in Nat
  BY <1>5, Counted
<1> HIDE DEF av, w, dv, h, other, st
<1>11. Places(s, b) = Count(av, b) + Count(Chain(stream, AheadNow, s), b)
  BY <1>6, <1>7, <1>8, <1>9, <1>10
<1> QED
  BY <1>11 DEF av, st

\* A chain has the buffer of a request that waits once, unless it is the first
\* and its frame has had it.
LEMMA OnceInOrder ==
    ASSUME NEW drop \in Nat, NEW queue \in Seq(Requests),
           \A i, j \in DOMAIN queue : queue[i] = queue[j] => i = j,
           NEW k \in {0, 1}, NEW c \in Seq(Slots), InOrder(drop, queue, k, c),
           NEW n \in DOMAIN queue
    PROVE  Count(c, queue[n]) = IF k = 1 /\ drop = 0 /\ n = 1 THEN 0 ELSE 1
<1> DEFINE r == queue[n]
           at == n + drop - k
           A == {i \in DOMAIN c : c[i] = r}
<1>1. /\ Len(c) \in Nat /\ Len(queue) \in Nat /\ DOMAIN c = 1 .. Len(c)
      /\ n \in 1 .. Len(queue) /\ r \in Requests /\ DOMAIN queue = 1 .. Len(queue)
  OBVIOUS
<1>2. r \notin {Internal, Null}
  BY <1>1, RPiAssumption DEF RPiAssumption
<1>3. /\ Len(c) + k = drop + Len(queue)
      /\ \A i \in 1 .. Len(c) :
           IF i + k <= drop THEN c[i] \in {Internal, Null}
                            ELSE c[i] = queue[i + k - drop]
  BY DEF InOrder
<1>4. ASSUME NEW i \in 1 .. Len(c) PROVE c[i] = r <=> i = at
  <2>1. CASE i + k <= drop
    <3>1. c[i] # r
      BY <1>2, <1>3, <2>1
    <3>2. i # at
      BY <1>1, <2>1
    <3> QED
      BY <3>1, <3>2
  <2>2. CASE ~(i + k <= drop)
    <3> DEFINE m == i + k - drop
    <3>1. m \in 1 .. Len(queue) /\ c[i] = queue[m] /\ (m = n <=> i = at)
      <4>1. c[i] = queue[m]
        BY <1>3, <2>2
      <4> DEFINE u == Len(c)
                 v == Len(queue)
      <4>2. /\ u \in Nat /\ v \in Nat /\ u + k = drop + v /\ i \in 1 .. u
            /\ n \in 1 .. v
        BY <1>1, <1>3
      <4> HIDE DEF u, v
      <4>3. m \in 1 .. v
        BY <2>2, <4>2
      <4>4. m = n <=> i = at
        BY <2>2, <4>2
      <4> QED
        BY <4>1, <4>3, <4>4 DEF v
    <3> HIDE DEF m, at
    <3>2. queue[m] = queue[n] <=> m = n
      BY <1>1, <3>1
    <3> QED
      BY <3>1, <3>2
  <2> QED
    BY <2>1, <2>2
<1>5. at \in 1 .. Len(c) <=> ~(k = 1 /\ drop = 0 /\ n = 1)
  BY <1>1, <1>3
<1> HIDE DEF r, at
<1>6. A = IF k = 1 /\ drop = 0 /\ n = 1 THEN {} ELSE {at}
  BY <1>1, <1>4, <1>5
<1>7. Cardinality({}) = 0 /\ Cardinality({at}) = 1
  BY FS_EmptySet, FS_Singleton
<1>8. Count(c, r) = Cardinality(A)
  BY DEF Count
<1> HIDE DEF A
<1> QED
  BY <1>6, <1>7, <1>8 DEF r

\* A request's buffer is in its chain while the request waits for it.
LEMMA AwaitedOnce ==
    ASSUME PipelineInv, FramesInv, PoolInv, data.state # "Stopped",
           NEW s \in Requested, NEW n \in DOMAIN data.requestQueue
    PROVE  Count(Chain(stream, AheadNow, s), data.requestQueue[n])
             = IF s \in request[data.requestQueue[n]].pending THEN 1 ELSE 0
<1> DEFINE queue == data.requestQueue
           drop == data.dropFrameCount
           k == Had(data, OwedNow, s)
           c == Chain(stream, AheadNow, s)
           r == queue[n]
<1>1. /\ queue \in Seq(Requests) /\ drop \in Nat /\ k \in {0, 1}
      /\ posted \in Seq(Requests) /\ (Working(data) => queue # << >>)
  BY ContextNow DEF Context, DataType, Had
<1>2. s \in External
  BY DEF Requested, External
<1>3. c \in Seq(Slots) /\ InOrder(drop, queue, k, c) /\ Awaited(data, request, OwedNow)
  BY <1>2, AheadNowType, KeptNow
<1>4. /\ \A i, j \in DOMAIN queue : queue[i] = queue[j] => i = j
      /\ \A i \in DOMAIN queue : \/ i = 1 /\ Working(data) /\ drop = 0
                                 \/ request[queue[i]].pending = Requested
  <2> DEFINE line == queue \o posted
  <2>1. /\ line \in Seq(Requests) /\ \A i \in DOMAIN queue : i \in DOMAIN line
        /\ \A i \in DOMAIN queue : line[i] = queue[i]
    <3>1. /\ line \in Seq(Requests) /\ Len(queue) \in Nat /\ Len(posted) \in Nat
          /\ DOMAIN line = 1 .. Len(queue) + Len(posted)
          /\ \A i \in 1 .. Len(queue) : line[i] = queue[i]
      BY <1>1, Joined
    <3>2. DOMAIN queue = 1 .. Len(queue)
      BY <1>1
    <3> HIDE DEF line, queue
    <3> QED
      BY <3>1, <3>2
  <2>2. Waiting(data, request, line)
    BY FramesParts DEF Line
  <2> HIDE DEF line, queue
  <2>3. /\ \A i, j \in DOMAIN line : line[i] = line[j] => i = j
        /\ \A i \in DOMAIN line : \/ i = 1 /\ Working(data) /\ drop = 0
                                  \/ request[line[i]].pending = Requested
    BY <2>2 DEF Waiting
  <2> QED
    BY <2>1, <2>3
<1>5. Count(c, r) = IF k = 1 /\ drop = 0 /\ n = 1 THEN 0 ELSE 1
  <2> HIDE DEF c, queue, drop, k
  <2> QED
    BY <1>1, <1>3, <1>4, OnceInOrder DEF queue
<1>6. Head(queue) = queue[1]
  OBVIOUS
<1>7. CASE k = 1 /\ drop = 0 /\ n = 1
  <2>1. Working(data) /\ OwedNow[IspOf(s)] = 0
    BY <1>7 DEF Had
  <2>2. s \notin request[r].pending
    BY <1>3, <1>6, <1>7, <2>1 DEF Awaited
  <2> QED
    BY <1>5, <1>7, <2>2
<1>8. CASE ~(k = 1 /\ drop = 0 /\ n = 1)
  <2>1. s \in request[r].pending
    <3>1. CASE n = 1 /\ Working(data) /\ drop = 0
      <4>1. OwedNow[IspOf(s)] # 0
        BY <1>8, <3>1 DEF Had
      <4>2. FirstHas(data, request, OwedNow, ipaFrame)
        BY FramesParts
      <4> QED
        BY <1>6, <3>1, <4>1, <4>2 DEF FirstHas
    <3>2. CASE request[r].pending = Requested
      BY <3>2
    <3> QED
      BY <1>4, <3>1, <3>2
  <2> QED
    BY <1>5, <1>8, <2>1
<1> QED
  BY <1>7, <1>8

\* Every buffer of an external stream is in one place, that of a request exactly
\* while the request waits for it, and none of those in the pool from which
\* frames are dropped.
THEOREM BufferSafety == Spec => []BuffersConserved
<1>1. ASSUME PipelineInv, FramesInv, PoolInv, data.state # "Stopped",
             NEW s \in External
      PROVE  /\ Places(s, Internal) = BufferCount
             /\ \A r \in Requests :
                  /\ Count(stream[s].available, r) = 0
                  /\ r \in {data.requestQueue[i] : i \in DOMAIN data.requestQueue} =>
                       Places(s, r) = (IF s \in request[r].pending THEN 1 ELSE 0)
  <2> DEFINE av == stream[s].available
             c == Chain(stream, AheadNow, s)
  <2>1. /\ Pooled(av, c) /\ (s = "Embedded" => OwnOnly(c)) /\ c \in Seq(Slots)
        /\ stream[s] \in StreamType
    BY <1>1, KeptNow, AheadNowType
  <2>2. av \in Seq(Buffers)
    BY <2>1 DEF StreamType
  <2>3. \A b : Places(s, b) = Count(av, b) + Count(c, b)
    BY <1>1, PlacesChain
  <2>4. /\ \A i \in DOMAIN av : av[i] = Internal
        /\ Len(av) + Count(c, Internal) = BufferCount
    BY <2>1 DEF Pooled
  <2>5. \A r \in Requests : r # Internal /\ r # Null
    BY RPiAssumption DEF RPiAssumption
  <2>6. Places(s, Internal) = BufferCount
    <3>1. Count(av, Internal) = Len(av)
      <4> HIDE DEF av
      <4> QED
        BY <2>2, <2>4, Counted
    <3> QED
      BY <2>3, <2>4, <3>1
  <2>7. \A r \in Requests : Count(av, r) = 0
    <3> HIDE DEF av
    <3> QED
      BY <2>2, <2>4, <2>5, Counted
  <2>8. ASSUME NEW n \in DOMAIN data.requestQueue
        PROVE  Places(s, data.requestQueue[n])
                 = IF s \in request[data.requestQueue[n]].pending THEN 1 ELSE 0
    <3> DEFINE r == data.requestQueue[n]
    <3>1. r \in Requests /\ request[r].pending \subseteq Requested
      <4>1. data.requestQueue \in Seq(Requests) /\ request \in [Requests -> RequestType]
        BY <1>1, Before DEF DataType
      <4>2. r \in Requests
        BY <4>1
      <4> HIDE DEF r
      <4>3. request[r] \in RequestType
        BY <4>1, <4>2
      <4> QED
        BY <4>2, <4>3 DEF RequestType
    <3>2. Count(c, r) = IF s \in request[r].pending THEN 1 ELSE 0
      <4>1. CASE s \in Requested
        BY <1>1, <4>1, AwaitedOnce
      <4>2. CASE s = "Embedded"
        <5>1. s \notin request[r].pending
          BY <3>1, <4>2 DEF Requested
        <5> HIDE DEF r, c
        <5>2. \A i \in DOMAIN c : c[i] # r
          <6>1. DOMAIN c = 1 .. Len(c)
            BY <2>1
          <6> QED
            BY <2>1, <2>5, <3>1, <4>2, <6>1 DEF OwnOnly
        <5>3. Count(c, r) = 0
          BY <2>1, <5>2, Counted
        <5> QED
          BY <5>1, <5>3
      <4> QED
        BY <4>1, <4>2 DEF External, Requested
    <3> HIDE DEF r, c, av
    <3>3. Places(s, r) = 0 + Count(c, r) /\ Count(c, r) \in Nat
      BY <2>1, <2>3, <2>7, <3>1, Counted
    <3>4. Places(s, r) = IF s \in request[r].pending THEN 1 ELSE 0
      BY <3>2, <3>3
    <3> QED
      BY <3>4 DEF r
  <2> QED
    BY <2>6, <2>7, <2>8
<1>2. PipelineInv /\ FramesInv /\ PoolInv /\ InputFits => BuffersConserved
  BY <1>1 DEF BuffersConserved
<1> QED
  BY <1>2, PoolInvariance, InputSafety, PTL
=============================================================================
