--------------------------- MODULE DispatchProofs ---------------------------
(* libcamera's threads and messages, for any number of calls and events: no   *)
(* wake-up is lost, stop() of the proxy is synchronous, and a camera is       *)
(* deleted before its thread ends.                                            *)
EXTENDS Dispatch, SequenceTheorems, TLAPS

Msgs == [id : Nat \ {0}, kind : Kinds]
FrameTypes == {None, "InvokeMessage", "DeferredDelete"}
Frames == [type : FrameTypes, iter : Nat]
PlacesOfA == {"closed", "stopped", "starting", "running", "stopping", "closing"}
PlacesOfP == {"off", "exec", "dispatch", "poll", "begun", "quitting", "waiting",
              "cleanup", "deleting"}
PlacesOfI == {"off", "exec", "dispatch", "poll"}

Typed ==
    /\ TypeOK
    /\ pc \in [Callers -> PlacesOfA \cup PlacesOfP]
    /\ frames \in [Loops -> Seq(Frames)]

-----------------------------------------------------------------------------
(* The messages of a list.                                                  *)

KindsIn(lst) == {lst[i].kind : i \in 1 .. Len(lst)}
Ascending(lst) == \A i, j \in 1 .. Len(lst) : i < j => lst[i].id < lst[j].id
Below(lst, n) == \A i \in 1 .. Len(lst) : lst[i].id < n
Once(lst, kind) ==
    \A i, j \in 1 .. Len(lst) : lst[i].kind = kind /\ lst[j].kind = kind => i = j

\* A blocking call of the IPA is the last message of its list.
Blocking == {"begin", "quit"}
BlockingLast(lst) == \A i \in 1 .. Len(lst) : lst[i].kind \in Blocking => i = Len(lst)

-----------------------------------------------------------------------------
(* The invariant.                                                           *)

InDispatch(t) == pc[t] \in {"dispatch", "begun", "quitting", "waiting"}
Outer(t) == frames[t][1]
Inner(t) == frames[t][2]
Nested == Len(frames["P"]) = 2
Deleting == Len(frames["P"]) = 1 /\ Outer("P").type = "DeferredDelete"
Halting == pc["P"] \in {"quitting", "waiting"} \/ Nested

\* The dispatchMessages of a loop: none outside it, one inside, and another one
\* in P while it stops the proxy.
Placed(t) ==
    /\ ~InDispatch(t) => Len(frames[t]) = 0 /\ cur[t] = None
    /\ InDispatch(t) => Len(frames[t]) \in {1, 2}
    /\ pc[t] \notin {"off", "exec"} => made[t]

FramesPlaced ==
    /\ Placed("P") /\ Placed("I")
    /\ Len(frames["I"]) # 2
    /\ InDispatch("I") => Outer("I").type = None
    /\ Len(frames["P"]) = 1 => Outer("P").type \in {None, "DeferredDelete"}
    /\ Nested => /\ pc["P"] = "dispatch" /\ Outer("P").type = None
                 /\ Inner("P").type = "InvokeMessage"
    /\ Deleting => pc["P"] = "dispatch"

\* Messages are numbered in the order they are posted, and a dispatchMessages
\* that is not over is at the first one.
ListsOrdered ==
    \A t \in Loops : Ascending(list[t]) /\ Below(list[t], nextId)

AtFirst(t) ==
    /\ InDispatch(t) => Outer(t).iter \in {Begin(list[t]), End}
    /\ Len(frames[t]) = 2 => Inner(t).iter \in {Begin(list[t]), End}

ItersFirst == fault = None => AtFirst("P") /\ AtFirst("I")

\* What came after the end of the dispatching, or exit(), is signalled already.
Signalled(t) == wake[t] \/ \E c \in Callers : owes[c] = t

Awake(t) ==
    /\ pc[t] = "poll" /\ (list[t] # << >> \/ exit[t]) => Signalled(t)
    /\ InDispatch(t) /\ Outer(t).type = None =>
         /\ exit[t] => Signalled(t)
         /\ Outer(t).iter = End => list[t] = << >> \/ Signalled(t)

Waking == Awake("P") /\ Awake("I")

\* The camera's deletion is posted before the last dispatchMessages.
Deletes ==
    /\ Deleting /\ Outer("P").iter = End => "delete" \notin KindsIn(list["P"])
    /\ pc["P"] = "off" => "delete" \notin KindsIn(list["P"])

\* A blocking call of the application: one start or stop at a time.
Protocol ==
    /\ pc["A"] \in {"closed", "stopped", "closing"} => proxy = "Stopped" /\ ~sem["A"]
    /\ pc["A"] = "running" => ~sem["A"]
    /\ sem["A"] => pc["A"] = "starting" \/ (pc["A"] = "stopping" /\ proxy = "Stopped")
    /\ "start" \in KindsIn(list["P"]) =>
         pc["A"] = "starting" /\ ~sem["A"] /\ proxy = "Stopped" /\ cur["P"] # "start"
    /\ cur["P"] = "start" =>
         pc["A"] = "starting" /\ ~sem["A"] /\ (pc["P"] = "dispatch" => proxy = "Stopped")
    /\ "stop" \in KindsIn(list["P"]) =>
         pc["A"] = "stopping" /\ ~sem["A"] /\ cur["P"] # "stop" /\ ~Halting
    /\ cur["P"] = "stop" => pc["A"] = "stopping" /\ ~sem["A"] /\ ~Nested
    /\ Once(list["P"], "start") /\ Once(list["P"], "stop")
    /\ Halting => pc["A"] = "stopping" /\ ~sem["A"] /\ proxy = "Stopping"
    /\ pc["P"] = "begun" => cur["P"] = "start" /\ proxy = "Running"
    /\ pc["P"] \in {"quitting", "waiting"} => cur["P"] = "stop"
    /\ exit["P"] => pc["A"] \in {"closing", "closed"}
    /\ pc["P"] \in {"cleanup", "deleting", "off"} \/ Deleting =>
         pc["A"] \in {"closing", "closed"}
    /\ pc["A"] = "closed" => pc["P"] = "off"

\* A blocking call of the proxy: it is the last message of the IPA's thread, so
\* that thread has nothing left once it is told to exit.
IpaCalls ==
    /\ sem["P"] => pc["P"] \in {"begun", "quitting"}
    /\ sem["P"] \/ pc["P"] = "waiting" => list["I"] = << >> /\ cur["I"] = None
    /\ BlockingLast(list["I"])
    /\ "begin" \in KindsIn(list["I"]) \/ "quit" \in KindsIn(list["I"]) =>
         pc["P"] \in {"begun", "quitting"} /\ ~sem["P"]
    /\ cur["I"] = "begin" \/ cur["I"] = "quit" =>
         list["I"] = << >> /\ pc["P"] \in {"begun", "quitting"} /\ ~sem["P"]
    /\ exit["I"] /\ pc["I"] # "off" => pc["P"] = "waiting"
    /\ Nested => pc["I"] = "off" /\ list["I"] = << >>

\* Its signals are delivered before stop() returns.
Signals ==
    /\ proxy = "Stopped" => pc["I"] = "off" /\ list["I"] = << >>
    /\ "signal" \in KindsIn(list["P"]) \/ cur["P"] = "signal" => proxy # "Stopped"
    /\ Nested /\ Inner("P").iter = End => "signal" \notin KindsIn(list["P"])
    /\ fault # "assertion"

DispatchInv ==
    /\ Typed /\ FramesPlaced /\ ListsOrdered /\ ItersFirst
    /\ Waking /\ Deletes /\ Protocol /\ IpaCalls /\ Signals

-----------------------------------------------------------------------------
(* What posting, taking and dispatching do to the lists and frames.         *)

LEMMA MsgsOfList ==
    ASSUME NEW lst \in Seq(Msgs)
    PROVE  /\ Len(lst) \in Nat
           /\ \A i \in 1 .. Len(lst) : /\ lst[i] \in Msgs
                                      /\ lst[i].id \in Nat \ {0}
                                      /\ lst[i].kind \in Kinds
  <1>1. \A i \in 1 .. Len(lst) : lst[i] \in Msgs
    OBVIOUS
  <1>2. \A m \in Msgs : m.id \in Nat \ {0} /\ m.kind \in Kinds
    BY DEF Msgs
  <1> QED BY <1>1, <1>2

\* A posted message is the last one of its list.
LEMMA Posted ==
    ASSUME NEW lst \in Seq(Msgs), NEW n \in Nat \ {0}, NEW kind \in Kinds,
           Ascending(lst), Below(lst, n)
    PROVE  LET new == Append(lst, [id |-> n, kind |-> kind])
           IN /\ new \in Seq(Msgs)
              /\ new # << >>
              /\ KindsIn(new) = KindsIn(lst) \cup {kind}
              /\ Ascending(new)
              /\ Below(new, n + 1)
              /\ Begin(lst) # End => Begin(new) = Begin(lst)
              /\ \A k : Once(lst, k) /\ (k # kind \/ k \notin KindsIn(lst)) => Once(new, k)
              /\ "begin" \notin KindsIn(lst) /\ "quit" \notin KindsIn(lst) =>
                   BlockingLast(new)
  <1> DEFINE new == Append(lst, [id |-> n, kind |-> kind])
  <1>1. [id |-> n, kind |-> kind] \in Msgs
    BY DEF Msgs
  <1>2. /\ new \in Seq(Msgs) /\ new # << >> /\ Len(new) = Len(lst) + 1
        /\ Len(lst) \in Nat
        /\ \A i \in 1 .. Len(lst) : new[i] = lst[i] /\ lst[i].id \in Nat
        /\ new[Len(lst) + 1].id = n /\ new[Len(lst) + 1].kind = kind
    <2>1. /\ new \in Seq(Msgs) /\ Len(new) = Len(lst) + 1
          /\ \A i \in 1 .. Len(lst) : new[i] = lst[i]
          /\ new[Len(lst) + 1] = [id |-> n, kind |-> kind]
      BY <1>1
    <2> HIDE DEF new
    <2>2. new # << >>
      BY <2>1, MsgsOfList
    <2> QED BY <2>1, <2>2, MsgsOfList
  <1> HIDE DEF new
  <1>3. KindsIn(new) = KindsIn(lst) \cup {kind}
    <2>1. ASSUME NEW k \in KindsIn(new)  PROVE k \in KindsIn(lst) \cup {kind}
      <3>1. PICK i \in 1 .. Len(new) : k = new[i].kind
        BY <2>1 DEF KindsIn
      <3>2. i \in 1 .. Len(lst) \/ i = Len(lst) + 1
        BY <1>2
      <3> QED BY <1>2, <3>1, <3>2 DEF KindsIn
    <2>2. kind \in KindsIn(new)
      <3>1. Len(lst) + 1 \in 1 .. Len(new)
        BY <1>2
      <3> QED BY <1>2, <3>1 DEF KindsIn
    <2>3. ASSUME NEW k \in KindsIn(lst)  PROVE k \in KindsIn(new)
      <3>1. PICK i \in 1 .. Len(lst) : k = lst[i].kind
        BY <2>3 DEF KindsIn
      <3>2. i \in 1 .. Len(new)
        BY <1>2
      <3> QED BY <1>2, <3>1, <3>2 DEF KindsIn
    <2> QED BY <2>1, <2>2, <2>3
  <1>4. Ascending(new) /\ Below(new, n + 1)
    <2>1. \A i \in 1 .. Len(new) : i \in 1 .. Len(lst) \/ i = Len(lst) + 1
      BY <1>2
    <2>2. \A i \in 1 .. Len(lst) : i < Len(lst) + 1 /\ new[i].id \in Nat /\ new[i].id < n
      BY <1>2 DEF Below
    <2>3. ASSUME NEW i \in 1 .. Len(new), NEW j \in 1 .. Len(new), i < j
          PROVE  new[i].id < new[j].id
      <3>1. i \in 1 .. Len(lst)
        BY <1>2, <2>3
      <3>2. CASE j \in 1 .. Len(lst)
        BY <1>2, <2>3, <3>1, <3>2 DEF Ascending
      <3> QED BY <1>2, <2>1, <2>2, <3>1, <3>2
    <2>4. \A i \in 1 .. Len(new) : new[i].id < n + 1
      <3>1. \A a \in Nat : a < n => a < n + 1
        OBVIOUS
      <3>2. n < n + 1
        OBVIOUS
      <3> QED BY <1>2, <2>1, <2>2, <3>1, <3>2
    <2> QED BY <2>3, <2>4 DEF Ascending, Below
  <1>5. Begin(lst) # End => Begin(new) = Begin(lst)
    <2>1. ASSUME lst # << >>  PROVE Begin(new) = Begin(lst)
      <3>1. 1 \in 1 .. Len(lst)
        BY <2>1
      <3>2. new[1] = lst[1]
        BY <1>2, <3>1
      <3> QED BY <1>2, <2>1, <3>2 DEF Begin
    <2> QED BY <2>1 DEF Begin
  <1>6. ASSUME NEW k, Once(lst, k), k # kind \/ k \notin KindsIn(lst)
        PROVE  Once(new, k)
    <2>1. ASSUME k \notin KindsIn(lst)
          PROVE  \A i \in 1 .. Len(lst) : lst[i].kind # k
      BY <2>1 DEF KindsIn
    <2>2. CASE k # kind
      BY <1>2, <1>6, <2>2 DEF Once
    <2>3. CASE k \notin KindsIn(lst)
      BY <1>2, <2>1, <2>3 DEF Once
    <2> QED BY <1>6, <2>2, <2>3
  <1>7. ASSUME "begin" \notin KindsIn(lst), "quit" \notin KindsIn(lst)
        PROVE  BlockingLast(new)
    <2>1. \A i \in 1 .. Len(lst) : lst[i].kind \notin Blocking
      BY <1>7 DEF KindsIn, Blocking
    <2> QED BY <1>2, <2>1 DEF BlockingLast
  <1> QED BY <1>2, <1>3, <1>4, <1>5, <1>6, <1>7 DEF new

\* The message a dispatchMessages is at is the first one of the list.
LEMMA Taken ==
    ASSUME NEW lst \in Seq(Msgs), NEW n \in Nat, NEW id \in {Begin(lst), End},
           id # End, Ascending(lst), Below(lst, n)
    PROVE  LET m == lst[Position(lst, id)]
               rest == Erase(lst, id)
           IN /\ m \in Msgs
              /\ rest \in Seq(Msgs)
              /\ After(lst, id) = Begin(rest)
              /\ KindsIn(lst) = KindsIn(rest) \cup {m.kind}
              /\ Ascending(rest) /\ Below(rest, n)
              /\ Begin(rest) \in Nat
              /\ \A k : Once(lst, k) => Once(rest, k)
              /\ Once(lst, m.kind) => m.kind \notin KindsIn(rest)
              /\ BlockingLast(lst) => BlockingLast(rest)
              /\ BlockingLast(lst) /\ m.kind \in Blocking => rest = << >>
  <1> DEFINE rest == Erase(lst, id)
  <1>1. lst # << >> /\ id = lst[1].id /\ Len(lst) \in Nat /\ 1 \in 1 .. Len(lst)
    BY DEF Begin
  <1>2. Position(lst, id) = 1
    <2>1. \A i \in 1 .. Len(lst) : lst[i].id \in Nat
      BY MsgsOfList
    <2>2. \A i \in 1 .. Len(lst) : lst[i].id = id <=> i = 1
      BY <1>1, <2>1 DEF Ascending
    <2>3. DOMAIN lst = 1 .. Len(lst)
      OBVIOUS
    <2> QED BY <1>1, <2>2, <2>3 DEF Position
  <1>3. /\ rest \in Seq(Msgs) /\ Len(rest) = Len(lst) - 1
        /\ \A i \in 1 .. Len(rest) : rest[i] = lst[i + 1]
    <2>1. rest = SubSeq(lst, 1, 0) \o SubSeq(lst, 2, Len(lst))
      BY <1>2 DEF Erase
    <2> DEFINE none == SubSeq(lst, 1, 0)
    <2> DEFINE tail == SubSeq(lst, 2, Len(lst))
    <2>2. none \in Seq(Msgs) /\ Len(none) = 0
      BY <1>1
    <2>3. /\ tail \in Seq(Msgs) /\ Len(tail) = Len(lst) - 1
          /\ \A i \in 1 .. Len(tail) : tail[i] = lst[i + 1]
      <3> DEFINE last == Len(lst)
      <3>1. last \in Nat /\ \A i \in 2 .. last : lst[i] \in Msgs
        BY <1>1, MsgsOfList
      <3> HIDE DEF last
      <3>2. /\ SubSeq(lst, 2, last) \in Seq(Msgs)
            /\ Len(SubSeq(lst, 2, last)) = IF 2 <= last THEN last - 2 + 1 ELSE 0
            /\ \A i \in 1 .. last - 2 + 1 : SubSeq(lst, 2, last)[i] = lst[2 + i - 1]
        BY <3>1, SubSeqProperties
      <3>3. last - 2 + 1 = last - 1 /\ \A i \in 1 .. last - 1 : 2 + i - 1 = i + 1
        BY <3>1
      <3>4. last >= 1
        BY <1>1, <3>1 DEF last
      <3>5. Len(SubSeq(lst, 2, last)) = last - 1
        BY <3>1, <3>2, <3>4
      <3> QED BY <3>2, <3>3, <3>5 DEF last
    <2> HIDE DEF none, tail
    <2>4. rest = none \o tail
      BY <2>1 DEF none, tail
    <2> HIDE DEF rest
    <2> QED BY <1>1, <2>2, <2>3, <2>4
  <1> HIDE DEF rest
  <1>4. After(lst, id) = Begin(rest) /\ Begin(rest) \in Nat
    <2>1. CASE Len(lst) = 1
      <3>1. rest = << >>
        BY <1>3, <2>1
      <3> QED BY <1>2, <2>1, <3>1 DEF After, Begin, End
    <2>2. CASE Len(lst) # 1
      <3>1. rest # << >> /\ 1 \in 1 .. Len(rest) /\ rest[1] \in Msgs
        BY <1>1, <1>3, <2>2
      <3>2. rest[1] = lst[2]
        BY <1>3, <3>1
      <3> QED BY <1>2, <1>3, <2>2, <3>1, <3>2 DEF After, Begin, Msgs
    <2> QED BY <2>1, <2>2
  <1>5. \A i \in 1 .. Len(rest) : i + 1 \in 1 .. Len(lst) /\ i \in Nat
    BY <1>1, <1>3
  <1>6. KindsIn(lst) = KindsIn(rest) \cup {lst[1].kind}
    <2>1. ASSUME NEW i \in 1 .. Len(lst)
          PROVE  lst[i].kind \in KindsIn(rest) \cup {lst[1].kind}
      <3>1. i = 1 \/ (i - 1 \in 1 .. Len(rest) /\ rest[i - 1] = lst[i])
        BY <1>1, <1>3
      <3> QED BY <3>1 DEF KindsIn
    <2>2. \A i \in 1 .. Len(rest) : rest[i].kind \in KindsIn(lst)
      BY <1>3, <1>5 DEF KindsIn
    <2>3. lst[1].kind \in KindsIn(lst)
      BY <1>1 DEF KindsIn
    <2> QED BY <2>1, <2>2, <2>3 DEF KindsIn
  <1>7. Ascending(rest) /\ Below(rest, n)
    <2>1. ASSUME NEW i \in 1 .. Len(rest), NEW j \in 1 .. Len(rest), i < j
          PROVE  rest[i].id < rest[j].id
      <3>1. i + 1 < j + 1
        BY <2>1, <1>5
      <3> QED BY <1>3, <1>5, <3>1 DEF Ascending
    <2>2. \A i \in 1 .. Len(rest) : rest[i].id < n
      BY <1>3, <1>5 DEF Below
    <2> QED BY <2>1, <2>2 DEF Ascending, Below
  <1>8. ASSUME NEW k, Once(lst, k)  PROVE Once(rest, k)
    <2>1. ASSUME NEW i \in 1 .. Len(rest), NEW j \in 1 .. Len(rest),
                 rest[i].kind = k, rest[j].kind = k
          PROVE  i = j
      <3>1. i + 1 = j + 1
        BY <1>3, <1>5, <1>8, <2>1 DEF Once
      <3> QED BY <1>5, <3>1
    <2> QED BY <2>1 DEF Once
  <1>9. ASSUME Once(lst, lst[1].kind)  PROVE lst[1].kind \notin KindsIn(rest)
    BY <1>1, <1>3, <1>5, <1>9 DEF Once, KindsIn
  <1>10. ASSUME BlockingLast(lst)
         PROVE  BlockingLast(rest) /\ (lst[1].kind \in Blocking => rest = << >>)
    BY <1>1, <1>3, <1>5, <1>10 DEF BlockingLast
  <1> QED BY <1>1, <1>2, <1>3, <1>4, <1>6, <1>7, <1>8, <1>9, <1>10 DEF rest

\* The frames after a dispatchMessages begins, moves on or ends.
LEMMA FrameAdded ==
    ASSUME NEW f \in Seq(Frames), NEW type \in FrameTypes, NEW id \in Nat
    PROVE  LET new == Append(f, [type |-> type, iter |-> id])
           IN /\ new \in Seq(Frames)
              /\ Len(new) = Len(f) + 1
              /\ new[Len(f) + 1].type = type /\ new[Len(f) + 1].iter = id
              /\ Len(f) = 1 => new[1] = f[1]
  <1>1. [type |-> type, iter |-> id] \in Frames
    BY DEF Frames
  <1> QED BY <1>1

LEMMA FrameMoved ==
    ASSUME NEW f \in Seq(Frames), Len(f) \in {1, 2}, NEW id \in Nat
    PROVE  LET new == [f EXCEPT ![Len(f)].iter = id]
           IN /\ new \in Seq(Frames)
              /\ Len(new) = Len(f)
              /\ new[Len(f)].iter = id
              /\ \A i \in 1 .. Len(f) : new[i].type = f[i].type
              /\ Len(f) = 2 => new[1] = f[1]
  <1> DEFINE last == Len(f)
  <1> DEFINE moved == [f[last] EXCEPT !.iter = id]
  <1>1. last \in 1 .. Len(f)
    OBVIOUS
  <1>2. f[last] \in Frames
    BY <1>1
  <1>3. moved \in Frames /\ moved.iter = id /\ moved.type = f[last].type
    BY <1>2 DEF Frames
  <1> HIDE DEF moved
  <1>4. [f EXCEPT ![Len(f)].iter = id] = [f EXCEPT ![last] = moved]
    BY DEF moved
  <1> DEFINE new == [f EXCEPT ![last] = moved]
  <1>5. /\ new \in Seq(Frames) /\ Len(new) = Len(f)
        /\ \A i \in 1 .. Len(f) : new[i] = IF i = last THEN moved ELSE f[i]
    BY <1>1, <1>3, ExceptSeq
  <1> HIDE DEF new
  <1>6. Len(f) = 2 => 1 \in 1 .. Len(f)
    OBVIOUS
  <1> QED BY <1>1, <1>3, <1>4, <1>5, <1>6 DEF new

LEMMA FrameDropped ==
    ASSUME NEW f \in Seq(Frames), Len(f) \in {1, 2}
    PROVE  LET new == SubSeq(f, 1, Len(f) - 1)
           IN /\ new \in Seq(Frames)
              /\ Len(new) = Len(f) - 1
              /\ Len(f) = 1 => new = << >>
              /\ Len(f) = 2 => new[1] = f[1]
  <1>1. CASE Len(f) = 1
    <2>1. SubSeq(f, 1, 0) = << >> /\ << >> \in Seq(Frames)
      BY SubSeqEmpty
    <2> QED BY <1>1, <2>1
  <1>2. CASE Len(f) = 2
    <2>1. /\ SubSeq(f, 1, 1) \in Seq(Frames) /\ Len(SubSeq(f, 1, 1)) = 1
          /\ SubSeq(f, 1, 1)[1] = f[1]
      BY <1>2
    <2> QED BY <1>2, <2>1
  <1> QED BY <1>1, <1>2

-----------------------------------------------------------------------------
(* The same of the state.                                                   *)

LEMMA Types ==
    ASSUME Typed
    PROVE  /\ pc \in [Callers -> PlacesOfA \cup PlacesOfP]
           /\ list \in [Loops -> Seq(Msgs)]
           /\ frames \in [Loops -> Seq(Frames)]
           /\ cur \in [Loops -> Kinds \cup {None}]
           /\ made \in [Loops -> BOOLEAN]
           /\ wake \in [Loops -> BOOLEAN]
           /\ exit \in [Loops -> BOOLEAN]
           /\ owes \in [Callers -> Loops \cup {None}]
           /\ sem \in [Callers -> BOOLEAN]
           /\ nextId \in Nat \ {0}
  BY DEF Typed, TypeOK, Msgs

Twins(t, u) == Loops = {t, u} /\ t # u

LEMMA OtherLoop == Twins("P", "I") /\ Twins("I", "P")
  BY DEF Twins, Loops

LEMMA BeginType ==
    ASSUME NEW lst \in Seq(Msgs)
    PROVE  Begin(lst) \in Nat /\ (Begin(lst) = End <=> lst = << >>)
  <1>1. lst # << >> => Head(lst) \in Msgs
    OBVIOUS
  <1> QED BY <1>1 DEF Begin, Msgs, End

\* A message for u, and none for v.
Posting(u, v, kind) ==
    /\ list'[v] = list[v]
    /\ list'[u] # << >>
    /\ KindsIn(list'[u]) = KindsIn(list[u]) \cup {kind}
    /\ Begin(list[u]) # End => Begin(list'[u]) = Begin(list[u])
    /\ Once(list[u], "start") /\ (kind # "start" \/ "start" \notin KindsIn(list[u])) =>
         Once(list'[u], "start")
    /\ Once(list[u], "stop") /\ (kind # "stop" \/ "stop" \notin KindsIn(list[u])) =>
         Once(list'[u], "stop")
    /\ "begin" \notin KindsIn(list[u]) /\ "quit" \notin KindsIn(list[u]) =>
         BlockingLast(list'[u])

PostTyped ==
    /\ list' \in [Loops -> Seq(Msgs)]
    /\ nextId' \in Nat \ {0}
    /\ owes' \in [Callers -> Loops \cup {None}]

LEMMA PostEffect ==
    ASSUME Typed, ListsOrdered, NEW t \in Callers, NEW u \in Loops, NEW v \in Loops,
           Twins(u, v), NEW kind \in Kinds, Post(t, u, kind, list)
    PROVE  PostTyped /\ ListsOrdered' /\ Posting(u, v, kind)
  <1> USE Types
  <1> DEFINE new == Append(list[u], [id |-> nextId, kind |-> kind])
  <1>1. /\ list[u] \in Seq(Msgs) /\ Ascending(list[u]) /\ Below(list[u], nextId)
    BY DEF ListsOrdered
  <1>2. /\ new \in Seq(Msgs)
        /\ new # << >>
        /\ KindsIn(new) = KindsIn(list[u]) \cup {kind}
        /\ Ascending(new)
        /\ Below(new, nextId + 1)
        /\ Begin(list[u]) # End => Begin(new) = Begin(list[u])
        /\ \A k : Once(list[u], k) /\ (k # kind \/ k \notin KindsIn(list[u])) => Once(new, k)
        /\ "begin" \notin KindsIn(list[u]) /\ "quit" \notin KindsIn(list[u]) =>
             BlockingLast(new)
    BY <1>1, Posted
  <1>3. list' = [list EXCEPT ![u] = new]
    BY DEF Post
  <1> HIDE DEF new
  <1>4. /\ list' \in [Loops -> Seq(Msgs)] /\ list'[u] = new
        /\ list'[v] = list[v]
    BY <1>2, <1>3 DEF Twins
  <1>5. /\ nextId' = nextId + 1 /\ nextId' \in Nat \ {0}
        /\ owes' \in [Callers -> Loops \cup {None}]
    BY DEF Post
  <1>6. ListsOrdered'
    <2>1. Below(list[v], nextId + 1)
      <3>1. \A i \in 1 .. Len(list[v]) : list[v][i].id \in Nat
        BY MsgsOfList
      <3>2. \A i \in 1 .. Len(list[v]) : list[v][i].id < nextId
        BY DEF ListsOrdered, Below
      <3>3. \A i \in 1 .. Len(list[v]) : list[v][i].id < nextId + 1
        BY <3>1, <3>2
      <3> QED BY <3>3 DEF Below
    <2> QED BY <1>2, <1>4, <1>5, <2>1 DEF ListsOrdered, Twins
  <1> QED BY <1>2, <1>4, <1>5, <1>6 DEF Posting, PostTyped

\* A new thread has no messages.
Opening ==
    \A t \in {"P", "I"} :
      /\ list'[t] = << >> /\ KindsIn(list'[t]) = {} /\ BlockingLast(list'[t])
      /\ Once(list'[t], "start") /\ Once(list'[t], "stop")
      /\ Begin(list'[t]) = End

LEMMA OpenEffect ==
    ASSUME Open
    PROVE  list' \in [Loops -> Seq(Msgs)] /\ ListsOrdered' /\ Opening
  <1>1. list' = [t \in Loops |-> << >>]
    BY DEF Open
  <1> DEFINE none == << >>
  <1>2. none \in Seq(Msgs) /\ Len(none) = 0
    OBVIOUS
  <1>3. /\ KindsIn(none) = {} /\ BlockingLast(none) /\ Begin(none) = End
        /\ \A k : Once(none, k)
        /\ \A n : Ascending(none) /\ Below(none, n)
    BY <1>2 DEF KindsIn, BlockingLast, Once, Ascending, Below, Begin
  <1>4. \A t \in Loops : list'[t] = none
    BY <1>1
  <1> HIDE DEF none
  <1>5. list' \in [Loops -> Seq(Msgs)]
    BY <1>1, <1>2 DEF none
  <1>6. Opening
    BY <1>3, <1>4 DEF Opening, Loops, none
  <1> QED BY <1>3, <1>4, <1>5, <1>6 DEF ListsOrdered

\* t begins a dispatchMessages, u does nothing.
Entering(t, u, type) ==
    /\ frames'[u] = frames[u]
    /\ Begin(list[t]) = End <=> list[t] = << >>
    /\ Len(frames[t]) = 0 =>
         Len(frames'[t]) = 1 /\ Outer(t)'.type = type /\ Outer(t)'.iter = Begin(list[t])
    /\ Len(frames[t]) = 1 =>
         /\ Len(frames'[t]) = 2 /\ Outer(t)' = Outer(t)
         /\ Inner(t)'.type = type /\ Inner(t)'.iter = Begin(list[t])

LEMMA EnterEffect ==
    ASSUME Typed, NEW t \in Loops, NEW u \in Loops, Twins(t, u), NEW type \in FrameTypes,
           Enter(t, type)
    PROVE  frames' \in [Loops -> Seq(Frames)] /\ Entering(t, u, type)
  <1> USE Types
  <1> DEFINE new == Append(frames[t], [type |-> type, iter |-> Begin(list[t])])
  <1>1. /\ frames[t] \in Seq(Frames) /\ Begin(list[t]) \in Nat
        /\ Begin(list[t]) = End <=> list[t] = << >>
    BY BeginType
  <1>2. /\ new \in Seq(Frames)
        /\ Len(new) = Len(frames[t]) + 1
        /\ new[Len(frames[t]) + 1].type = type
        /\ new[Len(frames[t]) + 1].iter = Begin(list[t])
        /\ Len(frames[t]) = 1 => new[1] = frames[t][1]
    BY <1>1, FrameAdded
  <1>3. frames' = [frames EXCEPT ![t] = new]
    BY DEF Enter
  <1> HIDE DEF new
  <1>4. /\ frames' \in [Loops -> Seq(Frames)] /\ frames'[t] = new
        /\ frames'[u] = frames[u]
    BY <1>2, <1>3 DEF Twins
  <1>5. Len(frames[t]) = 0 =>
          Len(new) = 1 /\ new[1].type = type /\ new[1].iter = Begin(list[t])
    BY <1>2
  <1>6. Len(frames[t]) = 1 =>
          /\ Len(new) = 2 /\ new[1] = frames[t][1]
          /\ new[2].type = type /\ new[2].iter = Begin(list[t])
    BY <1>2
  <1> QED BY <1>1, <1>4, <1>5, <1>6 DEF Entering, Outer, Inner

\* A dispatchMessages of t takes a message: it was the first one.
Last(t) == frames[t][Len(frames[t])]

Taking(t, u) ==
    /\ list'[u] = list[u] /\ frames'[u] = frames[u] /\ cur'[u] = cur[u]
    /\ cur'[t] # None
    /\ KindsIn(list[t]) = KindsIn(list'[t]) \cup {cur'[t]}
    /\ Once(list[t], "start") => Once(list'[t], "start")
    /\ Once(list[t], "stop") => Once(list'[t], "stop")
    /\ Once(list[t], cur'[t]) => cur'[t] \notin KindsIn(list'[t])
    /\ list[t] # << >>
    /\ BlockingLast(list[t]) =>
         /\ BlockingLast(list'[t])
         /\ cur'[t] = "begin" \/ cur'[t] = "quit" => list'[t] = << >>
    /\ Begin(list'[t]) = End <=> list'[t] = << >>
    /\ list'[t] = << >> => KindsIn(list'[t]) = {}
    /\ Len(frames'[t]) = Len(frames[t])
    /\ Outer(t)'.type = Outer(t).type
    /\ Len(frames[t]) = 1 => Outer(t)'.iter = Begin(list'[t])
    /\ Len(frames[t]) = 2 =>
         /\ Outer(t)' = Outer(t)
         /\ Inner(t)'.type = Inner(t).type /\ Inner(t)'.iter = Begin(list'[t])
         /\ fault' = None => Outer(t).iter = End

TakeTyped ==
    /\ cur' \in [Loops -> Kinds \cup {None}]
    /\ list' \in [Loops -> Seq(Msgs)]
    /\ frames' \in [Loops -> Seq(Frames)]
    /\ fault' \in {None, "dangling"}

LEMMA NoKinds == KindsIn(<< >>) = {}
  <1>1. Len(<< >>) = 0
    OBVIOUS
  <1> QED BY <1>1 DEF KindsIn

LEMMA TakeEffect ==
    ASSUME Typed, FramesPlaced, ListsOrdered, ItersFirst, NEW t \in Loops, NEW u \in Loops,
           Twins(t, u), Take(t)
    PROVE  TakeTyped /\ ListsOrdered' /\ Taking(t, u)
  <1> USE Types
  <1> DEFINE lst == list[t]
             fs == frames[t]
             id == fs[Len(fs)].iter
             m == lst[Position(lst, id)]
             rest == Erase(lst, id)
             moved == [fs EXCEPT ![Len(fs)].iter = After(lst, id)]
  <1>1. /\ lst \in Seq(Msgs) /\ fs \in Seq(Frames) /\ nextId \in Nat
        /\ Ascending(lst) /\ Below(lst, nextId)
    BY DEF ListsOrdered
  <1>2. t = "P" \/ t = "I"
    BY DEF Loops
  <1>3. fault = None /\ InDispatch(t)
    BY DEF Take, Dispatching, Free, InDispatch
  <1>4. Placed(t) /\ AtFirst(t)
    BY <1>2, <1>3 DEF FramesPlaced, ItersFirst
  <1>5. Len(fs) = 1 \/ Len(fs) = 2
    BY <1>3, <1>4 DEF Placed
  <1>6. id \in {Begin(lst), End} /\ id # End
    <2>1. id # End
      BY DEF Take, Frame
    <2> QED BY <1>3, <1>4, <1>5, <2>1 DEF AtFirst, Outer, Inner
  <1>7. /\ m \in Msgs
        /\ rest \in Seq(Msgs)
        /\ After(lst, id) = Begin(rest)
        /\ KindsIn(lst) = KindsIn(rest) \cup {m.kind}
        /\ Ascending(rest) /\ Below(rest, nextId)
        /\ Begin(rest) \in Nat
        /\ \A k : Once(lst, k) => Once(rest, k)
        /\ Once(lst, m.kind) => m.kind \notin KindsIn(rest)
        /\ BlockingLast(lst) => BlockingLast(rest)
        /\ BlockingLast(lst) /\ m.kind \in Blocking => rest = << >>
    BY <1>1, <1>6, Taken
  <1>8. /\ moved \in Seq(Frames)
        /\ Len(moved) = Len(fs)
        /\ moved[Len(fs)].iter = After(lst, id)
        /\ \A i \in 1 .. Len(fs) : moved[i].type = fs[i].type
        /\ Len(fs) = 2 => moved[1] = fs[1]
    BY <1>1, <1>5, <1>7, FrameMoved
  <1>9. /\ cur' = [cur EXCEPT ![t] = m.kind]
        /\ list' = [list EXCEPT ![t] = rest]
        /\ frames' = [frames EXCEPT ![t] = moved]
        /\ nextId' = nextId
        /\ fault' = IF \E i \in 1 .. Len(fs) - 1 : fs[i].iter = id
                      THEN "dangling" ELSE fault
    BY DEF Take, Frame, SetIter
  <1>10. lst # << >>
    BY <1>1, <1>6, BeginType
  <1>11. fault' \in {None, "dangling"}
    BY <1>3, <1>9
  <1>12. ASSUME fault' = None, Len(fs) = 2  PROVE fs[1].iter = End
    <2>1. 1 \in 1 .. Len(fs) - 1
      BY <1>12
    <2>2. fs[1].iter # id
      <3>1. CASE fs[1].iter = id
        <4>1. fault' = "dangling"
          BY <1>9, <2>1, <3>1
        <4> QED BY <1>12, <4>1 DEF None
      <3> QED BY <3>1
    <2>3. fs[1].iter \in {Begin(lst), End}
      BY <1>3, <1>4 DEF AtFirst, Outer
    <2> QED BY <1>6, <2>2, <2>3
  <1>13. moved[1].type = fs[1].type /\ (Len(fs) = 2 => moved[2].type = fs[2].type)
    BY <1>5, <1>8
  <1>14. /\ Begin(rest) = End <=> rest = << >>
         /\ rest = << >> => KindsIn(rest) = {}
    BY <1>7, BeginType, NoKinds
  <1> HIDE DEF m, rest, moved
  <1>15. m.kind \in Kinds /\ m.kind # None
    BY <1>7 DEF Msgs, Kinds, None
  <1>16. /\ cur' \in [Loops -> Kinds \cup {None}] /\ cur'[t] = m.kind
         /\ list' \in [Loops -> Seq(Msgs)] /\ list'[t] = rest
         /\ frames' \in [Loops -> Seq(Frames)] /\ frames'[t] = moved
         /\ list'[u] = list[u] /\ frames'[u] = frames[u] /\ cur'[u] = cur[u]
    BY <1>7, <1>8, <1>9, <1>15 DEF Twins
  <1>17. ListsOrdered'
    BY <1>7, <1>9, <1>16 DEF ListsOrdered, Twins
  <1>18. TakeTyped
    BY <1>11, <1>16 DEF TakeTyped
  <1>19. Taking(t, u)
    BY <1>5, <1>7, <1>8, <1>10, <1>12, <1>13, <1>14, <1>15, <1>16
       DEF Taking, Outer, Inner, Blocking
  <1> QED BY <1>17, <1>18, <1>19

\* t ends a dispatchMessages.
Dropping(t, u) ==
    /\ frames'[u] = frames[u]
    /\ Len(frames[t]) = 1 => Len(frames'[t]) = 0
    /\ Len(frames[t]) = 2 => Len(frames'[t]) = 1 /\ Outer(t)' = Outer(t)

LEMMA FinishEffect ==
    ASSUME Typed, FramesPlaced, NEW t \in Loops, NEW u \in Loops, Twins(t, u), Finish(t)
    PROVE  frames' \in [Loops -> Seq(Frames)] /\ Dropping(t, u)
  <1> USE Types
  <1> DEFINE new == SubSeq(frames[t], 1, Len(frames[t]) - 1)
  <1>1. frames[t] \in Seq(Frames) /\ Len(frames[t]) \in {1, 2}
    <2>1. t = "P" \/ t = "I"
      BY DEF Loops
    <2>2. InDispatch(t)
      BY DEF Finish, Dispatching, InDispatch
    <2> QED BY <2>1, <2>2 DEF FramesPlaced, Placed
  <1>2. /\ new \in Seq(Frames)
        /\ Len(new) = Len(frames[t]) - 1
        /\ Len(frames[t]) = 1 => new = << >>
        /\ Len(frames[t]) = 2 => new[1] = frames[t][1]
    BY <1>1, FrameDropped
  <1>3. frames' = [frames EXCEPT ![t] = new]
    BY DEF Finish
  <1> HIDE DEF new
  <1>4. /\ frames' \in [Loops -> Seq(Frames)] /\ frames'[t] = new
        /\ frames'[u] = frames[u]
    BY <1>2, <1>3 DEF Twins
  <1>5. Len(frames[t]) = 1 => Len(frames'[t]) = 0
    BY <1>2, <1>4
  <1>6. Len(frames[t]) = 2 => Len(frames'[t]) = 1 /\ frames'[t][1] = frames[t][1]
    BY <1>2, <1>4
  <1> QED BY <1>4, <1>5, <1>6 DEF Dropping, Outer

-----------------------------------------------------------------------------
(* Every step preserves the invariant.                                      *)

LEMMA InterruptStep ==
    ASSUME DispatchInv, NEW c \in Callers, Interrupt(c)
    PROVE  DispatchInv'
  <1>1. /\ fault = None
        /\ UNCHANGED <<pc, sem, proxy, list, nextId, frames, cur, made, exit, fault>>
    BY Types DEF DispatchInv, Loops, Callers, Interrupt
  <1>2. /\ made["P"] /\ Signalled("P") => Signalled("P")'
        /\ made["I"] /\ Signalled("I") => Signalled("I")'
    BY Types DEF DispatchInv, Signalled, Loops, Callers, None, Interrupt
  <1>3. (Nested' <=> Nested) /\ (Deleting' <=> Deleting)
    BY <1>1, <1>2 DEF DispatchInv, Nested, Deleting, Outer, Inner, Last, FramesPlaced,
       Placed, InDispatch, None
  <1>4. Typed'
    BY DEF DispatchInv, Typed, TypeOK, Msgs, Loops, Callers, Kinds, None, PlacesOfA,
       PlacesOfP, Interrupt
  <1>5. FramesPlaced'
    BY <1>1 DEF DispatchInv, FramesPlaced, Placed, InDispatch, Outer, Inner, Nested,
       Deleting, None
  <1>6. ListsOrdered'
    BY <1>1 DEF DispatchInv, ListsOrdered
  <1>7. ItersFirst'
    BY <1>1 DEF DispatchInv, ItersFirst, AtFirst, InDispatch, Outer, Inner
  <1>8. Waking'
    BY <1>1, <1>2 DEF DispatchInv, Waking, Awake, InDispatch, Outer, FramesPlaced,
       Placed, Nested, Deleting, None
  <1>9. Deletes'
    BY <1>1, <1>3 DEF DispatchInv, Deletes, Outer
  <1>10. Protocol'
    BY <1>1, <1>3 DEF DispatchInv, Protocol, Halting, None
  <1>11. IpaCalls'
    BY <1>1, <1>3 DEF DispatchInv, IpaCalls, None
  <1>12. Signals'
    BY <1>1, <1>3 DEF DispatchInv, Signals, Inner, None
  <1> QED BY <1>4, <1>5, <1>6, <1>7, <1>8, <1>9, <1>10, <1>11, <1>12 DEF DispatchInv

LEMMA OpenStep ==
    ASSUME DispatchInv, Open
    PROVE  DispatchInv'
  <1>1. list' \in [Loops -> Seq(Msgs)] /\ ListsOrdered' /\ Opening
    BY OpenEffect DEF DispatchInv
  <1>2. /\ pc["A"] = "closed"
        /\ pc'["A"] = "stopped"
        /\ pc'["P"] = "exec"
        /\ pc'["I"] = pc["I"]
        /\ UNCHANGED <<sem, proxy, nextId, frames, cur>>
        /\ made'["P"] = FALSE
        /\ made'["I"] = FALSE
        /\ exit'["P"] = FALSE
        /\ exit'["I"] = FALSE
        /\ fault' = fault
    BY Types DEF DispatchInv, Loops, Callers, Open, Call, Free
  <1>3. pc["P"] = "off" /\ pc["I"] = "off"
    BY <1>2 DEF DispatchInv, Protocol, Signals
  <1>4. ~Nested /\ ~Deleting
    BY <1>1, <1>2, <1>3 DEF DispatchInv, Nested, Deleting, Outer, Inner, Last,
       FramesPlaced, Placed, InDispatch, None
  <1>5. (Nested' <=> Nested) /\ (Deleting' <=> Deleting)
    BY <1>1, <1>2, <1>3, <1>4 DEF DispatchInv, Nested, Deleting, Outer, Inner, Last,
       FramesPlaced, Placed, InDispatch, None, Opening
  <1>6. Typed'
    BY <1>1, DispatchAssumption DEF DispatchInv, Typed, TypeOK, Msgs, Loops, Callers,
       Kinds, None, PlacesOfA, PlacesOfP, Open, Call, Free
  <1>7. FramesPlaced'
    BY <1>1, <1>2, <1>3, <1>4 DEF DispatchInv, FramesPlaced, Placed, InDispatch, Outer,
       Inner, Nested, Deleting, None, Opening
  <1>8. ListsOrdered'
    BY <1>1 DEF DispatchInv, ListsOrdered
  <1>9. ItersFirst'
    BY <1>1, <1>2, <1>3, <1>4 DEF DispatchInv, ItersFirst, AtFirst, InDispatch, Outer,
       Inner, FramesPlaced, Placed, None, Opening
  <1>10. Waking'
    BY <1>1, <1>2 DEF DispatchInv, Waking, Awake, InDispatch, Outer, Opening
  <1>11. Deletes'
    BY <1>1, <1>2 DEF DispatchInv, Deletes, Outer, Opening
  <1>12. Protocol'
    BY <1>1, <1>2, <1>3, <1>4, <1>5 DEF DispatchInv, Protocol, Halting, None, Opening
  <1>13. IpaCalls'
    BY <1>1, <1>2, <1>3, <1>4 DEF DispatchInv, IpaCalls, None, Opening
  <1>14. Signals'
    BY <1>1, <1>2 DEF DispatchInv, Signals, Inner, None, Opening
  <1> QED BY <1>6, <1>7, <1>8, <1>9, <1>10, <1>11, <1>12, <1>13, <1>14 DEF DispatchInv

LEMMA StartsStep ==
    ASSUME DispatchInv, Starts
    PROVE  DispatchInv'
  <1>1. PostTyped /\ ListsOrdered' /\ Posting("P", "I", "start")
    BY PostEffect, OtherLoop DEF Starts, Callers, Loops, Kinds, DispatchInv
  <1>2. /\ pc["A"] = "stopped"
        /\ pc'["A"] = "starting"
        /\ pc'["P"] = pc["P"]
        /\ pc'["I"] = pc["I"]
        /\ UNCHANGED <<sem, proxy, frames, cur, made, exit, fault>>
    BY Types DEF DispatchInv, Loops, Callers, Starts, Call, Free
  <1>3. /\ Signalled("P")'
        /\ made["I"] /\ Signalled("I") => Signalled("I")'
    BY Types DEF DispatchInv, Signalled, Loops, Callers, None, Starts, Call, Free, Post
  <1>4. (Nested' <=> Nested) /\ (Deleting' <=> Deleting)
    BY <1>1, <1>2, <1>3 DEF DispatchInv, Nested, Deleting, Outer, Inner, Last,
       FramesPlaced, Placed, InDispatch, None, Posting
  <1>5. Typed'
    BY <1>1, DispatchAssumption DEF DispatchInv, Typed, TypeOK, Msgs, Loops, Callers,
       Kinds, None, PlacesOfA, PlacesOfP, Starts, Call, Free, PostTyped
  <1>6. FramesPlaced'
    BY <1>2 DEF DispatchInv, FramesPlaced, Placed, InDispatch, Outer, Inner, Nested,
       Deleting, None
  <1>7. ListsOrdered'
    BY <1>1 DEF DispatchInv, ListsOrdered
  <1>8. ItersFirst'
    BY <1>1, <1>2 DEF DispatchInv, ItersFirst, AtFirst, InDispatch, Outer, Inner,
       Posting
  <1>9. Waking'
    BY <1>1, <1>2, <1>3 DEF DispatchInv, Waking, Awake, InDispatch, Outer, FramesPlaced,
       Placed, Nested, Deleting, None, Posting
  <1>10. Deletes'
    BY <1>1, <1>2, <1>4 DEF DispatchInv, Deletes, Outer, Posting
  <1>11. Protocol'
    BY <1>1, <1>2, <1>4 DEF DispatchInv, Protocol, Halting, None, Posting
  <1>12. IpaCalls'
    BY <1>1, <1>2, <1>4 DEF DispatchInv, IpaCalls, None, Posting
  <1>13. Signals'
    BY <1>1, <1>2, <1>4 DEF DispatchInv, Signals, Inner, None, Posting
  <1> QED BY <1>5, <1>6, <1>7, <1>8, <1>9, <1>10, <1>11, <1>12, <1>13 DEF DispatchInv

LEMMA QueueRequestStep ==
    ASSUME DispatchInv, QueueRequest
    PROVE  DispatchInv'
  <1>1. PostTyped /\ ListsOrdered' /\ Posting("P", "I", "work")
    BY PostEffect, OtherLoop DEF QueueRequest, Callers, Loops, Kinds, DispatchInv
  <1>2. /\ pc["A"] = "running"
        /\ UNCHANGED <<pc, sem, proxy, frames, cur, made, exit, fault>>
    BY Types DEF DispatchInv, Loops, Callers, QueueRequest, Call, Free
  <1>3. /\ Signalled("P")'
        /\ made["I"] /\ Signalled("I") => Signalled("I")'
    BY Types DEF DispatchInv, Signalled, Loops, Callers, None, QueueRequest, Call, Free,
       Post
  <1>4. (Nested' <=> Nested) /\ (Deleting' <=> Deleting)
    BY <1>1, <1>2, <1>3 DEF DispatchInv, Nested, Deleting, Outer, Inner, Last,
       FramesPlaced, Placed, InDispatch, None, Posting
  <1>5. Typed'
    BY <1>1, DispatchAssumption DEF DispatchInv, Typed, TypeOK, Msgs, Loops, Callers,
       Kinds, None, PlacesOfA, PlacesOfP, QueueRequest, Call, Free, PostTyped
  <1>6. FramesPlaced'
    BY <1>2 DEF DispatchInv, FramesPlaced, Placed, InDispatch, Outer, Inner, Nested,
       Deleting, None
  <1>7. ListsOrdered'
    BY <1>1 DEF DispatchInv, ListsOrdered
  <1>8. ItersFirst'
    BY <1>1, <1>2 DEF DispatchInv, ItersFirst, AtFirst, InDispatch, Outer, Inner,
       Posting
  <1>9. Waking'
    BY <1>1, <1>2, <1>3 DEF DispatchInv, Waking, Awake, InDispatch, Outer, FramesPlaced,
       Placed, Nested, Deleting, None, Posting
  <1>10. Deletes'
    BY <1>1, <1>2, <1>4 DEF DispatchInv, Deletes, Outer, Posting
  <1>11. Protocol'
    BY <1>1, <1>2, <1>4 DEF DispatchInv, Protocol, Halting, None, Posting
  <1>12. IpaCalls'
    BY <1>1, <1>2, <1>4 DEF DispatchInv, IpaCalls, None, Posting
  <1>13. Signals'
    BY <1>1, <1>2, <1>4 DEF DispatchInv, Signals, Inner, None, Posting
  <1> QED BY <1>5, <1>6, <1>7, <1>8, <1>9, <1>10, <1>11, <1>12, <1>13 DEF DispatchInv

LEMMA StopsStep ==
    ASSUME DispatchInv, Stops
    PROVE  DispatchInv'
  <1>1. PostTyped /\ ListsOrdered' /\ Posting("P", "I", "stop")
    BY PostEffect, OtherLoop DEF Stops, Callers, Loops, Kinds, DispatchInv
  <1>2. /\ pc["A"] = "running"
        /\ pc'["A"] = "stopping"
        /\ pc'["P"] = pc["P"]
        /\ pc'["I"] = pc["I"]
        /\ UNCHANGED <<sem, proxy, frames, cur, made, exit, fault>>
    BY Types DEF DispatchInv, Loops, Callers, Stops, Call, Free
  <1>3. /\ Signalled("P")'
        /\ made["I"] /\ Signalled("I") => Signalled("I")'
    BY Types DEF DispatchInv, Signalled, Loops, Callers, None, Stops, Call, Free, Post
  <1>4. (Nested' <=> Nested) /\ (Deleting' <=> Deleting)
    BY <1>1, <1>2, <1>3 DEF DispatchInv, Nested, Deleting, Outer, Inner, Last,
       FramesPlaced, Placed, InDispatch, None, Posting
  <1>5. Typed'
    BY <1>1, DispatchAssumption DEF DispatchInv, Typed, TypeOK, Msgs, Loops, Callers,
       Kinds, None, PlacesOfA, PlacesOfP, Stops, Call, Free, PostTyped
  <1>6. FramesPlaced'
    BY <1>2 DEF DispatchInv, FramesPlaced, Placed, InDispatch, Outer, Inner, Nested,
       Deleting, None
  <1>7. ListsOrdered'
    BY <1>1 DEF DispatchInv, ListsOrdered
  <1>8. ItersFirst'
    BY <1>1, <1>2 DEF DispatchInv, ItersFirst, AtFirst, InDispatch, Outer, Inner,
       Posting
  <1>9. Waking'
    BY <1>1, <1>2, <1>3 DEF DispatchInv, Waking, Awake, InDispatch, Outer, FramesPlaced,
       Placed, Nested, Deleting, None, Posting
  <1>10. Deletes'
    BY <1>1, <1>2, <1>4 DEF DispatchInv, Deletes, Outer, Posting
  <1>11. Protocol'
    BY <1>1, <1>2, <1>4 DEF DispatchInv, Protocol, Halting, None, Posting
  <1>12. IpaCalls'
    BY <1>1, <1>2, <1>4 DEF DispatchInv, IpaCalls, None, Posting
  <1>13. Signals'
    BY <1>1, <1>2, <1>4 DEF DispatchInv, Signals, Inner, None, Posting
  <1> QED BY <1>5, <1>6, <1>7, <1>8, <1>9, <1>10, <1>11, <1>12, <1>13 DEF DispatchInv

LEMMA ReturnsFromStartStep ==
    ASSUME DispatchInv, pc["A"] = "starting", Returns
    PROVE  DispatchInv'
  <1>1. /\ sem["A"]
        /\ pc'["A"] = "running"
        /\ pc'["P"] = pc["P"]
        /\ pc'["I"] = pc["I"]
        /\ sem'["A"] = FALSE
        /\ sem'["P"] = sem["P"]
        /\ UNCHANGED <<proxy, list, nextId, frames, cur, made, exit, fault>>
    BY Types DEF DispatchInv, Loops, Callers, Returns, Free
  <1>2. /\ made["P"] /\ Signalled("P") => Signalled("P")'
        /\ made["I"] /\ Signalled("I") => Signalled("I")'
    BY Types DEF DispatchInv, Signalled, Loops, Callers, None, Returns, Free
  <1>3. (Nested' <=> Nested) /\ (Deleting' <=> Deleting)
    BY <1>1, <1>2 DEF DispatchInv, Nested, Deleting, Outer, Inner, Last, FramesPlaced,
       Placed, InDispatch, None
  <1>4. Typed'
    BY DEF DispatchInv, Typed, TypeOK, Msgs, Loops, Callers, Kinds, None, PlacesOfA,
       PlacesOfP, Returns, Free
  <1>5. FramesPlaced'
    BY <1>1 DEF DispatchInv, FramesPlaced, Placed, InDispatch, Outer, Inner, Nested,
       Deleting, None
  <1>6. ListsOrdered'
    BY <1>1 DEF DispatchInv, ListsOrdered
  <1>7. ItersFirst'
    BY <1>1 DEF DispatchInv, ItersFirst, AtFirst, InDispatch, Outer, Inner
  <1>8. Waking'
    BY <1>1, <1>2 DEF DispatchInv, Waking, Awake, InDispatch, Outer, FramesPlaced,
       Placed, Nested, Deleting, None
  <1>9. Deletes'
    BY <1>1, <1>3 DEF DispatchInv, Deletes, Outer
  <1>10. Protocol'
    BY <1>1, <1>3 DEF DispatchInv, Protocol, Halting, None
  <1>11. IpaCalls'
    BY <1>1, <1>3 DEF DispatchInv, IpaCalls, None
  <1>12. Signals'
    BY <1>1, <1>3 DEF DispatchInv, Signals, Inner, None
  <1> QED BY <1>4, <1>5, <1>6, <1>7, <1>8, <1>9, <1>10, <1>11, <1>12 DEF DispatchInv

LEMMA ReturnsFromStopStep ==
    ASSUME DispatchInv, pc["A"] # "starting", Returns
    PROVE  DispatchInv'
  <1>1. /\ sem["A"]
        /\ pc'["A"] = "stopped"
        /\ pc'["P"] = pc["P"]
        /\ pc'["I"] = pc["I"]
        /\ sem'["A"] = FALSE
        /\ sem'["P"] = sem["P"]
        /\ UNCHANGED <<proxy, list, nextId, frames, cur, made, exit, fault>>
    BY Types DEF DispatchInv, Loops, Callers, Returns, Free
  <1>2. /\ made["P"] /\ Signalled("P") => Signalled("P")'
        /\ made["I"] /\ Signalled("I") => Signalled("I")'
    BY Types DEF DispatchInv, Signalled, Loops, Callers, None, Returns, Free
  <1>3. (Nested' <=> Nested) /\ (Deleting' <=> Deleting)
    BY <1>1, <1>2 DEF DispatchInv, Nested, Deleting, Outer, Inner, Last, FramesPlaced,
       Placed, InDispatch, None
  <1>4. Typed'
    BY DEF DispatchInv, Typed, TypeOK, Msgs, Loops, Callers, Kinds, None, PlacesOfA,
       PlacesOfP, Returns, Free
  <1>5. FramesPlaced'
    BY <1>1 DEF DispatchInv, FramesPlaced, Placed, InDispatch, Outer, Inner, Nested,
       Deleting, None
  <1>6. ListsOrdered'
    BY <1>1 DEF DispatchInv, ListsOrdered
  <1>7. ItersFirst'
    BY <1>1 DEF DispatchInv, ItersFirst, AtFirst, InDispatch, Outer, Inner
  <1>8. Waking'
    BY <1>1, <1>2 DEF DispatchInv, Waking, Awake, InDispatch, Outer, FramesPlaced,
       Placed, Nested, Deleting, None
  <1>9. Deletes'
    BY <1>1, <1>3 DEF DispatchInv, Deletes, Outer
  <1>10. Protocol'
    BY <1>1, <1>3 DEF DispatchInv, Protocol, Halting, None
  <1>11. IpaCalls'
    BY <1>1, <1>3 DEF DispatchInv, IpaCalls, None
  <1>12. Signals'
    BY <1>1, <1>3 DEF DispatchInv, Signals, Inner, None
  <1> QED BY <1>4, <1>5, <1>6, <1>7, <1>8, <1>9, <1>10, <1>11, <1>12 DEF DispatchInv

LEMMA CloseStep ==
    ASSUME DispatchInv, Close
    PROVE  DispatchInv'
  <1>1. /\ pc["A"] = "stopped"
        /\ pc'["A"] = "closing"
        /\ pc'["P"] = pc["P"]
        /\ pc'["I"] = pc["I"]
        /\ UNCHANGED <<sem, proxy, list, nextId, frames, cur, made>>
        /\ exit'["P"] = TRUE
        /\ exit'["I"] = exit["I"]
        /\ fault' = fault
    BY Types DEF DispatchInv, Loops, Callers, Close, Call, Exit, Free
  <1>2. /\ Signalled("P")'
        /\ made["I"] /\ Signalled("I") => Signalled("I")'
    BY Types DEF DispatchInv, Signalled, Loops, Callers, None, Close, Call, Exit, Free
  <1>3. (Nested' <=> Nested) /\ (Deleting' <=> Deleting)
    BY <1>1, <1>2 DEF DispatchInv, Nested, Deleting, Outer, Inner, Last, FramesPlaced,
       Placed, InDispatch, None
  <1>4. Typed'
    BY DispatchAssumption DEF DispatchInv, Typed, TypeOK, Msgs, Loops, Callers, Kinds,
       None, PlacesOfA, PlacesOfP, Close, Call, Exit, Free
  <1>5. FramesPlaced'
    BY <1>1 DEF DispatchInv, FramesPlaced, Placed, InDispatch, Outer, Inner, Nested,
       Deleting, None
  <1>6. ListsOrdered'
    BY <1>1 DEF DispatchInv, ListsOrdered
  <1>7. ItersFirst'
    BY <1>1 DEF DispatchInv, ItersFirst, AtFirst, InDispatch, Outer, Inner
  <1>8. Waking'
    BY <1>1, <1>2 DEF DispatchInv, Waking, Awake, InDispatch, Outer, FramesPlaced,
       Placed, Nested, Deleting, None
  <1>9. Deletes'
    BY <1>1, <1>3 DEF DispatchInv, Deletes, Outer
  <1>10. Protocol'
    BY <1>1, <1>3 DEF DispatchInv, Protocol, Halting, None
  <1>11. IpaCalls'
    BY <1>1, <1>3 DEF DispatchInv, IpaCalls, None
  <1>12. Signals'
    BY <1>1, <1>3 DEF DispatchInv, Signals, Inner, None
  <1> QED BY <1>4, <1>5, <1>6, <1>7, <1>8, <1>9, <1>10, <1>11, <1>12 DEF DispatchInv

LEMMA ClosedStep ==
    ASSUME DispatchInv, Closed
    PROVE  DispatchInv'
  <1>1. /\ pc["A"] = "closing"
        /\ pc["P"] = "off"
        /\ pc'["A"] = "closed"
        /\ pc'["P"] = pc["P"]
        /\ pc'["I"] = pc["I"]
        /\ UNCHANGED <<sem, proxy, list, nextId, frames, cur, made, exit, fault>>
    BY Types DEF DispatchInv, Loops, Callers, Closed, Free
  <1>2. /\ made["P"] /\ Signalled("P") => Signalled("P")'
        /\ made["I"] /\ Signalled("I") => Signalled("I")'
    BY Types DEF DispatchInv, Signalled, Loops, Callers, None, Closed, Free
  <1>3. (Nested' <=> Nested) /\ (Deleting' <=> Deleting)
    BY <1>1, <1>2 DEF DispatchInv, Nested, Deleting, Outer, Inner, Last, FramesPlaced,
       Placed, InDispatch, None
  <1>4. Typed'
    BY DEF DispatchInv, Typed, TypeOK, Msgs, Loops, Callers, Kinds, None, PlacesOfA,
       PlacesOfP, Closed, Free
  <1>5. FramesPlaced'
    BY <1>1 DEF DispatchInv, FramesPlaced, Placed, InDispatch, Outer, Inner, Nested,
       Deleting, None
  <1>6. ListsOrdered'
    BY <1>1 DEF DispatchInv, ListsOrdered
  <1>7. ItersFirst'
    BY <1>1 DEF DispatchInv, ItersFirst, AtFirst, InDispatch, Outer, Inner
  <1>8. Waking'
    BY <1>1, <1>2 DEF DispatchInv, Waking, Awake, InDispatch, Outer, FramesPlaced,
       Placed, Nested, Deleting, None
  <1>9. Deletes'
    BY <1>1 DEF DispatchInv, Deletes
  <1>10. Protocol'
    BY <1>1, <1>3 DEF DispatchInv, Protocol, Halting, None
  <1>11. IpaCalls'
    BY <1>1, <1>3 DEF DispatchInv, IpaCalls, None
  <1>12. Signals'
    BY <1>1, <1>3 DEF DispatchInv, Signals, Inner, None
  <1> QED BY <1>4, <1>5, <1>6, <1>7, <1>8, <1>9, <1>10, <1>11, <1>12 DEF DispatchInv

LEMMA ExecEndsPStep ==
    ASSUME DispatchInv, exit["P"], Exec("P")
    PROVE  DispatchInv'
  <1>1. /\ pc["P"] = "exec"
        /\ pc'["A"] = pc["A"]
        /\ pc'["P"] = "cleanup"
        /\ pc'["I"] = pc["I"]
        /\ UNCHANGED <<sem, proxy, list, nextId, frames, cur>>
        /\ made'["P"] = TRUE
        /\ made'["I"] = made["I"]
        /\ UNCHANGED <<exit, fault>>
    BY Types DEF DispatchInv, Loops, Callers, Exec, Free
  <1>2. /\ made["P"] /\ Signalled("P") => Signalled("P")'
        /\ made["I"] /\ Signalled("I") => Signalled("I")'
    BY Types DEF DispatchInv, Signalled, Loops, Callers, None, Exec, Free
  <1>3. (Nested' <=> Nested) /\ (Deleting' <=> Deleting)
    BY <1>1, <1>2 DEF DispatchInv, Nested, Deleting, Outer, Inner, Last, FramesPlaced,
       Placed, InDispatch, None
  <1>4. Typed'
    BY DEF DispatchInv, Typed, TypeOK, Msgs, Loops, Callers, Kinds, None, PlacesOfA,
       PlacesOfP, Exec, Free
  <1>5. FramesPlaced'
    BY <1>1 DEF DispatchInv, FramesPlaced, Placed, InDispatch, Outer, Inner, Nested,
       Deleting, None
  <1>6. ListsOrdered'
    BY <1>1 DEF DispatchInv, ListsOrdered
  <1>7. ItersFirst'
    BY <1>1 DEF DispatchInv, ItersFirst, AtFirst, InDispatch, Outer, Inner
  <1>8. Waking'
    BY <1>1, <1>2 DEF DispatchInv, Waking, Awake, InDispatch, Outer, FramesPlaced,
       Placed, Nested, Deleting, None
  <1>9. Deletes'
    BY <1>1, <1>3 DEF DispatchInv, Deletes, Outer
  <1>10. Protocol'
    BY <1>1, <1>3 DEF DispatchInv, Protocol, Halting, None
  <1>11. IpaCalls'
    BY <1>1, <1>3 DEF DispatchInv, IpaCalls, None
  <1>12. Signals'
    BY <1>1, <1>3 DEF DispatchInv, Signals, Inner, None
  <1> QED BY <1>4, <1>5, <1>6, <1>7, <1>8, <1>9, <1>10, <1>11, <1>12 DEF DispatchInv

LEMMA ExecPStep ==
    ASSUME DispatchInv, ~exit["P"], Exec("P")
    PROVE  DispatchInv'
  <1>1. frames' \in [Loops -> Seq(Frames)] /\ Entering("P", "I", None)
    BY EnterEffect, OtherLoop DEF Exec, FrameTypes, Loops, DispatchInv
  <1>2. /\ pc["P"] = "exec"
        /\ pc'["A"] = pc["A"]
        /\ pc'["P"] = "dispatch"
        /\ pc'["I"] = pc["I"]
        /\ UNCHANGED <<sem, proxy, list, nextId, cur>>
        /\ made'["P"] = TRUE
        /\ made'["I"] = made["I"]
        /\ UNCHANGED <<exit, fault>>
    BY Types DEF DispatchInv, Loops, Callers, Exec, Free
  <1>3. /\ made["P"] /\ Signalled("P") => Signalled("P")'
        /\ made["I"] /\ Signalled("I") => Signalled("I")'
    BY Types DEF DispatchInv, Signalled, Loops, Callers, None, Exec, Free
  <1>4. cur["P"] = None
    BY <1>2 DEF DispatchInv, FramesPlaced, Placed, InDispatch
  <1>5. Len(frames["P"]) = 0
    BY <1>2 DEF DispatchInv, Nested, Deleting, Outer, Inner, Last, FramesPlaced, Placed,
       InDispatch, None
  <1>6. Len(frames["P"])' = 1 /\ Outer("P")'.type = None
    BY <1>1, <1>4, <1>5 DEF Entering
  <1>7. ~Nested /\ ~Nested' /\ ~Deleting'
    BY <1>4, <1>5, <1>6 DEF Nested, Deleting, Outer, None
  <1>8. Typed'
    BY <1>1 DEF DispatchInv, Typed, TypeOK, Msgs, Loops, Callers, Kinds, None,
       PlacesOfA, PlacesOfP, Exec, Free
  <1>9. FramesPlaced'
    BY <1>1, <1>2 DEF DispatchInv, FramesPlaced, Placed, InDispatch, Outer, Inner,
       Nested, Deleting, None, Entering
  <1>10. ListsOrdered'
    BY <1>2 DEF DispatchInv, ListsOrdered
  <1>11. ItersFirst'
    BY <1>1, <1>2, <1>4, <1>5, <1>6 DEF DispatchInv, ItersFirst, AtFirst, InDispatch,
       Outer, Inner, Entering
  <1>12. Waking'
    BY <1>1, <1>2, <1>3, <1>4, <1>5, <1>6 DEF DispatchInv, Waking, Awake, InDispatch,
       Outer, FramesPlaced, Placed, Nested, Deleting, None, Entering
  <1>13. Deletes'
    BY <1>1, <1>2, <1>7 DEF DispatchInv, Deletes, Outer, Entering
  <1>14. Protocol'
    BY <1>1, <1>2, <1>4, <1>5, <1>6, <1>7 DEF DispatchInv, Protocol, Halting, None,
       Entering
  <1>15. IpaCalls'
    BY <1>1, <1>2, <1>7 DEF DispatchInv, IpaCalls, None, Entering
  <1>16. Signals'
    BY <1>1, <1>2, <1>7 DEF DispatchInv, Signals, Inner, None, Entering
  <1> QED BY <1>8, <1>9, <1>10, <1>11, <1>12, <1>13, <1>14, <1>15, <1>16 DEF DispatchInv

LEMMA TakePStep ==
    ASSUME DispatchInv, Take("P")
    PROVE  DispatchInv'
  <1>1. TakeTyped /\ ListsOrdered' /\ Taking("P", "I")
    BY TakeEffect, OtherLoop DEF Loops, DispatchInv
  <1>2. /\ fault = None
        /\ pc["P"] = "dispatch"
        /\ cur["P"] = None
        /\ Last("P").iter # End
        /\ Last("P").type \in {None, TypeOf(cur'["P"])}
        /\ UNCHANGED <<pc, sem, proxy, nextId, made, exit>>
    BY Types DEF DispatchInv, Loops, Callers, Take, Dispatching, Frame, Last, Free
  <1>3. /\ made["P"] /\ Signalled("P") => Signalled("P")'
        /\ made["I"] /\ Signalled("I") => Signalled("I")'
    BY Types DEF DispatchInv, Signalled, Loops, Callers, None, Take, Dispatching, Frame,
       Last, Free
  <1>4. /\ Nested => Len(frames["P"]) = 2
        /\ Deleting => Len(frames["P"]) = 1
        /\ fault' # "assertion"
    BY <1>1 DEF TakeTyped, None, Nested, Deleting
  <1>5. (Nested' <=> Nested) /\ (Deleting' <=> Deleting)
    BY <1>1, <1>2, <1>3, <1>4 DEF DispatchInv, Nested, Deleting, Outer, Inner, Last,
       FramesPlaced, Placed, InDispatch, None, Taking
  <1>6. Typed'
    BY <1>1 DEF DispatchInv, Typed, TypeOK, Msgs, Loops, Callers, Kinds, None,
       PlacesOfA, PlacesOfP, Take, Dispatching, Frame, Last, Free, TakeTyped
  <1>7. FramesPlaced'
    BY <1>1, <1>2 DEF DispatchInv, FramesPlaced, Placed, InDispatch, Outer, Inner,
       Nested, Deleting, None, Taking
  <1>8. ListsOrdered'
    BY <1>1 DEF DispatchInv, ListsOrdered
  <1>9. ItersFirst'
    BY <1>1, <1>2, <1>4 DEF DispatchInv, ItersFirst, AtFirst, InDispatch, Outer, Inner,
       FramesPlaced, Placed, None, Taking
  <1>10. Waking'
    BY <1>1, <1>2, <1>3, <1>4 DEF DispatchInv, Waking, Awake, InDispatch, Outer,
       FramesPlaced, Placed, Nested, Deleting, None, Taking
  <1>11. Deletes'
    BY <1>1, <1>2, <1>4, <1>5 DEF DispatchInv, Deletes, Outer, Taking
  <1>12. Protocol'
    BY <1>1, <1>2, <1>5 DEF DispatchInv, Protocol, Halting, None, Taking
  <1>13. IpaCalls'
    BY <1>1, <1>2, <1>5 DEF DispatchInv, IpaCalls, None, Taking
  <1>14. Signals'
    BY <1>1, <1>2, <1>4, <1>5 DEF DispatchInv, Signals, Inner, None, Taking
  <1> QED BY <1>6, <1>7, <1>8, <1>9, <1>10, <1>11, <1>12, <1>13, <1>14 DEF DispatchInv

LEMMA PollPStep ==
    ASSUME DispatchInv, Poll("P")
    PROVE  DispatchInv'
  <1>1. /\ pc["P"] = "poll"
        /\ pc'["A"] = pc["A"]
        /\ pc'["P"] = "exec"
        /\ pc'["I"] = pc["I"]
        /\ UNCHANGED <<sem, proxy, list, nextId, frames, cur, made, exit, fault>>
    BY Types DEF DispatchInv, Loops, Callers, Poll, Free
  <1>2. /\ made["I"] /\ Signalled("I") => Signalled("I")'
    BY Types DEF DispatchInv, Signalled, Loops, Callers, None, Poll, Free
  <1>3. (Nested' <=> Nested) /\ (Deleting' <=> Deleting)
    BY <1>1, <1>2 DEF DispatchInv, Nested, Deleting, Outer, Inner, Last, FramesPlaced,
       Placed, InDispatch, None
  <1>4. Typed'
    BY DEF DispatchInv, Typed, TypeOK, Msgs, Loops, Callers, Kinds, None, PlacesOfA,
       PlacesOfP, Poll, Free
  <1>5. FramesPlaced'
    BY <1>1 DEF DispatchInv, FramesPlaced, Placed, InDispatch, Outer, Inner, Nested,
       Deleting, None
  <1>6. ListsOrdered'
    BY <1>1 DEF DispatchInv, ListsOrdered
  <1>7. ItersFirst'
    BY <1>1 DEF DispatchInv, ItersFirst, AtFirst, InDispatch, Outer, Inner
  <1>8. Waking'
    BY <1>1, <1>2 DEF DispatchInv, Waking, Awake, InDispatch, Outer, FramesPlaced,
       Placed, Nested, Deleting, None
  <1>9. Deletes'
    BY <1>1, <1>3 DEF DispatchInv, Deletes, Outer
  <1>10. Protocol'
    BY <1>1, <1>3 DEF DispatchInv, Protocol, Halting, None
  <1>11. IpaCalls'
    BY <1>1, <1>3 DEF DispatchInv, IpaCalls, None
  <1>12. Signals'
    BY <1>1, <1>3 DEF DispatchInv, Signals, Inner, None
  <1> QED BY <1>4, <1>5, <1>6, <1>7, <1>8, <1>9, <1>10, <1>11, <1>12 DEF DispatchInv

LEMMA ExecEndsIStep ==
    ASSUME DispatchInv, exit["I"], Exec("I")
    PROVE  DispatchInv'
  <1>1. /\ pc["I"] = "exec"
        /\ pc'["A"] = pc["A"]
        /\ pc'["P"] = pc["P"]
        /\ pc'["I"] = "off"
        /\ UNCHANGED <<sem, proxy, list, nextId, frames, cur>>
        /\ made'["P"] = made["P"]
        /\ made'["I"] = TRUE
        /\ UNCHANGED <<exit, fault>>
    BY Types DEF DispatchInv, Loops, Callers, Exec, Free
  <1>2. /\ made["P"] /\ Signalled("P") => Signalled("P")'
        /\ made["I"] /\ Signalled("I") => Signalled("I")'
    BY Types DEF DispatchInv, Signalled, Loops, Callers, None, Exec, Free
  <1>3. (Nested' <=> Nested) /\ (Deleting' <=> Deleting)
    BY <1>1, <1>2 DEF DispatchInv, Nested, Deleting, Outer, Inner, Last, FramesPlaced,
       Placed, InDispatch, None
  <1>4. Typed'
    BY DEF DispatchInv, Typed, TypeOK, Msgs, Loops, Callers, Kinds, None, PlacesOfA,
       PlacesOfP, Exec, Free
  <1>5. FramesPlaced'
    BY <1>1 DEF DispatchInv, FramesPlaced, Placed, InDispatch, Outer, Inner, Nested,
       Deleting, None
  <1>6. ListsOrdered'
    BY <1>1 DEF DispatchInv, ListsOrdered
  <1>7. ItersFirst'
    BY <1>1 DEF DispatchInv, ItersFirst, AtFirst, InDispatch, Outer, Inner
  <1>8. Waking'
    BY <1>1, <1>2 DEF DispatchInv, Waking, Awake, InDispatch, Outer, FramesPlaced,
       Placed, Nested, Deleting, None
  <1>9. Deletes'
    BY <1>1, <1>3 DEF DispatchInv, Deletes, Outer
  <1>10. Protocol'
    BY <1>1, <1>3 DEF DispatchInv, Protocol, Halting, None
  <1>11. IpaCalls'
    BY <1>1 DEF DispatchInv, IpaCalls
  <1>12. Signals'
    BY <1>1, <1>3 DEF DispatchInv, Signals, Inner, None
  <1> QED BY <1>4, <1>5, <1>6, <1>7, <1>8, <1>9, <1>10, <1>11, <1>12 DEF DispatchInv

LEMMA ExecIStep ==
    ASSUME DispatchInv, ~exit["I"], Exec("I")
    PROVE  DispatchInv'
  <1>1. frames' \in [Loops -> Seq(Frames)] /\ Entering("I", "P", None)
    BY EnterEffect, OtherLoop DEF Exec, FrameTypes, Loops, DispatchInv
  <1>2. /\ pc["I"] = "exec"
        /\ pc'["A"] = pc["A"]
        /\ pc'["P"] = pc["P"]
        /\ pc'["I"] = "dispatch"
        /\ UNCHANGED <<sem, proxy, list, nextId, cur>>
        /\ made'["P"] = made["P"]
        /\ made'["I"] = TRUE
        /\ UNCHANGED <<exit, fault>>
    BY Types DEF DispatchInv, Loops, Callers, Exec, Free
  <1>3. /\ made["P"] /\ Signalled("P") => Signalled("P")'
        /\ made["I"] /\ Signalled("I") => Signalled("I")'
    BY Types DEF DispatchInv, Signalled, Loops, Callers, None, Exec, Free
  <1>4. Len(frames["I"]) = 0
    BY <1>2 DEF DispatchInv, Nested, Deleting, Outer, Inner, Last, FramesPlaced, Placed,
       InDispatch, None
  <1>5. Len(frames["I"])' = 1 /\ Outer("I")'.type = None
    BY <1>1, <1>4 DEF Entering
  <1>6. (Nested' <=> Nested) /\ (Deleting' <=> Deleting)
    BY <1>1, <1>2, <1>3, <1>4, <1>5 DEF DispatchInv, Nested, Deleting, Outer, Inner,
       Last, FramesPlaced, Placed, InDispatch, None, Entering
  <1>7. Typed'
    BY <1>1 DEF DispatchInv, Typed, TypeOK, Msgs, Loops, Callers, Kinds, None,
       PlacesOfA, PlacesOfP, Exec, Free
  <1>8. FramesPlaced'
    BY <1>1, <1>2 DEF DispatchInv, FramesPlaced, Placed, InDispatch, Outer, Inner,
       Nested, Deleting, None, Entering
  <1>9. ListsOrdered'
    BY <1>2 DEF DispatchInv, ListsOrdered
  <1>10. ItersFirst'
    BY <1>1, <1>2, <1>4, <1>5 DEF DispatchInv, ItersFirst, AtFirst, InDispatch, Outer,
       Inner, Entering
  <1>11. Waking'
    BY <1>1, <1>2, <1>3, <1>4, <1>5 DEF DispatchInv, Waking, Awake, InDispatch, Outer,
       FramesPlaced, Placed, Nested, Deleting, None, Entering
  <1>12. Deletes'
    BY <1>1, <1>2, <1>6 DEF DispatchInv, Deletes, Outer, Entering
  <1>13. Protocol'
    BY <1>1, <1>2, <1>6 DEF DispatchInv, Protocol, Halting, None, Entering
  <1>14. IpaCalls'
    BY <1>1, <1>2, <1>6 DEF DispatchInv, IpaCalls, None, Entering
  <1>15. Signals'
    BY <1>1, <1>2, <1>6 DEF DispatchInv, Signals, Inner, None, Entering
  <1> QED BY <1>7, <1>8, <1>9, <1>10, <1>11, <1>12, <1>13, <1>14, <1>15 DEF DispatchInv

LEMMA TakeIStep ==
    ASSUME DispatchInv, Take("I")
    PROVE  DispatchInv'
  <1>1. TakeTyped /\ ListsOrdered' /\ Taking("I", "P")
    BY TakeEffect, OtherLoop DEF Loops, DispatchInv
  <1>2. /\ fault = None
        /\ pc["I"] = "dispatch"
        /\ cur["I"] = None
        /\ Last("I").iter # End
        /\ Last("I").type \in {None, TypeOf(cur'["I"])}
        /\ UNCHANGED <<pc, sem, proxy, nextId, made, exit>>
    BY Types DEF DispatchInv, Loops, Callers, Take, Dispatching, Frame, Last, Free
  <1>3. /\ made["P"] /\ Signalled("P") => Signalled("P")'
        /\ made["I"] /\ Signalled("I") => Signalled("I")'
    BY Types DEF DispatchInv, Signalled, Loops, Callers, None, Take, Dispatching, Frame,
       Last, Free
  <1>4. fault' # "assertion"
    BY <1>1 DEF TakeTyped, None
  <1>5. (Nested' <=> Nested) /\ (Deleting' <=> Deleting)
    BY <1>1, <1>2, <1>3, <1>4 DEF DispatchInv, Nested, Deleting, Outer, Inner, Last,
       FramesPlaced, Placed, InDispatch, None, Taking
  <1>6. Typed'
    BY <1>1 DEF DispatchInv, Typed, TypeOK, Msgs, Loops, Callers, Kinds, None,
       PlacesOfA, PlacesOfP, Take, Dispatching, Frame, Last, Free, TakeTyped
  <1>7. FramesPlaced'
    BY <1>1, <1>2 DEF DispatchInv, FramesPlaced, Placed, InDispatch, Outer, Inner,
       Nested, Deleting, None, Taking
  <1>8. ListsOrdered'
    BY <1>1 DEF DispatchInv, ListsOrdered
  <1>9. ItersFirst'
    BY <1>1, <1>2, <1>4 DEF DispatchInv, ItersFirst, AtFirst, InDispatch, Outer, Inner,
       FramesPlaced, Placed, None, Taking
  <1>10. Waking'
    BY <1>1, <1>2, <1>3, <1>4 DEF DispatchInv, Waking, Awake, InDispatch, Outer,
       FramesPlaced, Placed, Nested, Deleting, None, Taking
  <1>11. Deletes'
    BY <1>1, <1>2, <1>5 DEF DispatchInv, Deletes, Outer, Taking
  <1>12. Protocol'
    BY <1>1, <1>2, <1>5 DEF DispatchInv, Protocol, Halting, None, Taking
  <1>13. IpaCalls'
    BY <1>1, <1>2, <1>5 DEF DispatchInv, IpaCalls, None, Taking
  <1>14. Signals'
    BY <1>1, <1>2, <1>4, <1>5 DEF DispatchInv, Signals, Inner, None, Taking
  <1> QED BY <1>6, <1>7, <1>8, <1>9, <1>10, <1>11, <1>12, <1>13, <1>14 DEF DispatchInv

LEMMA PollIStep ==
    ASSUME DispatchInv, Poll("I")
    PROVE  DispatchInv'
  <1>1. /\ pc["I"] = "poll"
        /\ pc'["A"] = pc["A"]
        /\ pc'["P"] = pc["P"]
        /\ pc'["I"] = "exec"
        /\ UNCHANGED <<sem, proxy, list, nextId, frames, cur, made, exit, fault>>
    BY Types DEF DispatchInv, Loops, Callers, Poll, Free
  <1>2. /\ made["P"] /\ Signalled("P") => Signalled("P")'
    BY Types DEF DispatchInv, Signalled, Loops, Callers, None, Poll, Free
  <1>3. (Nested' <=> Nested) /\ (Deleting' <=> Deleting)
    BY <1>1, <1>2 DEF DispatchInv, Nested, Deleting, Outer, Inner, Last, FramesPlaced,
       Placed, InDispatch, None
  <1>4. Typed'
    BY DEF DispatchInv, Typed, TypeOK, Msgs, Loops, Callers, Kinds, None, PlacesOfA,
       PlacesOfP, Poll, Free
  <1>5. FramesPlaced'
    BY <1>1 DEF DispatchInv, FramesPlaced, Placed, InDispatch, Outer, Inner, Nested,
       Deleting, None
  <1>6. ListsOrdered'
    BY <1>1 DEF DispatchInv, ListsOrdered
  <1>7. ItersFirst'
    BY <1>1 DEF DispatchInv, ItersFirst, AtFirst, InDispatch, Outer, Inner
  <1>8. Waking'
    BY <1>1, <1>2 DEF DispatchInv, Waking, Awake, InDispatch, Outer, FramesPlaced,
       Placed, Nested, Deleting, None
  <1>9. Deletes'
    BY <1>1, <1>3 DEF DispatchInv, Deletes, Outer
  <1>10. Protocol'
    BY <1>1, <1>3 DEF DispatchInv, Protocol, Halting, None
  <1>11. IpaCalls'
    BY <1>1, <1>3 DEF DispatchInv, IpaCalls, None
  <1>12. Signals'
    BY <1>1, <1>3 DEF DispatchInv, Signals, Inner, None
  <1> QED BY <1>4, <1>5, <1>6, <1>7, <1>8, <1>9, <1>10, <1>11, <1>12 DEF DispatchInv

LEMMA FinishIStep ==
    ASSUME DispatchInv, Last("I").type = None, Finish("I")
    PROVE  DispatchInv'
  <1>1. frames' \in [Loops -> Seq(Frames)] /\ Dropping("I", "P")
    BY FinishEffect, OtherLoop DEF Loops, DispatchInv
  <1>2. /\ pc["I"] = "dispatch"
        /\ cur["I"] = None
        /\ Last("I").iter = End
        /\ pc'["A"] = pc["A"]
        /\ pc'["P"] = pc["P"]
        /\ pc'["I"] = "poll"
        /\ UNCHANGED <<sem, proxy, list, nextId, cur, made, exit, fault>>
    BY Types DEF DispatchInv, Loops, Callers, Finish, Dispatching, Frame, Last, None,
       Free
  <1>3. /\ made["P"] /\ Signalled("P") => Signalled("P")'
        /\ made["I"] /\ Signalled("I") => Signalled("I")'
    BY Types DEF DispatchInv, Signalled, Loops, Callers, None, Finish, Dispatching,
       Frame, Last, None, Free
  <1>4. Len(frames["I"]) = 1 /\ Outer("I").type = None /\ Outer("I").iter = End
    BY <1>2 DEF DispatchInv, Nested, Deleting, Outer, Inner, Last, FramesPlaced, Placed,
       InDispatch, None
  <1>5. Len(frames["I"])' = 0
    BY <1>1, <1>4 DEF Dropping
  <1>6. (Nested' <=> Nested) /\ (Deleting' <=> Deleting)
    BY <1>1, <1>2, <1>3, <1>4, <1>5 DEF DispatchInv, Nested, Deleting, Outer, Inner,
       Last, FramesPlaced, Placed, InDispatch, None, Dropping
  <1>7. Typed'
    BY <1>1 DEF DispatchInv, Typed, TypeOK, Msgs, Loops, Callers, Kinds, None,
       PlacesOfA, PlacesOfP, Finish, Dispatching, Frame, Last, None, Free
  <1>8. FramesPlaced'
    BY <1>1, <1>2, <1>4, <1>5 DEF DispatchInv, FramesPlaced, Placed, InDispatch, Outer,
       Inner, Nested, Deleting, None, Dropping
  <1>9. ListsOrdered'
    BY <1>2 DEF DispatchInv, ListsOrdered
  <1>10. ItersFirst'
    BY <1>1, <1>2, <1>4, <1>5 DEF DispatchInv, ItersFirst, AtFirst, InDispatch, Outer,
       Inner, Dropping
  <1>11. Waking'
    BY <1>1, <1>2, <1>3, <1>4, <1>5 DEF DispatchInv, Waking, Awake, InDispatch, Outer,
       FramesPlaced, Placed, Nested, Deleting, None, Dropping
  <1>12. Deletes'
    BY <1>1, <1>2, <1>6 DEF DispatchInv, Deletes, Outer, Dropping
  <1>13. Protocol'
    BY <1>1, <1>2, <1>6 DEF DispatchInv, Protocol, Halting, None, Dropping
  <1>14. IpaCalls'
    BY <1>1, <1>2, <1>6 DEF DispatchInv, IpaCalls, None, Dropping
  <1>15. Signals'
    BY <1>1, <1>2, <1>6 DEF DispatchInv, Signals, Inner, None, Dropping
  <1> QED BY <1>7, <1>8, <1>9, <1>10, <1>11, <1>12, <1>13, <1>14, <1>15 DEF DispatchInv

LEMMA FinishOuterStep ==
    ASSUME DispatchInv, Last("P").type = None, Finish("P")
    PROVE  DispatchInv'
  <1>1. frames' \in [Loops -> Seq(Frames)] /\ Dropping("P", "I")
    BY FinishEffect, OtherLoop DEF Loops, DispatchInv
  <1>2. /\ pc["P"] = "dispatch"
        /\ cur["P"] = None
        /\ Last("P").iter = End
        /\ pc'["A"] = pc["A"]
        /\ pc'["P"] = "poll"
        /\ pc'["I"] = pc["I"]
        /\ UNCHANGED <<sem, proxy, list, nextId, cur, made, exit, fault>>
    BY Types DEF DispatchInv, Loops, Callers, Finish, Dispatching, Frame, Last, None,
       Free
  <1>3. /\ made["P"] /\ Signalled("P") => Signalled("P")'
        /\ made["I"] /\ Signalled("I") => Signalled("I")'
    BY Types DEF DispatchInv, Signalled, Loops, Callers, None, Finish, Dispatching,
       Frame, Last, None, Free
  <1>4. Len(frames["P"]) = 1 /\ Outer("P").type = None /\ Outer("P").iter = End
    BY <1>2 DEF DispatchInv, Nested, Deleting, Outer, Inner, Last, FramesPlaced, Placed,
       InDispatch, None
  <1>5. Len(frames["P"])' = 0
    BY <1>1, <1>4 DEF Dropping
  <1>6. ~Nested /\ ~Nested' /\ ~Deleting'
    BY <1>4, <1>5 DEF Nested, Deleting, Outer, None
  <1>7. Typed'
    BY <1>1 DEF DispatchInv, Typed, TypeOK, Msgs, Loops, Callers, Kinds, None,
       PlacesOfA, PlacesOfP, Finish, Dispatching, Frame, Last, None, Free
  <1>8. FramesPlaced'
    BY <1>1, <1>2, <1>6 DEF DispatchInv, FramesPlaced, Placed, InDispatch, Outer, Inner,
       Nested, Deleting, None, Dropping
  <1>9. ListsOrdered'
    BY <1>2 DEF DispatchInv, ListsOrdered
  <1>10. ItersFirst'
    BY <1>1, <1>2, <1>4, <1>5 DEF DispatchInv, ItersFirst, AtFirst, InDispatch, Outer,
       Inner, Dropping
  <1>11. Waking'
    BY <1>1, <1>2, <1>3, <1>4, <1>5 DEF DispatchInv, Waking, Awake, InDispatch, Outer,
       FramesPlaced, Placed, Nested, Deleting, None, Dropping
  <1>12. Deletes'
    BY <1>1, <1>2, <1>6 DEF DispatchInv, Deletes, Outer, Dropping
  <1>13. Protocol'
    BY <1>1, <1>2, <1>6 DEF DispatchInv, Protocol, Halting, None, Dropping
  <1>14. IpaCalls'
    BY <1>1, <1>2, <1>6 DEF DispatchInv, IpaCalls, None, Dropping
  <1>15. Signals'
    BY <1>1, <1>2, <1>6 DEF DispatchInv, Signals, Inner, None, Dropping
  <1> QED BY <1>7, <1>8, <1>9, <1>10, <1>11, <1>12, <1>13, <1>14, <1>15 DEF DispatchInv

LEMMA FinishNestedStep ==
    ASSUME DispatchInv, Last("P").type = "InvokeMessage", Finish("P")
    PROVE  DispatchInv'
  <1>1. frames' \in [Loops -> Seq(Frames)] /\ Dropping("P", "I")
    BY FinishEffect, OtherLoop DEF Loops, DispatchInv
  <1>2. /\ pc["P"] = "dispatch"
        /\ cur["P"] = None
        /\ Last("P").iter = End
        /\ pc' = pc
        /\ sem'["A"] = TRUE
        /\ sem'["P"] = sem["P"]
        /\ proxy' = "Stopped"
        /\ UNCHANGED <<list, nextId, cur, made, exit, fault>>
    BY Types DEF DispatchInv, Loops, Callers, Finish, Dispatching, Frame, Last, None,
       Free
  <1>3. /\ made["P"] /\ Signalled("P") => Signalled("P")'
        /\ made["I"] /\ Signalled("I") => Signalled("I")'
    BY Types DEF DispatchInv, Signalled, Loops, Callers, None, Finish, Dispatching,
       Frame, Last, None, Free
  <1>4. Len(frames["P"]) = 2 /\ Inner("P").iter = End
    BY <1>2 DEF DispatchInv, Nested, Deleting, Outer, Inner, Last, FramesPlaced, Placed,
       InDispatch, None
  <1>5. pc["I"] = "off" /\ list["I"] = << >>
    BY <1>1, <1>2, <1>3, <1>4 DEF DispatchInv, IpaCalls, Nested
  <1>6. Outer("P").type = None
    BY <1>1, <1>2, <1>3, <1>4, <1>5 DEF DispatchInv, FramesPlaced, Nested
  <1>7. Len(frames["P"])' = 1 /\ Outer("P")' = Outer("P")
    BY <1>1, <1>4, <1>5, <1>6 DEF Dropping
  <1>8. Nested /\ ~Nested' /\ ~Deleting'
    BY <1>4, <1>5, <1>6, <1>7 DEF Nested, Deleting, Outer, None
  <1>9. Typed'
    BY <1>1 DEF DispatchInv, Typed, TypeOK, Msgs, Loops, Callers, Kinds, None,
       PlacesOfA, PlacesOfP, Finish, Dispatching, Frame, Last, None, Free
  <1>10. FramesPlaced'
    BY <1>1, <1>2, <1>8 DEF DispatchInv, FramesPlaced, Placed, InDispatch, Outer, Inner,
       Nested, Deleting, None, Dropping
  <1>11. ListsOrdered'
    BY <1>2 DEF DispatchInv, ListsOrdered
  <1>12. ItersFirst'
    BY <1>1, <1>2, <1>4, <1>5, <1>6, <1>7 DEF DispatchInv, ItersFirst, AtFirst,
       InDispatch, Outer, Inner, Dropping
  <1>13. Waking'
    BY <1>1, <1>2, <1>3, <1>4, <1>5, <1>6, <1>7 DEF DispatchInv, Waking, Awake,
       InDispatch, Outer, FramesPlaced, Placed, Nested, Deleting, None, Dropping
  <1>14. Deletes'
    BY <1>1, <1>2, <1>8 DEF DispatchInv, Deletes, Outer, Dropping
  <1>15. Protocol'
    BY <1>1, <1>2, <1>8 DEF DispatchInv, Protocol, Halting, None, Dropping
  <1>16. IpaCalls'
    BY <1>1, <1>2, <1>8 DEF DispatchInv, IpaCalls, None, Dropping
  <1>17. Signals'
    BY <1>1, <1>2, <1>4, <1>5, <1>6, <1>7, <1>8 DEF DispatchInv, Signals, Inner, None,
       Dropping
  <1> QED BY <1>9, <1>10, <1>11, <1>12, <1>13, <1>14, <1>15, <1>16, <1>17 DEF
     DispatchInv

LEMMA FinishDeletesStep ==
    ASSUME DispatchInv, Last("P").type = "DeferredDelete", Finish("P")
    PROVE  DispatchInv'
  <1>1. frames' \in [Loops -> Seq(Frames)] /\ Dropping("P", "I")
    BY FinishEffect, OtherLoop DEF Loops, DispatchInv
  <1>2. /\ pc["P"] = "dispatch"
        /\ cur["P"] = None
        /\ Last("P").iter = End
        /\ pc'["A"] = pc["A"]
        /\ pc'["P"] = "off"
        /\ pc'["I"] = pc["I"]
        /\ UNCHANGED <<sem, proxy, list, nextId, cur, made, exit, fault>>
    BY Types DEF DispatchInv, Loops, Callers, Finish, Dispatching, Frame, Last, None,
       Free
  <1>3. /\ made["P"] /\ Signalled("P") => Signalled("P")'
        /\ made["I"] /\ Signalled("I") => Signalled("I")'
    BY Types DEF DispatchInv, Signalled, Loops, Callers, None, Finish, Dispatching,
       Frame, Last, None, Free
  <1>4. Deleting /\ Outer("P").iter = End
    BY <1>2 DEF DispatchInv, Nested, Deleting, Outer, Inner, Last, FramesPlaced, Placed,
       InDispatch, None
  <1>5. Len(frames["P"]) = 1
    BY <1>1, <1>2, <1>3, <1>4 DEF DispatchInv, Deleting
  <1>6. Len(frames["P"])' = 0
    BY <1>1, <1>4, <1>5 DEF Dropping
  <1>7. ~Nested /\ ~Nested' /\ ~Deleting'
    BY <1>4, <1>5, <1>6 DEF Nested, Deleting, Outer, None
  <1>8. Typed'
    BY <1>1 DEF DispatchInv, Typed, TypeOK, Msgs, Loops, Callers, Kinds, None,
       PlacesOfA, PlacesOfP, Finish, Dispatching, Frame, Last, None, Free
  <1>9. FramesPlaced'
    BY <1>1, <1>2, <1>7 DEF DispatchInv, FramesPlaced, Placed, InDispatch, Outer, Inner,
       Nested, Deleting, None, Dropping
  <1>10. ListsOrdered'
    BY <1>2 DEF DispatchInv, ListsOrdered
  <1>11. ItersFirst'
    BY <1>1, <1>2, <1>4, <1>5, <1>6 DEF DispatchInv, ItersFirst, AtFirst, InDispatch,
       Outer, Inner, Dropping
  <1>12. Waking'
    BY <1>1, <1>2, <1>3, <1>4, <1>5, <1>6 DEF DispatchInv, Waking, Awake, InDispatch,
       Outer, FramesPlaced, Placed, Nested, Deleting, None, Dropping
  <1>13. Deletes'
    BY <1>1, <1>2, <1>4, <1>5, <1>6 DEF DispatchInv, Deletes, Outer, Dropping
  <1>14. Protocol'
    BY <1>1, <1>2, <1>4, <1>5, <1>6, <1>7 DEF DispatchInv, Protocol, Halting, None,
       Dropping
  <1>15. IpaCalls'
    BY <1>1, <1>2, <1>7 DEF DispatchInv, IpaCalls, None, Dropping
  <1>16. Signals'
    BY <1>1, <1>2, <1>7 DEF DispatchInv, Signals, Inner, None, Dropping
  <1> QED BY <1>8, <1>9, <1>10, <1>11, <1>12, <1>13, <1>14, <1>15, <1>16 DEF DispatchInv

LEMMA DeviceEventStep ==
    ASSUME DispatchInv, DeviceEvent
    PROVE  DispatchInv'
  <1>1. PostTyped /\ ListsOrdered' /\ Posting("I", "P", "run")
    BY PostEffect, OtherLoop DEF DeviceEvent, Callers, Loops, Kinds, DispatchInv
  <1>2. /\ pc["P"] = "poll"
        /\ proxy = "Running"
        /\ pc'["A"] = pc["A"]
        /\ pc'["P"] = "exec"
        /\ pc'["I"] = pc["I"]
        /\ UNCHANGED <<sem, proxy, frames, cur, made, exit, fault>>
    BY Types DEF DispatchInv, Loops, Callers, DeviceEvent, Free
  <1>3. /\ Signalled("I")'
    BY Types DEF DispatchInv, Signalled, Loops, Callers, None, DeviceEvent, Free, Post
  <1>4. ~Nested
    BY <1>2 DEF DispatchInv, Nested, FramesPlaced, Placed, InDispatch
  <1>5. (Nested' <=> Nested) /\ (Deleting' <=> Deleting)
    BY <1>1, <1>2, <1>3, <1>4 DEF DispatchInv, Nested, Deleting, Outer, Inner, Last,
       FramesPlaced, Placed, InDispatch, None, Posting
  <1>6. Typed'
    BY <1>1, DispatchAssumption DEF DispatchInv, Typed, TypeOK, Msgs, Loops, Callers,
       Kinds, None, PlacesOfA, PlacesOfP, DeviceEvent, Free, PostTyped
  <1>7. FramesPlaced'
    BY <1>2 DEF DispatchInv, FramesPlaced, Placed, InDispatch, Outer, Inner, Nested,
       Deleting, None
  <1>8. ListsOrdered'
    BY <1>1 DEF DispatchInv, ListsOrdered
  <1>9. ItersFirst'
    BY <1>1, <1>2 DEF DispatchInv, ItersFirst, AtFirst, InDispatch, Outer, Inner,
       Posting
  <1>10. Waking'
    BY <1>2, <1>3 DEF DispatchInv, Waking, Awake, InDispatch
  <1>11. Deletes'
    BY <1>1, <1>2, <1>5 DEF DispatchInv, Deletes, Outer, Posting
  <1>12. Protocol'
    BY <1>1, <1>2, <1>5 DEF DispatchInv, Protocol, Halting, None, Posting
  <1>13. IpaCalls'
    BY <1>1, <1>2, <1>4, <1>5 DEF DispatchInv, IpaCalls, None, Posting
  <1>14. Signals'
    BY <1>1, <1>2, <1>5 DEF DispatchInv, Signals, Inner, None, Posting
  <1> QED BY <1>6, <1>7, <1>8, <1>9, <1>10, <1>11, <1>12, <1>13, <1>14 DEF DispatchInv

LEMMA HandleStartStep ==
    ASSUME DispatchInv, HandleStart
    PROVE  DispatchInv'
  <1>1. PostTyped /\ ListsOrdered' /\ Posting("I", "P", "begin")
    BY PostEffect, OtherLoop DEF HandleStart, Callers, Loops, Kinds, DispatchInv
  <1>2. /\ pc["P"] = "dispatch"
        /\ cur["P"] = "start"
        /\ pc'["A"] = pc["A"]
        /\ pc'["P"] = "begun"
        /\ pc'["I"] = "exec"
        /\ sem' = sem
        /\ proxy' = "Running"
        /\ UNCHANGED <<frames, cur, made>>
        /\ exit'["P"] = exit["P"]
        /\ exit'["I"] = FALSE
        /\ fault' = fault
    BY Types DEF DispatchInv, Loops, Callers, HandleStart, Handling, Done, Free
  <1>3. /\ made["P"] /\ Signalled("P") => Signalled("P")'
        /\ Signalled("I")'
    BY Types DEF DispatchInv, Signalled, Loops, Callers, None, HandleStart, Handling,
       Done, Free, Post
  <1>4. pc["I"] = "off" /\ list["I"] = << >> /\ ~Nested /\ ~Deleting
    BY <1>2 DEF DispatchInv, Protocol, Signals, Halting
  <1>5. list["I"] = << >> => KindsIn(list["I"]) = {}
    BY NoKinds 
  <1>6. (Nested' <=> Nested) /\ (Deleting' <=> Deleting)
    BY <1>1, <1>2, <1>3, <1>4, <1>5 DEF DispatchInv, Nested, Deleting, Outer, Inner,
       Last, FramesPlaced, Placed, InDispatch, None, Posting
  <1>7. Typed'
    BY <1>1 DEF DispatchInv, Typed, TypeOK, Msgs, Loops, Callers, Kinds, None,
       PlacesOfA, PlacesOfP, HandleStart, Handling, Done, Free, PostTyped
  <1>8. FramesPlaced'
    BY <1>1, <1>2, <1>4, <1>5 DEF DispatchInv, FramesPlaced, Placed, InDispatch, Outer,
       Inner, Nested, Deleting, None, Posting
  <1>9. ListsOrdered'
    BY <1>1 DEF DispatchInv, ListsOrdered
  <1>10. ItersFirst'
    BY <1>1, <1>2 DEF DispatchInv, ItersFirst, AtFirst, InDispatch, Outer, Inner,
       Posting
  <1>11. Waking'
    BY <1>1, <1>2, <1>3, <1>4, <1>5 DEF DispatchInv, Waking, Awake, InDispatch, Outer,
       FramesPlaced, Placed, Nested, Deleting, None, Posting
  <1>12. Deletes'
    BY <1>1, <1>2, <1>6 DEF DispatchInv, Deletes, Outer, Posting
  <1>13. Protocol'
    BY <1>1, <1>2, <1>6 DEF DispatchInv, Protocol, Halting, None, Posting
  <1>14. IpaCalls'
    BY <1>1, <1>2, <1>4, <1>5, <1>6 DEF DispatchInv, IpaCalls, None, Posting
  <1>15. Signals'
    BY <1>1, <1>2, <1>6 DEF DispatchInv, Signals, Inner, None, Posting
  <1> QED BY <1>7, <1>8, <1>9, <1>10, <1>11, <1>12, <1>13, <1>14, <1>15 DEF DispatchInv

LEMMA StartedStep ==
    ASSUME DispatchInv, Started
    PROVE  DispatchInv'
  <1>1. /\ pc["P"] = "begun"
        /\ sem["P"]
        /\ pc'["A"] = pc["A"]
        /\ pc'["P"] = "dispatch"
        /\ pc'["I"] = pc["I"]
        /\ sem'["A"] = TRUE
        /\ sem'["P"] = FALSE
        /\ UNCHANGED <<proxy, list, nextId, frames>>
        /\ cur'["P"] = None
        /\ cur'["I"] = cur["I"]
        /\ UNCHANGED <<made, exit, fault>>
    BY Types DEF DispatchInv, Loops, Callers, Started, Done, Free
  <1>2. /\ made["P"] /\ Signalled("P") => Signalled("P")'
        /\ made["I"] /\ Signalled("I") => Signalled("I")'
    BY Types DEF DispatchInv, Signalled, Loops, Callers, None, Started, Done, Free
  <1>3. (Nested' <=> Nested) /\ (Deleting' <=> Deleting)
    BY <1>1, <1>2 DEF DispatchInv, Nested, Deleting, Outer, Inner, Last, FramesPlaced,
       Placed, InDispatch, None
  <1>4. Typed'
    BY DEF DispatchInv, Typed, TypeOK, Msgs, Loops, Callers, Kinds, None, PlacesOfA,
       PlacesOfP, Started, Done, Free
  <1>5. FramesPlaced'
    BY <1>1 DEF DispatchInv, FramesPlaced, Placed, InDispatch, Outer, Inner, Nested,
       Deleting, None
  <1>6. ListsOrdered'
    BY <1>1 DEF DispatchInv, ListsOrdered
  <1>7. ItersFirst'
    BY <1>1 DEF DispatchInv, ItersFirst, AtFirst, InDispatch, Outer, Inner
  <1>8. Waking'
    BY <1>1, <1>2 DEF DispatchInv, Waking, Awake, InDispatch, Outer, FramesPlaced,
       Placed, Nested, Deleting, None
  <1>9. Deletes'
    BY <1>1, <1>3 DEF DispatchInv, Deletes, Outer
  <1>10. Protocol'
    BY <1>1, <1>3 DEF DispatchInv, Protocol, Halting, None
  <1>11. IpaCalls'
    BY <1>1, <1>3 DEF DispatchInv, IpaCalls, None
  <1>12. Signals'
    BY <1>1, <1>3 DEF DispatchInv, Signals, Inner, None
  <1> QED BY <1>4, <1>5, <1>6, <1>7, <1>8, <1>9, <1>10, <1>11, <1>12 DEF DispatchInv

LEMMA HandleWorkRunsStep ==
    ASSUME DispatchInv, proxy = "Running", HandleWork
    PROVE  DispatchInv'
  <1>1. PostTyped /\ ListsOrdered' /\ Posting("I", "P", "run")
    BY PostEffect, OtherLoop DEF HandleWork, Callers, Loops, Kinds, DispatchInv
  <1>2. /\ pc["P"] = "dispatch"
        /\ cur["P"] = "work"
        /\ UNCHANGED <<pc, sem, proxy, frames>>
        /\ cur'["P"] = None
        /\ cur'["I"] = cur["I"]
        /\ UNCHANGED <<made, exit, fault>>
    BY Types DEF DispatchInv, Loops, Callers, HandleWork, Handling, Done, Free
  <1>3. /\ made["P"] /\ Signalled("P") => Signalled("P")'
        /\ Signalled("I")'
    BY Types DEF DispatchInv, Signalled, Loops, Callers, None, HandleWork, Handling,
       Done, Free, Post
  <1>4. ~Nested
    BY <1>2 DEF DispatchInv, Protocol, Halting
  <1>5. (Nested' <=> Nested) /\ (Deleting' <=> Deleting)
    BY <1>1, <1>2, <1>3, <1>4 DEF DispatchInv, Nested, Deleting, Outer, Inner, Last,
       FramesPlaced, Placed, InDispatch, None, Posting
  <1>6. Typed'
    BY <1>1 DEF DispatchInv, Typed, TypeOK, Msgs, Loops, Callers, Kinds, None,
       PlacesOfA, PlacesOfP, HandleWork, Handling, Done, Free, PostTyped
  <1>7. FramesPlaced'
    BY <1>2 DEF DispatchInv, FramesPlaced, Placed, InDispatch, Outer, Inner, Nested,
       Deleting, None
  <1>8. ListsOrdered'
    BY <1>1 DEF DispatchInv, ListsOrdered
  <1>9. ItersFirst'
    BY <1>1, <1>2 DEF DispatchInv, ItersFirst, AtFirst, InDispatch, Outer, Inner,
       Posting
  <1>10. Waking'
    BY <1>1, <1>2, <1>3, <1>4 DEF DispatchInv, Waking, Awake, InDispatch, Outer,
       FramesPlaced, Placed, Nested, Deleting, None, Posting
  <1>11. Deletes'
    BY <1>1, <1>2, <1>5 DEF DispatchInv, Deletes, Outer, Posting
  <1>12. Protocol'
    BY <1>1, <1>2, <1>5 DEF DispatchInv, Protocol, Halting, None, Posting
  <1>13. IpaCalls'
    BY <1>1, <1>2, <1>4, <1>5 DEF DispatchInv, IpaCalls, None, Posting
  <1>14. Signals'
    BY <1>1, <1>2, <1>5 DEF DispatchInv, Signals, Inner, None, Posting
  <1> QED BY <1>6, <1>7, <1>8, <1>9, <1>10, <1>11, <1>12, <1>13, <1>14 DEF DispatchInv

LEMMA HandleWorkStoppedStep ==
    ASSUME DispatchInv, proxy # "Running", HandleWork
    PROVE  DispatchInv'
  <1>1. /\ pc["P"] = "dispatch"
        /\ cur["P"] = "work"
        /\ UNCHANGED <<pc, sem, proxy, list, nextId, frames>>
        /\ cur'["P"] = None
        /\ cur'["I"] = cur["I"]
        /\ UNCHANGED <<made, exit, fault>>
    BY Types DEF DispatchInv, Loops, Callers, HandleWork, Handling, Done, Free
  <1>2. /\ made["P"] /\ Signalled("P") => Signalled("P")'
        /\ made["I"] /\ Signalled("I") => Signalled("I")'
    BY Types DEF DispatchInv, Signalled, Loops, Callers, None, HandleWork, Handling,
       Done, Free
  <1>3. (Nested' <=> Nested) /\ (Deleting' <=> Deleting)
    BY <1>1, <1>2 DEF DispatchInv, Nested, Deleting, Outer, Inner, Last, FramesPlaced,
       Placed, InDispatch, None
  <1>4. Typed'
    BY DEF DispatchInv, Typed, TypeOK, Msgs, Loops, Callers, Kinds, None, PlacesOfA,
       PlacesOfP, HandleWork, Handling, Done, Free
  <1>5. FramesPlaced'
    BY <1>1 DEF DispatchInv, FramesPlaced, Placed, InDispatch, Outer, Inner, Nested,
       Deleting, None
  <1>6. ListsOrdered'
    BY <1>1 DEF DispatchInv, ListsOrdered
  <1>7. ItersFirst'
    BY <1>1 DEF DispatchInv, ItersFirst, AtFirst, InDispatch, Outer, Inner
  <1>8. Waking'
    BY <1>1, <1>2 DEF DispatchInv, Waking, Awake, InDispatch, Outer, FramesPlaced,
       Placed, Nested, Deleting, None
  <1>9. Deletes'
    BY <1>1, <1>3 DEF DispatchInv, Deletes, Outer
  <1>10. Protocol'
    BY <1>1, <1>3 DEF DispatchInv, Protocol, Halting, None
  <1>11. IpaCalls'
    BY <1>1, <1>3 DEF DispatchInv, IpaCalls, None
  <1>12. Signals'
    BY <1>1, <1>3 DEF DispatchInv, Signals, Inner, None
  <1> QED BY <1>4, <1>5, <1>6, <1>7, <1>8, <1>9, <1>10, <1>11, <1>12 DEF DispatchInv

LEMMA HandleSignalStep ==
    ASSUME DispatchInv, HandleSignal
    PROVE  DispatchInv'
  <1>1. /\ pc["P"] = "dispatch"
        /\ cur["P"] = "signal"
        /\ UNCHANGED <<pc, sem, proxy, list, nextId, frames>>
        /\ cur'["P"] = None
        /\ cur'["I"] = cur["I"]
        /\ UNCHANGED <<made, exit>>
        /\ fault' = IF proxy = "Stopped" THEN "assertion" ELSE fault
    BY Types DEF DispatchInv, Loops, Callers, HandleSignal, Handling, Done, Free
  <1>2. /\ made["P"] /\ Signalled("P") => Signalled("P")'
        /\ made["I"] /\ Signalled("I") => Signalled("I")'
    BY Types DEF DispatchInv, Signalled, Loops, Callers, None, HandleSignal, Handling,
       Done, Free
  <1>3. (Nested' <=> Nested) /\ (Deleting' <=> Deleting)
    BY <1>1, <1>2 DEF DispatchInv, Nested, Deleting, Outer, Inner, Last, FramesPlaced,
       Placed, InDispatch, None
  <1>4. Typed'
    BY DEF DispatchInv, Typed, TypeOK, Msgs, Loops, Callers, Kinds, None, PlacesOfA,
       PlacesOfP, HandleSignal, Handling, Done, Free
  <1>5. FramesPlaced'
    BY <1>1 DEF DispatchInv, FramesPlaced, Placed, InDispatch, Outer, Inner, Nested,
       Deleting, None
  <1>6. ListsOrdered'
    BY <1>1 DEF DispatchInv, ListsOrdered
  <1>7. ItersFirst'
    BY <1>1 DEF DispatchInv, ItersFirst, AtFirst, InDispatch, Outer, Inner,
       FramesPlaced, Placed, None
  <1>8. Waking'
    BY <1>1, <1>2 DEF DispatchInv, Waking, Awake, InDispatch, Outer, FramesPlaced,
       Placed, Nested, Deleting, None
  <1>9. Deletes'
    BY <1>1, <1>3 DEF DispatchInv, Deletes, Outer
  <1>10. Protocol'
    BY <1>1, <1>3 DEF DispatchInv, Protocol, Halting, None
  <1>11. IpaCalls'
    BY <1>1, <1>3 DEF DispatchInv, IpaCalls, None
  <1>12. Signals'
    BY <1>1, <1>3 DEF DispatchInv, Signals, Inner, None
  <1> QED BY <1>4, <1>5, <1>6, <1>7, <1>8, <1>9, <1>10, <1>11, <1>12 DEF DispatchInv

LEMMA HandleDeleteStep ==
    ASSUME DispatchInv, HandleDelete
    PROVE  DispatchInv'
  <1>1. /\ pc["P"] = "dispatch"
        /\ cur["P"] = "delete"
        /\ UNCHANGED <<pc, sem, proxy, list, nextId, frames>>
        /\ cur'["P"] = None
        /\ cur'["I"] = cur["I"]
        /\ UNCHANGED <<made, exit, fault>>
    BY Types DEF DispatchInv, Loops, Callers, HandleDelete, Handling, Done, Free
  <1>2. /\ made["P"] /\ Signalled("P") => Signalled("P")'
        /\ made["I"] /\ Signalled("I") => Signalled("I")'
    BY Types DEF DispatchInv, Signalled, Loops, Callers, None, HandleDelete, Handling,
       Done, Free
  <1>3. (Nested' <=> Nested) /\ (Deleting' <=> Deleting)
    BY <1>1, <1>2 DEF DispatchInv, Nested, Deleting, Outer, Inner, Last, FramesPlaced,
       Placed, InDispatch, None
  <1>4. Typed'
    BY DEF DispatchInv, Typed, TypeOK, Msgs, Loops, Callers, Kinds, None, PlacesOfA,
       PlacesOfP, HandleDelete, Handling, Done, Free
  <1>5. FramesPlaced'
    BY <1>1 DEF DispatchInv, FramesPlaced, Placed, InDispatch, Outer, Inner, Nested,
       Deleting, None
  <1>6. ListsOrdered'
    BY <1>1 DEF DispatchInv, ListsOrdered
  <1>7. ItersFirst'
    BY <1>1 DEF DispatchInv, ItersFirst, AtFirst, InDispatch, Outer, Inner
  <1>8. Waking'
    BY <1>1, <1>2 DEF DispatchInv, Waking, Awake, InDispatch, Outer, FramesPlaced,
       Placed, Nested, Deleting, None
  <1>9. Deletes'
    BY <1>1, <1>3 DEF DispatchInv, Deletes, Outer
  <1>10. Protocol'
    BY <1>1, <1>3 DEF DispatchInv, Protocol, Halting, None
  <1>11. IpaCalls'
    BY <1>1, <1>3 DEF DispatchInv, IpaCalls, None
  <1>12. Signals'
    BY <1>1, <1>3 DEF DispatchInv, Signals, Inner, None
  <1> QED BY <1>4, <1>5, <1>6, <1>7, <1>8, <1>9, <1>10, <1>11, <1>12 DEF DispatchInv

LEMMA HandleStopStep ==
    ASSUME DispatchInv, HandleStop
    PROVE  DispatchInv'
  <1>1. PostTyped /\ ListsOrdered' /\ Posting("I", "P", "quit")
    BY PostEffect, OtherLoop DEF HandleStop, Callers, Loops, Kinds, DispatchInv
  <1>2. /\ pc["P"] = "dispatch"
        /\ cur["P"] = "stop"
        /\ proxy = "Running"
        /\ pc'["A"] = pc["A"]
        /\ pc'["P"] = "quitting"
        /\ pc'["I"] = pc["I"]
        /\ sem' = sem
        /\ proxy' = "Stopping"
        /\ UNCHANGED <<frames, cur, made, exit, fault>>
    BY Types DEF DispatchInv, Loops, Callers, HandleStop, Handling, Done, Free
  <1>3. /\ made["P"] /\ Signalled("P") => Signalled("P")'
        /\ Signalled("I")'
    BY Types DEF DispatchInv, Signalled, Loops, Callers, None, HandleStop, Handling,
       Done, Free, Post
  <1>4. ~Nested /\ ~Deleting
    BY <1>2 DEF DispatchInv, Protocol
  <1>5. (Nested' <=> Nested) /\ (Deleting' <=> Deleting)
    BY <1>1, <1>2, <1>3, <1>4 DEF DispatchInv, Nested, Deleting, Outer, Inner, Last,
       FramesPlaced, Placed, InDispatch, None, Posting
  <1>6. Typed'
    BY <1>1 DEF DispatchInv, Typed, TypeOK, Msgs, Loops, Callers, Kinds, None,
       PlacesOfA, PlacesOfP, HandleStop, Handling, Done, Free, PostTyped
  <1>7. FramesPlaced'
    BY <1>1, <1>2, <1>4 DEF DispatchInv, FramesPlaced, Placed, InDispatch, Outer, Inner,
       Nested, Deleting, None, Posting
  <1>8. ListsOrdered'
    BY <1>1 DEF DispatchInv, ListsOrdered
  <1>9. ItersFirst'
    BY <1>1, <1>2 DEF DispatchInv, ItersFirst, AtFirst, InDispatch, Outer, Inner,
       Posting
  <1>10. Waking'
    BY <1>1, <1>2, <1>3, <1>4 DEF DispatchInv, Waking, Awake, InDispatch, Outer,
       FramesPlaced, Placed, Nested, Deleting, None, Posting
  <1>11. Deletes'
    BY <1>1, <1>2, <1>5 DEF DispatchInv, Deletes, Outer, Posting
  <1>12. Protocol'
    BY <1>1, <1>2, <1>5 DEF DispatchInv, Protocol, Halting, None, Posting
  <1>13. IpaCalls'
    BY <1>1, <1>2, <1>4, <1>5 DEF DispatchInv, IpaCalls, None, Posting
  <1>14. Signals'
    BY <1>1, <1>2, <1>5 DEF DispatchInv, Signals, Inner, None, Posting
  <1> QED BY <1>6, <1>7, <1>8, <1>9, <1>10, <1>11, <1>12, <1>13, <1>14 DEF DispatchInv

LEMMA StopThreadStep ==
    ASSUME DispatchInv, StopThread
    PROVE  DispatchInv'
  <1>1. /\ pc["P"] = "quitting"
        /\ sem["P"]
        /\ pc'["A"] = pc["A"]
        /\ pc'["P"] = "waiting"
        /\ pc'["I"] = pc["I"]
        /\ sem'["A"] = sem["A"]
        /\ sem'["P"] = FALSE
        /\ UNCHANGED <<proxy, list, nextId, frames, cur, made>>
        /\ exit'["P"] = exit["P"]
        /\ exit'["I"] = TRUE
        /\ fault' = fault
    BY Types DEF DispatchInv, Loops, Callers, StopThread, Exit, Free
  <1>2. /\ made["P"] /\ Signalled("P") => Signalled("P")'
        /\ Signalled("I")'
    BY Types DEF DispatchInv, Signalled, Loops, Callers, None, StopThread, Exit, Free
  <1>3. (Nested' <=> Nested) /\ (Deleting' <=> Deleting)
    BY <1>1, <1>2 DEF DispatchInv, Nested, Deleting, Outer, Inner, Last, FramesPlaced,
       Placed, InDispatch, None
  <1>4. Typed'
    BY DEF DispatchInv, Typed, TypeOK, Msgs, Loops, Callers, Kinds, None, PlacesOfA,
       PlacesOfP, StopThread, Exit, Free
  <1>5. FramesPlaced'
    BY <1>1 DEF DispatchInv, FramesPlaced, Placed, InDispatch, Outer, Inner, Nested,
       Deleting, None
  <1>6. ListsOrdered'
    BY <1>1 DEF DispatchInv, ListsOrdered
  <1>7. ItersFirst'
    BY <1>1 DEF DispatchInv, ItersFirst, AtFirst, InDispatch, Outer, Inner
  <1>8. Waking'
    BY <1>1, <1>2 DEF DispatchInv, Waking, Awake, InDispatch, Outer, FramesPlaced,
       Placed, Nested, Deleting, None
  <1>9. Deletes'
    BY <1>1, <1>3 DEF DispatchInv, Deletes, Outer
  <1>10. Protocol'
    BY <1>1, <1>3 DEF DispatchInv, Protocol, Halting, None
  <1>11. IpaCalls'
    BY <1>1, <1>3 DEF DispatchInv, IpaCalls, None
  <1>12. Signals'
    BY <1>1, <1>3 DEF DispatchInv, Signals, Inner, None
  <1> QED BY <1>4, <1>5, <1>6, <1>7, <1>8, <1>9, <1>10, <1>11, <1>12 DEF DispatchInv

LEMMA ThreadStoppedStep ==
    ASSUME DispatchInv, ThreadStopped
    PROVE  DispatchInv'
  <1>1. frames' \in [Loops -> Seq(Frames)] /\ Entering("P", "I", "InvokeMessage")
    BY EnterEffect, OtherLoop DEF ThreadStopped, FrameTypes, Loops, DispatchInv
  <1>2. /\ pc["P"] = "waiting"
        /\ pc["I"] = "off"
        /\ pc'["A"] = pc["A"]
        /\ pc'["P"] = "dispatch"
        /\ pc'["I"] = pc["I"]
        /\ UNCHANGED <<sem, proxy, list, nextId>>
        /\ cur'["P"] = None
        /\ cur'["I"] = cur["I"]
        /\ UNCHANGED <<made, exit, fault>>
    BY Types DEF DispatchInv, Loops, Callers, ThreadStopped, Done, Free
  <1>3. /\ made["P"] /\ Signalled("P") => Signalled("P")'
        /\ made["I"] /\ Signalled("I") => Signalled("I")'
    BY Types DEF DispatchInv, Signalled, Loops, Callers, None, ThreadStopped, Done, Free
  <1>4. Len(frames["P"]) = 1
    BY <1>2 DEF DispatchInv, Nested, Deleting, Outer, Inner, Last, FramesPlaced, Placed,
       InDispatch, None
  <1>5. Len(frames["P"])' = 2
    BY <1>1, <1>4 DEF Entering
  <1>6. list["P"] = << >> => KindsIn(list["P"]) = {}
    BY NoKinds 
  <1>7. ~Nested /\ Nested' /\ ~Deleting'
    BY <1>4, <1>5, <1>6 DEF Nested, Deleting, Outer, None
  <1>8. Typed'
    BY <1>1 DEF DispatchInv, Typed, TypeOK, Msgs, Loops, Callers, Kinds, None,
       PlacesOfA, PlacesOfP, ThreadStopped, Done, Free
  <1>9. FramesPlaced'
    BY <1>1, <1>2 DEF DispatchInv, FramesPlaced, Placed, InDispatch, Outer, Inner,
       Nested, Deleting, None, Entering
  <1>10. ListsOrdered'
    BY <1>2 DEF DispatchInv, ListsOrdered
  <1>11. ItersFirst'
    BY <1>1, <1>2, <1>4, <1>5, <1>6 DEF DispatchInv, ItersFirst, AtFirst, InDispatch,
       Outer, Inner, Entering
  <1>12. Waking'
    BY <1>1, <1>2, <1>3, <1>4, <1>5, <1>6 DEF DispatchInv, Waking, Awake, InDispatch,
       Outer, FramesPlaced, Placed, Nested, Deleting, None, Entering
  <1>13. Deletes'
    BY <1>1, <1>2, <1>7 DEF DispatchInv, Deletes, Outer, Entering
  <1>14. Protocol'
    BY <1>1, <1>2, <1>7 DEF DispatchInv, Protocol, Halting, None, Entering
  <1>15. IpaCalls'
    BY <1>2 DEF DispatchInv, IpaCalls
  <1>16. Signals'
    BY <1>1, <1>2, <1>4, <1>5, <1>6 DEF DispatchInv, Signals, Inner, None, Entering
  <1> QED BY <1>8, <1>9, <1>10, <1>11, <1>12, <1>13, <1>14, <1>15, <1>16 DEF DispatchInv

LEMMA CleanupStep ==
    ASSUME DispatchInv, Cleanup
    PROVE  DispatchInv'
  <1>1. PostTyped /\ ListsOrdered' /\ Posting("P", "I", "delete")
    BY PostEffect, OtherLoop DEF Cleanup, Callers, Loops, Kinds, DispatchInv
  <1>2. /\ pc["P"] = "cleanup"
        /\ pc'["A"] = pc["A"]
        /\ pc'["P"] = "deleting"
        /\ pc'["I"] = pc["I"]
        /\ UNCHANGED <<sem, proxy, frames, cur, made, exit, fault>>
    BY Types DEF DispatchInv, Loops, Callers, Cleanup, Free
  <1>3. /\ Signalled("P")'
        /\ made["I"] /\ Signalled("I") => Signalled("I")'
    BY Types DEF DispatchInv, Signalled, Loops, Callers, None, Cleanup, Free, Post
  <1>4. ~Deleting
    BY <1>2 DEF DispatchInv, FramesPlaced
  <1>5. (Nested' <=> Nested) /\ (Deleting' <=> Deleting)
    BY <1>1, <1>2, <1>3, <1>4 DEF DispatchInv, Nested, Deleting, Outer, Inner, Last,
       FramesPlaced, Placed, InDispatch, None, Posting
  <1>6. Typed'
    BY <1>1 DEF DispatchInv, Typed, TypeOK, Msgs, Loops, Callers, Kinds, None,
       PlacesOfA, PlacesOfP, Cleanup, Free, PostTyped
  <1>7. FramesPlaced'
    BY <1>2 DEF DispatchInv, FramesPlaced, Placed, InDispatch, Outer, Inner, Nested,
       Deleting, None
  <1>8. ListsOrdered'
    BY <1>1 DEF DispatchInv, ListsOrdered
  <1>9. ItersFirst'
    BY <1>1, <1>2 DEF DispatchInv, ItersFirst, AtFirst, InDispatch, Outer, Inner,
       Posting
  <1>10. Waking'
    BY <1>1, <1>2, <1>3, <1>4 DEF DispatchInv, Waking, Awake, InDispatch, Outer,
       FramesPlaced, Placed, Nested, Deleting, None, Posting
  <1>11. Deletes'
    BY <1>1, <1>2, <1>4, <1>5 DEF DispatchInv, Deletes, Outer, Posting
  <1>12. Protocol'
    BY <1>1, <1>2, <1>5 DEF DispatchInv, Protocol, Halting, None, Posting
  <1>13. IpaCalls'
    BY <1>1, <1>2, <1>5 DEF DispatchInv, IpaCalls, None, Posting
  <1>14. Signals'
    BY <1>1, <1>2, <1>5 DEF DispatchInv, Signals, Inner, None, Posting
  <1> QED BY <1>6, <1>7, <1>8, <1>9, <1>10, <1>11, <1>12, <1>13, <1>14 DEF DispatchInv

LEMMA DeleteCamerasStep ==
    ASSUME DispatchInv, DeleteCameras
    PROVE  DispatchInv'
  <1>1. frames' \in [Loops -> Seq(Frames)] /\ Entering("P", "I", "DeferredDelete")
    BY EnterEffect, OtherLoop DEF DeleteCameras, FrameTypes, Loops, DispatchInv
  <1>2. /\ pc["P"] = "deleting"
        /\ pc'["A"] = pc["A"]
        /\ pc'["P"] = "dispatch"
        /\ pc'["I"] = pc["I"]
        /\ UNCHANGED <<sem, proxy, list, nextId, cur, made, exit, fault>>
    BY Types DEF DispatchInv, Loops, Callers, DeleteCameras, Free
  <1>3. /\ made["P"] /\ Signalled("P") => Signalled("P")'
        /\ made["I"] /\ Signalled("I") => Signalled("I")'
    BY Types DEF DispatchInv, Signalled, Loops, Callers, None, DeleteCameras, Free
  <1>4. Len(frames["P"]) = 0
    BY <1>2 DEF DispatchInv, Nested, Deleting, Outer, Inner, Last, FramesPlaced, Placed,
       InDispatch, None
  <1>5. Len(frames["P"])' = 1 /\ Outer("P")'.type = "DeferredDelete"
    BY <1>1, <1>4 DEF Entering
  <1>6. list["P"] = << >> => KindsIn(list["P"]) = {}
    BY NoKinds 
  <1>7. ~Nested /\ ~Nested' /\ Deleting'
    BY <1>4, <1>5, <1>6 DEF Nested, Deleting, Outer, None
  <1>8. Typed'
    BY <1>1 DEF DispatchInv, Typed, TypeOK, Msgs, Loops, Callers, Kinds, None,
       PlacesOfA, PlacesOfP, DeleteCameras, Free
  <1>9. FramesPlaced'
    BY <1>1, <1>2 DEF DispatchInv, FramesPlaced, Placed, InDispatch, Outer, Inner,
       Nested, Deleting, None, Entering
  <1>10. ListsOrdered'
    BY <1>2 DEF DispatchInv, ListsOrdered
  <1>11. ItersFirst'
    BY <1>1, <1>2, <1>4, <1>5, <1>6 DEF DispatchInv, ItersFirst, AtFirst, InDispatch,
       Outer, Inner, Entering
  <1>12. Waking'
    BY <1>1, <1>2, <1>3, <1>4, <1>5, <1>6 DEF DispatchInv, Waking, Awake, InDispatch,
       Outer, FramesPlaced, Placed, Nested, Deleting, None, Entering
  <1>13. Deletes'
    BY <1>1, <1>2, <1>4, <1>5, <1>6 DEF DispatchInv, Deletes, Outer, Entering
  <1>14. Protocol'
    BY <1>1, <1>2, <1>7 DEF DispatchInv, Protocol, Halting, None, Entering
  <1>15. IpaCalls'
    BY <1>1, <1>2, <1>7 DEF DispatchInv, IpaCalls, None, Entering
  <1>16. Signals'
    BY <1>1, <1>2, <1>7 DEF DispatchInv, Signals, Inner, None, Entering
  <1> QED BY <1>8, <1>9, <1>10, <1>11, <1>12, <1>13, <1>14, <1>15, <1>16 DEF DispatchInv

LEMMA HandleBlockingStep ==
    ASSUME DispatchInv, NEW kind \in Blocking, HandleBlocking(kind)
    PROVE  DispatchInv'
  <1>1. /\ pc["I"] = "dispatch"
        /\ cur["I"] = kind
        /\ pc' = pc
        /\ sem'["A"] = sem["A"]
        /\ sem'["P"] = TRUE
        /\ UNCHANGED <<proxy, list, nextId, frames>>
        /\ cur'["P"] = cur["P"]
        /\ cur'["I"] = None
        /\ UNCHANGED <<made, exit, fault>>
    BY Types DEF DispatchInv, Loops, Callers, HandleBlocking, Handling, Done, Free
  <1>2. /\ made["P"] /\ Signalled("P") => Signalled("P")'
        /\ made["I"] /\ Signalled("I") => Signalled("I")'
    BY Types DEF DispatchInv, Signalled, Loops, Callers, None, HandleBlocking, Handling,
       Done, Free
  <1>3. list["I"] = << >> => KindsIn(list["I"]) = {}
    BY NoKinds 
  <1>4. kind = "begin" \/ kind = "quit"
    BY DEF Blocking
  <1>5. (Nested' <=> Nested) /\ (Deleting' <=> Deleting)
    BY <1>1, <1>2, <1>3, <1>4 DEF DispatchInv, Nested, Deleting, Outer, Inner, Last,
       FramesPlaced, Placed, InDispatch, None
  <1>6. Typed'
    BY DEF DispatchInv, Typed, TypeOK, Msgs, Loops, Callers, Kinds, None, PlacesOfA,
       PlacesOfP, HandleBlocking, Handling, Done, Free
  <1>7. FramesPlaced'
    BY <1>1 DEF DispatchInv, FramesPlaced, Placed, InDispatch, Outer, Inner, Nested,
       Deleting, None
  <1>8. ListsOrdered'
    BY <1>1 DEF DispatchInv, ListsOrdered
  <1>9. ItersFirst'
    BY <1>1 DEF DispatchInv, ItersFirst, AtFirst, InDispatch, Outer, Inner
  <1>10. Waking'
    BY <1>1, <1>2, <1>3, <1>4 DEF DispatchInv, Waking, Awake, InDispatch, Outer,
       FramesPlaced, Placed, Nested, Deleting, None
  <1>11. Deletes'
    BY <1>1, <1>5 DEF DispatchInv, Deletes, Outer
  <1>12. Protocol'
    BY <1>1, <1>5 DEF DispatchInv, Protocol, Halting, None
  <1>13. IpaCalls'
    BY <1>1, <1>3, <1>4, <1>5 DEF DispatchInv, IpaCalls, None
  <1>14. Signals'
    BY <1>1, <1>5 DEF DispatchInv, Signals, Inner, None
  <1> QED BY <1>6, <1>7, <1>8, <1>9, <1>10, <1>11, <1>12, <1>13, <1>14 DEF DispatchInv

LEMMA HandleRunStep ==
    ASSUME DispatchInv, HandleRun
    PROVE  DispatchInv'
  <1>1. PostTyped /\ ListsOrdered' /\ Posting("P", "I", "signal")
    BY PostEffect, OtherLoop DEF HandleRun, Callers, Loops, Kinds, DispatchInv
  <1>2. /\ pc["I"] = "dispatch"
        /\ cur["I"] = "run"
        /\ UNCHANGED <<pc, sem, proxy, frames>>
        /\ cur'["P"] = cur["P"]
        /\ cur'["I"] = None
        /\ UNCHANGED <<made, exit, fault>>
    BY Types DEF DispatchInv, Loops, Callers, HandleRun, Handling, Done, Free
  <1>3. /\ Signalled("P")'
        /\ made["I"] /\ Signalled("I") => Signalled("I")'
    BY Types DEF DispatchInv, Signalled, Loops, Callers, None, HandleRun, Handling,
       Done, Free, Post
  <1>4. ~Nested
    BY <1>2 DEF DispatchInv, IpaCalls
  <1>5. (Nested' <=> Nested) /\ (Deleting' <=> Deleting)
    BY <1>1, <1>2, <1>3, <1>4 DEF DispatchInv, Nested, Deleting, Outer, Inner, Last,
       FramesPlaced, Placed, InDispatch, None, Posting
  <1>6. Typed'
    BY <1>1 DEF DispatchInv, Typed, TypeOK, Msgs, Loops, Callers, Kinds, None,
       PlacesOfA, PlacesOfP, HandleRun, Handling, Done, Free, PostTyped
  <1>7. FramesPlaced'
    BY <1>2 DEF DispatchInv, FramesPlaced, Placed, InDispatch, Outer, Inner, Nested,
       Deleting, None
  <1>8. ListsOrdered'
    BY <1>1 DEF DispatchInv, ListsOrdered
  <1>9. ItersFirst'
    BY <1>1, <1>2 DEF DispatchInv, ItersFirst, AtFirst, InDispatch, Outer, Inner,
       Posting
  <1>10. Waking'
    BY <1>1, <1>2, <1>3, <1>4 DEF DispatchInv, Waking, Awake, InDispatch, Outer,
       FramesPlaced, Placed, Nested, Deleting, None, Posting
  <1>11. Deletes'
    BY <1>1, <1>2, <1>5 DEF DispatchInv, Deletes, Outer, Posting
  <1>12. Protocol'
    BY <1>1, <1>2, <1>5 DEF DispatchInv, Protocol, Halting, None, Posting
  <1>13. IpaCalls'
    BY <1>1, <1>2, <1>5 DEF DispatchInv, IpaCalls, None, Posting
  <1>14. Signals'
    BY <1>1, <1>2, <1>4, <1>5 DEF DispatchInv, Signals, Inner, None, Posting
  <1> QED BY <1>6, <1>7, <1>8, <1>9, <1>10, <1>11, <1>12, <1>13, <1>14 DEF DispatchInv


LEMMA InitInv ==
    ASSUME Init
    PROVE  DispatchInv
  <1> DEFINE none == << >>
  <1>1. /\ none \in Seq(Msgs) /\ none \in Seq(Frames) /\ Len(none) = 0
        /\ KindsIn(none) = {} /\ BlockingLast(none)
        /\ \A k : Once(none, k)
        /\ \A n : Ascending(none) /\ Below(none, n)
    BY NoKinds DEF BlockingLast, Once, Ascending, Below
  <1>2. \A t \in Loops : list[t] = none /\ frames[t] = none
    BY DEF Init
  <1> HIDE DEF none
  <1>3. list \in [Loops -> Seq(Msgs)] /\ frames \in [Loops -> Seq(Frames)]
    BY <1>1 DEF Init, none
  <1>4. list["P"] = none /\ list["I"] = none /\ frames["P"] = none /\ frames["I"] = none
    BY <1>2 DEF Loops
  <1>5. Typed
    BY <1>3, DispatchAssumption
       DEF Typed, TypeOK, Init, Msgs, Loops, Callers, Kinds, None, PlacesOfA, PlacesOfP
  <1>6. /\ pc["A"] = "closed" /\ pc["P"] = "off" /\ pc["I"] = "off"
        /\ cur["P"] = None /\ cur["I"] = None
        /\ exit["P"] = FALSE /\ exit["I"] = FALSE
        /\ sem["A"] = FALSE /\ sem["P"] = FALSE
        /\ proxy = "Stopped" /\ fault = None
    BY DEF Init, Loops, Callers
  <1>7. /\ ~Nested /\ ~Deleting /\ ~Halting
        /\ ~InDispatch("P") /\ ~InDispatch("I")
    BY <1>1, <1>4, <1>6 DEF Nested, Deleting, Halting, InDispatch
  <1>8. FramesPlaced
    BY <1>1, <1>4, <1>6, <1>7 DEF FramesPlaced, Placed, Nested, Deleting
  <1>9. ListsOrdered /\ ItersFirst
    BY <1>1, <1>2, <1>4, <1>7 DEF ListsOrdered, ItersFirst, AtFirst
  <1>10. Waking /\ Deletes
    BY <1>1, <1>4, <1>6, <1>7 DEF Waking, Awake, Deletes
  <1>11. Protocol
    BY <1>1, <1>4, <1>6, <1>7 DEF Protocol, None
  <1>12. IpaCalls /\ Signals
    BY <1>1, <1>4, <1>6, <1>7 DEF IpaCalls, Signals, None, none
  <1> QED BY <1>5, <1>8, <1>9, <1>10, <1>11, <1>12 DEF DispatchInv

LEMMA StutterStep ==
    ASSUME DispatchInv, UNCHANGED vars
    PROVE  DispatchInv'
  <1>1. Typed' /\ ListsOrdered'
    BY DEF vars, DispatchInv, Typed, TypeOK, ListsOrdered
  <1>2. FramesPlaced' /\ ItersFirst'
    BY DEF vars, DispatchInv, FramesPlaced, Placed, InDispatch, Outer, Inner, Nested,
           Deleting, ItersFirst, AtFirst
  <1>3. Waking' /\ Deletes'
    BY DEF vars, DispatchInv, Waking, Awake, Signalled, InDispatch, Outer, Deletes,
       Deleting
  <1>4. Protocol' /\ IpaCalls' /\ Signals'
    BY DEF vars, DispatchInv, Protocol, Halting, Nested, Deleting, Outer, Inner,
       IpaCalls, 
           Signals
  <1> QED BY <1>1, <1>2, <1>3, <1>4 DEF DispatchInv

LEMMA ApplicationSteps ==
    ASSUME DispatchInv, Application \/ CallProceeds
    PROVE  DispatchInv'
  <1>1. CASE Open
    BY <1>1, OpenStep
  <1>2. CASE Starts
    BY <1>2, StartsStep
  <1>3. CASE QueueRequest
    BY <1>3, QueueRequestStep
  <1>4. CASE Stops
    BY <1>4, StopsStep
  <1>5. CASE Close
    BY <1>5, CloseStep
  <1>6. CASE Interrupt("A")
    BY <1>6, InterruptStep DEF Callers
  <1>7. CASE Returns
    BY <1>7, ReturnsFromStartStep, ReturnsFromStopStep
  <1>8. CASE Closed
    BY <1>8, ClosedStep
  <1> QED BY <1>1, <1>2, <1>3, <1>4, <1>5, <1>6, <1>7, <1>8 DEF Application,
     CallProceeds

LEMMA PipelineSteps ==
    ASSUME DispatchInv, PipelineThread \/ DeviceEvent
    PROVE  DispatchInv'
  <1>1. CASE Interrupt("P")
    BY <1>1, InterruptStep DEF Callers, Loops
  <1>2. CASE Exec("P")
    BY <1>2, ExecPStep, ExecEndsPStep
  <1>3. CASE Take("P")
    BY <1>3, TakePStep
  <1>4. CASE Finish("P")
    <2>1. InDispatch("P")
      BY <1>4 DEF Finish, Dispatching, InDispatch
    <2>2. Last("P").type \in {None, "InvokeMessage", "DeferredDelete"}
      BY <2>1 DEF DispatchInv, FramesPlaced, Placed, Nested, Outer, Inner, Last
    <2> QED BY <1>4, <2>2, FinishOuterStep, FinishNestedStep, FinishDeletesStep
  <1>5. CASE Poll("P")
    BY <1>5, PollPStep
  <1>6. CASE HandleStart
    BY <1>6, HandleStartStep
  <1>7. CASE Started
    BY <1>7, StartedStep
  <1>8. CASE HandleWork
    BY <1>8, HandleWorkRunsStep, HandleWorkStoppedStep
  <1>9. CASE HandleSignal
    BY <1>9, HandleSignalStep
  <1>10. CASE HandleDelete
    BY <1>10, HandleDeleteStep
  <1>11. CASE HandleStop
    BY <1>11, HandleStopStep
  <1>12. CASE StopThread
    BY <1>12, StopThreadStep
  <1>13. CASE ThreadStopped
    BY <1>13, ThreadStoppedStep
  <1>14. CASE Cleanup
    BY <1>14, CleanupStep
  <1>15. CASE DeleteCameras
    BY <1>15, DeleteCamerasStep
  <1>16. CASE DeviceEvent
    BY <1>16, DeviceEventStep
  <1> QED BY <1>1, <1>2, <1>3, <1>4, <1>5, <1>6, <1>7, <1>8, <1>9, <1>10, <1>11, <1>12,
             <1>13, <1>14, <1>15, <1>16 DEF PipelineThread, EventLoop

LEMMA IpaSteps ==
    ASSUME DispatchInv, IpaThread
    PROVE  DispatchInv'
  <1>1. CASE Interrupt("I")
    BY <1>1, InterruptStep DEF Callers, Loops
  <1>2. CASE Exec("I")
    BY <1>2, ExecIStep, ExecEndsIStep
  <1>3. CASE Take("I")
    BY <1>3, TakeIStep
  <1>4. CASE Finish("I")
    <2>1. InDispatch("I")
      BY <1>4 DEF Finish, Dispatching, InDispatch
    <2>2. Last("I").type = None
      BY <2>1 DEF DispatchInv, FramesPlaced, Placed, Outer, Last
    <2> QED BY <1>4, <2>2, FinishIStep
  <1>5. CASE Poll("I")
    BY <1>5, PollIStep
  <1>6. CASE \E kind \in {"begin", "quit"} : HandleBlocking(kind)
    BY <1>6, HandleBlockingStep DEF Blocking
  <1>7. CASE HandleRun
    BY <1>7, HandleRunStep
  <1> QED BY <1>1, <1>2, <1>3, <1>4, <1>5, <1>6, <1>7 DEF IpaThread, EventLoop

\* DispatchInv is inductive.
THEOREM Invariance == Spec => []DispatchInv
  <1>1. Init => DispatchInv
    BY InitInv
  <1>2. DispatchInv /\ [Next]_vars => DispatchInv'
    BY StutterStep, ApplicationSteps, PipelineSteps, IpaSteps DEF Next
  <1> QED BY <1>1, <1>2, PTL DEF Spec

-----------------------------------------------------------------------------
(* What it implies.                                                         *)

LEMMA KindsOfDomain ==
    ASSUME NEW lst \in Seq(Msgs), NEW k, k \notin KindsIn(lst)
    PROVE  \A i \in DOMAIN lst : lst[i].kind # k
  <1>1. DOMAIN lst = 1 .. Len(lst)
    OBVIOUS
  <1> QED BY <1>1 DEF KindsIn

\* Every variable keeps its type.
THEOREM TypeCorrect == Spec => []TypeOK
  <1>1. DispatchInv => TypeOK
    BY DEF DispatchInv, Typed
  <1> QED BY <1>1, Invariance, PTL

\* EventDispatcherPoll: a message or exit() that a loop has not seen when it goes
\* to poll() has signalled its eventfd, or is about to.
THEOREM WakeSafety == Spec => []WakeupKept
  <1>1. DispatchInv => WakeupKept
    BY DEF DispatchInv, Waking, Awake, Signalled, WakeupKept, Loops
  <1> QED BY <1>1, Invariance, PTL

\* stop() of the IPA's proxy: thread_.exit(), wait() and the dispatching of the
\* thread's messages leave no signal behind.
THEOREM StopSafety == Spec => []StopIsSynchronous
  <1>1. ASSUME DispatchInv  PROVE StopIsSynchronous
    <2>1. list["P"] \in Seq(Msgs)
      BY <1>1, Types DEF DispatchInv, Loops
    <2>2. ASSUME proxy = "Stopped"
          PROVE  /\ pc["I"] = "off" /\ list["I"] = << >> /\ cur["P"] # "signal"
                 /\ "signal" \notin KindsIn(list["P"])
      BY <1>1, <2>2 DEF DispatchInv, Signals
    <2> QED BY <2>1, <2>2, KindsOfDomain DEF StopIsSynchronous
  <1> QED BY <1>1, Invariance, PTL

\* The ASSERT(state_ != ProxyStopped) of the proxy's signal handlers holds.
THEOREM AssertionHolds == Spec => [](fault # "assertion")
  <1>1. DispatchInv => fault # "assertion"
    BY DEF DispatchInv, Signals
  <1> QED BY <1>1, Invariance, PTL

\* CameraManager::Private::run dispatches the deletions before it ends.
THEOREM DeleteSafety == Spec => []CameraDeleted
  <1>1. ASSUME DispatchInv  PROVE CameraDeleted
    <2>1. list["P"] \in Seq(Msgs)
      BY <1>1, Types DEF DispatchInv, Loops
    <2>2. pc["P"] = "off" => "delete" \notin KindsIn(list["P"])
      BY <1>1 DEF DispatchInv, Deletes
    <2> QED BY <2>1, <2>2, KindsOfDomain DEF CameraDeleted
  <1> QED BY <1>1, Invariance, PTL
=============================================================================
