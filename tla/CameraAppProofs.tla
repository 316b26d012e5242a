--------------------------- MODULE CameraAppProofs --------------------------
(* The camera application of run.cpp, for any number of requests and any      *)
(* controls: no request is lost while frames flow, what the pipeline handler  *)
(* holds exists with its own buffers, and the free requests are those of the  *)
(* messages.                                                                  *)
EXTENDS CameraApp, FiniteSetTheorems, SequenceTheorems, TLAPS

Flowing == {"queueing", "top", "wait", "frame"}
Queued == [req : Requests, status : {"pending", "complete", "cancelled"}]
ReqsOf(q) == {q[i].req : i \in DOMAIN q}
Distinct(s) == \A i, j \in DOMAIN s : s[i] = s[j] => i = j
DistinctReqs(q) == \A i, j \in DOMAIN q : q[i].req = q[j].req => i = j

-----------------------------------------------------------------------------
(* The invariant.                                                           *)

\* Where the loop's thread and the pipeline handler's are, and what they hold.
Places ==
    /\ pc \in Flowing \cup {"stopping"} => started
    /\ started => alive /\ pc \in Flowing \cup {"stop", "stopping"}
    /\ camera = "Running" => started
    /\ pc \in Flowing /\ ~unplugged => camera = "Running"
    /\ inHand # NoBuffers <=> pc = "frame"
    /\ current # NoBuffers <=> pipe = "post"
    /\ pipe = "stopped" => pc = "stopping" /\ posted = << >> /\ queue = << >>
    /\ ~started => posted = << >> /\ queue = << >> /\ pipe = "idle"
    /\ pc \in {"closed", "opened"} => free = << >>

\* Requests are cancelled only by stop().
Cancels == \A i \in DOMAIN queue : queue[i].status = "cancelled" => pc = "stopping"

\* A request is in one place, once.
OnePlace ==
    /\ Distinct(posted) /\ DistinctReqs(queue) /\ Distinct(free)
    /\ \A r \in Requests :
         /\ r \in unqueued =>
              r \notin Elements(posted) /\ r \notin ReqsOf(queue) /\ r \notin Elements(free)
         /\ r \in Elements(posted) => r \notin ReqsOf(queue) /\ r \notin Elements(free)
         /\ r \in ReqsOf(queue) => r \notin Elements(free)

\* A request has its own buffers until it is free.
Buffered ==
    /\ \A r \in Requests :
         r \in unqueued \/ r \in Elements(posted) \/ r \in ReqsOf(queue) =>
           alive /\ buffers[r] = r
    /\ \A r \in Requests : r \in Elements(free) => buffers[r] = NoBuffers

One(b) == IF b = NoBuffers THEN << >> ELSE <<b>>
Matched == free = (One(inHand) \o msgs) \o One(current)

\* While frames flow, no request is lost.
Counted ==
    pc \in Flowing /\ ~unplugged =>
      /\ \A r \in Requests : \/ r \in unqueued \/ r \in Elements(posted)
                             \/ r \in ReqsOf(queue) \/ r \in Elements(free)
      /\ Cardinality(unqueued) + Len(posted) + Len(queue) + Len(free)
           = Cardinality(Requests)

AppInv ==
    /\ TypeOK /\ Places /\ Cancels /\ OnePlace /\ Buffered /\ Matched /\ Counted

-----------------------------------------------------------------------------
(* Sequences of requests.                                                   *)

\* A request goes to the end of a list.
LEMMA AtEnd ==
    ASSUME NEW s \in Seq(Requests), NEW r \in Requests
    PROVE  LET new == Append(s, r)
           IN /\ new \in Seq(Requests)
              /\ new # << >>
              /\ Len(new) = Len(s) + 1
              /\ Elements(new) = Elements(s) \cup {r}
              /\ Distinct(s) /\ r \notin Elements(s) => Distinct(new)
  <1> DEFINE new == Append(s, r)
  <1>1. /\ new \in Seq(Requests) /\ Len(new) = Len(s) + 1 /\ Len(s) \in Nat
        /\ \A i \in 1 .. Len(s) : new[i] = s[i]
        /\ new[Len(s) + 1] = r
        /\ DOMAIN new = 1 .. Len(s) + 1 /\ DOMAIN s = 1 .. Len(s)
    OBVIOUS
  <1> HIDE DEF new
  <1>2. new # << >>
    BY <1>1
  <1>3. \A i \in DOMAIN new : i \in DOMAIN s \/ i = Len(s) + 1
    BY <1>1
  <1>4. Elements(new) = Elements(s) \cup {r}
    <2>1. ASSUME NEW x \in Elements(new)  PROVE x \in Elements(s) \cup {r}
      <3>1. PICK i \in DOMAIN new : x = new[i]
        BY <2>1 DEF Elements
      <3> QED BY <1>1, <1>3, <3>1 DEF Elements
    <2>2. r \in Elements(new)
      <3>1. Len(s) + 1 \in DOMAIN new
        BY <1>1
      <3> QED BY <1>1, <3>1 DEF Elements
    <2>3. ASSUME NEW x \in Elements(s)  PROVE x \in Elements(new)
      <3>1. PICK i \in DOMAIN s : x = s[i]
        BY <2>3 DEF Elements
      <3>2. i \in DOMAIN new /\ new[i] = s[i]
        BY <1>1
      <3> QED BY <3>1, <3>2 DEF Elements
    <2> QED BY <2>1, <2>2, <2>3
  <1>5. ASSUME Distinct(s), r \notin Elements(s)  PROVE Distinct(new)
    <2>1. \A i \in DOMAIN s : s[i] # r /\ new[i] = s[i]
      BY <1>1, <1>5 DEF Elements
    <2> QED BY <1>1, <1>3, <1>5, <2>1 DEF Distinct
  <1> QED BY <1>1, <1>2, <1>4, <1>5 DEF new

\* The first request of a list goes.
LEMMA FromFront ==
    ASSUME NEW s \in Seq(Requests), s # << >>
    PROVE  /\ Head(s) \in Requests
           /\ Tail(s) \in Seq(Requests)
           /\ Len(s) \in Nat /\ Len(Tail(s)) = Len(s) - 1
           /\ Elements(s) = Elements(Tail(s)) \cup {Head(s)}
           /\ Distinct(s) => Distinct(Tail(s)) /\ Head(s) \notin Elements(Tail(s))
  <1> DEFINE rest == Tail(s)
  <1>1. /\ rest \in Seq(Requests) /\ Len(s) \in Nat /\ Len(rest) = Len(s) - 1
        /\ \A i \in 1 .. Len(rest) : rest[i] = s[i + 1]
        /\ DOMAIN s = 1 .. Len(s) /\ DOMAIN rest = 1 .. Len(rest)
        /\ Head(s) = s[1] /\ 1 \in DOMAIN s /\ s[1] \in Requests
    OBVIOUS
  <1> HIDE DEF rest
  <1>2. \A i \in DOMAIN rest : i + 1 \in DOMAIN s /\ i + 1 # 1 /\ i \in Nat
    BY <1>1
  <1>3. \A i \in DOMAIN s : i = 1 \/ (i - 1 \in DOMAIN rest /\ rest[i - 1] = s[i])
    BY <1>1
  <1>4. Elements(s) = Elements(rest) \cup {s[1]}
    BY <1>1, <1>2, <1>3 DEF Elements
  <1>5. ASSUME Distinct(s)  PROVE Distinct(rest) /\ s[1] \notin Elements(rest)
    <2>1. s[1] \notin Elements(rest)
      BY <1>1, <1>2, <1>5 DEF Distinct, Elements
    <2>2. ASSUME NEW i \in DOMAIN rest, NEW j \in DOMAIN rest, rest[i] = rest[j]
          PROVE  i = j
      <3>1. i + 1 = j + 1
        BY <1>1, <1>2, <1>5, <2>2 DEF Distinct
      <3> QED BY <1>2, <3>1
    <2> QED BY <2>1, <2>2 DEF Distinct
  <1> QED BY <1>1, <1>4, <1>5 DEF rest

\* The same of the pipeline handler's queue.
LEMMA QueueAtEnd ==
    ASSUME NEW q \in Seq(Queued), NEW m \in Queued
    PROVE  LET new == Append(q, m)
           IN /\ new \in Seq(Queued)
              /\ new # << >>
              /\ Len(new) = Len(q) + 1
              /\ ReqsOf(new) = ReqsOf(q) \cup {m.req}
              /\ DistinctReqs(q) /\ m.req \notin ReqsOf(q) => DistinctReqs(new)
              /\ \A i \in DOMAIN new : (i \in DOMAIN q /\ new[i] = q[i]) \/ new[i] = m
  <1> DEFINE new == Append(q, m)
  <1>1. /\ new \in Seq(Queued) /\ Len(new) = Len(q) + 1 /\ Len(q) \in Nat
        /\ \A i \in 1 .. Len(q) : new[i] = q[i]
        /\ new[Len(q) + 1] = m
        /\ DOMAIN new = 1 .. Len(q) + 1 /\ DOMAIN q = 1 .. Len(q)
    OBVIOUS
  <1> HIDE DEF new
  <1>2. new # << >>
    BY <1>1
  <1>3. \A i \in DOMAIN new : i \in DOMAIN q \/ i = Len(q) + 1
    BY <1>1
  <1>4. ReqsOf(new) = ReqsOf(q) \cup {m.req}
    <2>1. ASSUME NEW x \in ReqsOf(new)  PROVE x \in ReqsOf(q) \cup {m.req}
      <3>1. PICK i \in DOMAIN new : x = new[i].req
        BY <2>1 DEF ReqsOf
      <3> QED BY <1>1, <1>3, <3>1 DEF ReqsOf
    <2>2. m.req \in ReqsOf(new)
      <3>1. Len(q) + 1 \in DOMAIN new
        BY <1>1
      <3> QED BY <1>1, <3>1 DEF ReqsOf
    <2>3. ASSUME NEW x \in ReqsOf(q)  PROVE x \in ReqsOf(new)
      <3>1. PICK i \in DOMAIN q : x = q[i].req
        BY <2>3 DEF ReqsOf
      <3>2. i \in DOMAIN new /\ new[i] = q[i]
        BY <1>1
      <3> QED BY <3>1, <3>2 DEF ReqsOf
    <2> QED BY <2>1, <2>2, <2>3
  <1>5. ASSUME DistinctReqs(q), m.req \notin ReqsOf(q)  PROVE DistinctReqs(new)
    <2>1. \A i \in DOMAIN q : q[i].req # m.req /\ new[i] = q[i]
      BY <1>1, <1>5 DEF ReqsOf
    <2> QED BY <1>1, <1>3, <1>5, <2>1 DEF DistinctReqs
  <1> QED BY <1>1, <1>2, <1>3, <1>4, <1>5 DEF new

LEMMA QueueFromFront ==
    ASSUME NEW q \in Seq(Queued), q # << >>
    PROVE  /\ Head(q) \in Queued /\ Head(q).req \in Requests
           /\ Tail(q) \in Seq(Queued)
           /\ Len(q) \in Nat /\ Len(Tail(q)) = Len(q) - 1
           /\ ReqsOf(q) = ReqsOf(Tail(q)) \cup {Head(q).req}
           /\ DistinctReqs(q) => /\ DistinctReqs(Tail(q))
                                 /\ Head(q).req \notin ReqsOf(Tail(q))
           /\ \A i \in DOMAIN Tail(q) : \E j \in DOMAIN q : Tail(q)[i] = q[j]
           /\ \E j \in DOMAIN q : Head(q) = q[j]
  <1> DEFINE rest == Tail(q)
  <1>1. /\ rest \in Seq(Queued) /\ Len(q) \in Nat /\ Len(rest) = Len(q) - 1
        /\ \A i \in 1 .. Len(rest) : rest[i] = q[i + 1]
        /\ DOMAIN q = 1 .. Len(q) /\ DOMAIN rest = 1 .. Len(rest)
        /\ Head(q) = q[1] /\ 1 \in DOMAIN q /\ q[1] \in Queued
    OBVIOUS
  <1> HIDE DEF rest
  <1>2. \A i \in DOMAIN rest : i + 1 \in DOMAIN q /\ i + 1 # 1 /\ i \in Nat
    BY <1>1
  <1>3. \A i \in DOMAIN q : i = 1 \/ (i - 1 \in DOMAIN rest /\ rest[i - 1] = q[i])
    BY <1>1
  <1>4. ReqsOf(q) = ReqsOf(rest) \cup {q[1].req}
    <2>1. \A i \in DOMAIN rest : rest[i] = q[i + 1]
      BY <1>1
    <2>2. \A i \in DOMAIN q : q[i].req = q[1].req \/ q[i].req \in ReqsOf(rest)
      BY <1>3 DEF ReqsOf
    <2>3. \A i \in DOMAIN rest : rest[i].req \in ReqsOf(q)
      BY <1>2, <2>1 DEF ReqsOf
    <2>4. q[1].req \in ReqsOf(q)
      BY <1>1 DEF ReqsOf
    <2> QED BY <2>2, <2>3, <2>4 DEF ReqsOf
  <1>5. ASSUME DistinctReqs(q)  PROVE DistinctReqs(rest) /\ q[1].req \notin ReqsOf(rest)
    <2>1. q[1].req \notin ReqsOf(rest)
      BY <1>1, <1>2, <1>5 DEF DistinctReqs, ReqsOf
    <2>2. ASSUME NEW i \in DOMAIN rest, NEW j \in DOMAIN rest, rest[i].req = rest[j].req
          PROVE  i = j
      <3>1. i + 1 = j + 1
        BY <1>1, <1>2, <1>5, <2>2 DEF DistinctReqs
      <3> QED BY <1>2, <3>1
    <2> QED BY <2>1, <2>2 DEF DistinctReqs
  <1>6. \A i \in DOMAIN rest : \E j \in DOMAIN q : rest[i] = q[j]
    BY <1>1, <1>2
  <1>7. q[1].req \in Requests
    BY <1>1 DEF Queued
  <1> QED BY <1>1, <1>4, <1>5, <1>6, <1>7 DEF rest

\* Completing requests leaves them in the queue.
LEMMA SameReqs ==
    ASSUME NEW p \in Seq(Queued), NEW q \in Seq(Queued), DOMAIN p = DOMAIN q,
           \A i \in DOMAIN q : p[i].req = q[i].req
    PROVE  ReqsOf(p) = ReqsOf(q) /\ Len(p) = Len(q) /\ (DistinctReqs(q) => DistinctReqs(p))
  <1>1. ReqsOf(p) = ReqsOf(q)
    BY DEF ReqsOf
  <1>2. Len(p) = Len(q)
    BY LenProperties
  <1> QED BY <1>1, <1>2 DEF DistinctReqs

LEMMA NoRequests ==
    /\ Elements(<< >>) = {} /\ ReqsOf(<< >>) = {}
    /\ Distinct(<< >>) /\ DistinctReqs(<< >>)
  <1>1. DOMAIN << >> = {}
    OBVIOUS
  <1> QED BY <1>1 DEF Elements, ReqsOf, Distinct, DistinctReqs

\* What follows from the free requests being those of the messages.
LEMMA FirstTaken ==
    ASSUME NEW s \in Seq(Requests), s # << >>, NEW t \in Seq(Requests)
    PROVE  (<< >> \o s) \o t = (<<Head(s)>> \o Tail(s)) \o t
  <1>1. s = <<Head(s)>> \o Tail(s)
    BY HeadTailProperties
  <1>2. << >> \o s = s
    BY ConcatEmptySeq
  <1> QED BY <1>1, <1>2

LEMMA FirstOf ==
    ASSUME NEW b \in Requests, NEW s \in Seq(Requests), NEW t \in Seq(Requests)
    PROVE  LET all == (<<b>> \o s) \o t
           IN all # << >> /\ Head(all) = b /\ Tail(all) = (<< >> \o s) \o t
  <1>1. <<b>> \in Seq(Requests) /\ s \o t \in Seq(Requests)
    OBVIOUS
  <1>2. (<<b>> \o s) \o t = <<b>> \o (s \o t)
    BY <1>1, ConcatAssociative
  <1> DEFINE st == s \o t
  <1> HIDE DEF st
  <1>3. <<b>> \o st # << >> /\ Head(<<b>> \o st) = b /\ Tail(<<b>> \o st) = st
    BY <1>1 DEF st
  <1>4. << >> \o s = s
    BY ConcatEmptySeq
  <1> QED BY <1>2, <1>3, <1>4 DEF st

LEMMA LastPosted ==
    ASSUME NEW s \in Seq(Requests), NEW t \in Seq(Requests), NEW b \in Requests
    PROVE  /\ Append((t \o s) \o << >>, b) = (t \o s) \o <<b>>
           /\ (t \o s) \o <<b>> = (t \o Append(s, b)) \o << >>
  <1>1. t \o s \in Seq(Requests) /\ <<b>> \in Seq(Requests) /\ Append(s, b) \in Seq(Requests)
    OBVIOUS
  <1>2. (t \o s) \o << >> = t \o s
    BY <1>1, ConcatEmptySeq
  <1>3. Append(t \o s, b) = (t \o s) \o <<b>>
    BY <1>1, AppendIsConcat
  <1>4. Append(s, b) = s \o <<b>>
    BY AppendIsConcat
  <1>5. (t \o s) \o <<b>> = t \o (s \o <<b>>)
    BY <1>1, ConcatAssociative
  <1>6. t \o Append(s, b) \in Seq(Requests)
    BY <1>1
  <1>7. (t \o Append(s, b)) \o << >> = t \o Append(s, b)
    BY <1>6, ConcatEmptySeq
  <1> QED BY <1>2, <1>3, <1>4, <1>5, <1>7

-----------------------------------------------------------------------------
(* The invariant holds at first, and every action keeps it.                 *)

LEMMA NoControls ==
    /\ Empty \in [Controls -> Versions]
    /\ [c \in Controls |-> 1] \in [Controls -> Versions \ {0}]
  BY CameraAppAssumption DEF Empty, Versions

LEMMA Initially == Init => AppInv
  <1> SUFFICES ASSUME Init  PROVE AppInv
    OBVIOUS
  <1>1. TypeOK
    <2>1. /\ buffers \in [Requests -> Requests \cup {NoBuffers}]
          /\ carried \in [Requests -> [Controls -> Versions]]
      BY NoControls DEF Init
    <2>2. free \in Seq(Requests) /\ msgs \in Seq(Requests) /\ posted \in Seq(Requests)
      BY DEF Init
    <2>3. queue \in Seq([req : Requests, status : {"pending", "complete", "cancelled"}])
      BY DEF Init
    <2>4. /\ controls \in [Controls -> Versions] /\ pending \in [Controls -> Versions]
          /\ applied \in [Controls -> Versions]
          /\ setting \in [Controls -> Versions \ {0}]
      BY NoControls DEF Init
    <2> QED BY <2>1, <2>2, <2>3, <2>4 DEF Init, TypeOK
  <1>2. Places
    BY DEF Init, Places, Flowing
  <1>3. DOMAIN queue = {} /\ queue = << >> /\ posted = << >> /\ free = << >>
    BY DEF Init
  <1>4. Cancels
    BY <1>3 DEF Cancels
  <1>5. OnePlace /\ Buffered
    BY <1>3, NoRequests DEF Init, OnePlace, Buffered
  <1>6. Matched
    BY DEF Init, Matched, One
  <1>7. Counted
    BY DEF Init, Counted, Flowing
  <1> QED BY <1>1, <1>2, <1>4, <1>5, <1>6, <1>7 DEF AppInv

\* Actions that neither move a request nor the loop: the callers', a stutter.
LEMMA SetControlStep ==
    ASSUME AppInv, NEW c \in Controls, SetControl(c)
    PROVE  AppInv'
  <1>1. TypeOK'
    <2>1. /\ setting[c] + 1 \in Versions \ {0}
          /\ setting' = [setting EXCEPT ![c] = setting[c] + 1]
          /\ pending' = [pending EXCEPT ![c] = setting[c] + 1]
      BY CameraAppAssumption DEF AppInv, TypeOK, SetControl, Versions
    <2>2. /\ setting' \in [Controls -> Versions \ {0}]
          /\ pending' \in [Controls -> Versions]
      BY <2>1 DEF AppInv, TypeOK
    <2> QED BY <2>2 DEF AppInv, TypeOK, SetControl, loopVars, appVars, pipeVars, cameraVars
  <1>2. Places' /\ Cancels' /\ Matched'
    BY DEF AppInv, SetControl, loopVars, appVars, pipeVars, cameraVars,
           Places, Cancels, Matched
  <1>3. OnePlace' /\ Buffered' /\ Counted'
    BY DEF AppInv, SetControl, loopVars, appVars, pipeVars, cameraVars,
           OnePlace, Buffered, Counted
  <1> QED BY <1>1, <1>2, <1>3 DEF AppInv

LEMMA StopLoopStep == AppInv /\ StopLoop => AppInv'
  <1> SUFFICES ASSUME AppInv, StopLoop  PROVE AppInv'
    OBVIOUS
  <1>1. TypeOK'
    <2>1. run' \in BOOLEAN
      BY DEF StopLoop
    <2> QED BY <2>1 DEF AppInv, TypeOK, StopLoop, appVars, pipeVars, cameraVars,
                        globalVars
  <1>2. Places' /\ Cancels' /\ Matched'
    BY DEF AppInv, StopLoop, appVars, pipeVars, cameraVars, Places, Cancels, Matched
  <1>3. OnePlace' /\ Buffered' /\ Counted'
    BY DEF AppInv, StopLoop, appVars, pipeVars, cameraVars, OnePlace, Buffered, Counted
  <1> QED BY <1>1, <1>2, <1>3 DEF AppInv

LEMMA StutterStep == AppInv /\ UNCHANGED vars => AppInv'
  <1> SUFFICES ASSUME AppInv, UNCHANGED vars  PROVE AppInv'
    OBVIOUS
  <1> USE DEF vars, loopVars, appVars, pipeVars, cameraVars, globalVars
  <1>1. TypeOK'
    BY DEF AppInv, TypeOK
  <1>2. Places' /\ Cancels' /\ Matched'
    BY DEF AppInv, Places, Cancels, Matched
  <1>3. OnePlace' /\ Buffered' /\ Counted'
    BY DEF AppInv, OnePlace, Buffered, Counted
  <1> QED BY <1>1, <1>2, <1>3 DEF AppInv

-----------------------------------------------------------------------------
(* The event loop.                                                          *)

LEMMA OpenStep == AppInv /\ Open => AppInv'
  <1> SUFFICES ASSUME AppInv, Open  PROVE AppInv'
    OBVIOUS
  <1>1. TypeOK'
    <2>1. pending' \in [Controls -> Versions]
      BY DEF AppInv, TypeOK, Open
    <2> QED BY <2>1 DEF AppInv, TypeOK, Open, appVars, pipeVars
  <1>2. Places'
    BY DEF AppInv, Places, Flowing, Open, appVars, pipeVars
  <1>3. Cancels' /\ OnePlace' /\ Buffered' /\ Matched'
    BY DEF AppInv, Open, appVars, pipeVars, Cancels, OnePlace, Buffered, Matched
  <1>4. Counted'
    BY DEF Open, Counted, Flowing
  <1> QED BY <1>1, <1>2, <1>3, <1>4 DEF AppInv

\* Every request is made, and is yet to be queued.
LEMMA StartCameraStep == AppInv /\ StartCamera => AppInv'
  <1> SUFFICES ASSUME AppInv, StartCamera  PROVE AppInv'
    OBVIOUS
  <1>1. posted = << >> /\ queue = << >> /\ free = << >> /\ ~started
    BY DEF AppInv, Places, Flowing, StartCamera
  <1>2. TypeOK'
    <2>1. /\ buffers' \in [Requests -> Requests \cup {NoBuffers}]
          /\ carried' \in [Requests -> [Controls -> Versions]]
      BY NoControls DEF StartCamera
    <2>2. controls' \in [Controls -> Versions]
      BY NoControls DEF AppInv, TypeOK, StartCamera
    <2>3. /\ pc' \in {"queueing", "stop"} /\ started' \in BOOLEAN /\ alive' \in BOOLEAN
          /\ unqueued' \subseteq Requests /\ camera' \in {"Available", "Configured", "Running", "Stopping"}
      BY DEF AppInv, TypeOK, StartCamera
    <2>4. UNCHANGED <<run, inHand, free, msgs, pipeVars, unplugged, globalVars, fault>>
      BY DEF StartCamera
    <2> QED BY <2>1, <2>2, <2>3, <2>4 DEF AppInv, TypeOK, pipeVars, globalVars
  <1>3. Places'
    BY <1>1 DEF AppInv, Places, Flowing, StartCamera, pipeVars
  <1>4. posted' = << >> /\ queue' = << >> /\ free' = << >> /\ DOMAIN queue' = {}
    BY <1>1 DEF StartCamera, pipeVars
  <1>5. Cancels'
    BY <1>4 DEF Cancels
  <1>6. OnePlace'
    BY <1>4, NoRequests DEF OnePlace
  <1>7. Buffered'
    BY <1>4, NoRequests DEF Buffered, StartCamera
  <1>8. Matched'
    BY DEF AppInv, Matched, StartCamera, pipeVars
  <1>9. Counted'
    <2>1. Cardinality(Requests) \in Nat /\ Len(<< >>) = 0
      BY CameraAppAssumption, FS_CardinalityType
    <2>2. CASE pc' = "stop"
      BY <2>2 DEF Counted, Flowing
    <2>3. CASE unqueued' = Requests
      BY <1>4, <2>1, <2>3 DEF Counted
    <2> QED BY <2>2, <2>3 DEF StartCamera
  <1> QED BY <1>2, <1>3, <1>5, <1>6, <1>7, <1>8, <1>9 DEF AppInv

\* A request goes to the pipeline handler's thread, the first time.
LEMMA QueueFirstStep ==
    ASSUME AppInv, NEW r \in Requests, QueueFirst(r)
    PROVE  AppInv'
  <1>1. posted' = posted \/ posted' = Append(posted, r)
    BY DEF QueueFirst
  <1>2. /\ posted' \in Seq(Requests)
        /\ Elements(posted)' \subseteq Elements(posted) \cup {r}
        /\ Distinct(posted)'
    <2>1. posted \in Seq(Requests) /\ Distinct(posted) /\ r \notin Elements(posted)
      BY DEF AppInv, TypeOK, OnePlace, QueueFirst
    <2> QED BY <1>1, <2>1, AtEnd
  <1>3. unqueued' = unqueued \ {r} /\ r \in unqueued
    BY DEF QueueFirst
  <1>4. TypeOK'
    BY <1>2 DEF AppInv, TypeOK, QueueFirst, appVars, cameraVars, globalVars
  <1>5. Places'
    <2>1. /\ started /\ pc = "queueing" /\ pipe # "stopped"
          /\ (pc' \in {"queueing", "top"} /\ Accepts) \/ pc' = "stop"
      BY DEF AppInv, Places, Flowing, QueueFirst
    <2> QED BY <2>1 DEF AppInv, Places, Flowing, QueueFirst, appVars, cameraVars
  <1>6. Cancels' /\ Matched'
    BY DEF AppInv, Cancels, Matched, QueueFirst, appVars
  <1>7. OnePlace'
    <2>1. UNCHANGED <<queue, free>>
      BY DEF QueueFirst, appVars
    <2> QED BY <1>2, <1>3, <2>1 DEF AppInv, OnePlace
  <1>8. Buffered'
    <2>1. UNCHANGED <<queue, free, alive, buffers>>
      BY DEF QueueFirst, appVars
    <2> QED BY <1>2, <1>3, <2>1 DEF AppInv, Buffered
  <1>9. Counted'
    <2>1. CASE pc' = "stop"
      BY <2>1 DEF Counted, Flowing
    <2>2. CASE posted' = Append(posted, r)
      <3>1. UNCHANGED <<queue, free, unplugged>> /\ pc \in Flowing
        BY DEF QueueFirst, appVars, cameraVars, Flowing
      <3>2. /\ Elements(posted)' = Elements(posted) \cup {r}
            /\ Len(posted') = Len(posted) + 1
        BY <2>2, AtEnd DEF AppInv, TypeOK
      <3>3. /\ Cardinality(unqueued) \in Nat
            /\ Cardinality(unqueued') = Cardinality(unqueued) - 1
        BY <1>3, CameraAppAssumption, FS_Subset, FS_RemoveElement, FS_CardinalityType
           DEF AppInv, TypeOK
      <3>4. Len(posted) \in Nat /\ Len(queue) \in Nat /\ Len(free) \in Nat
        BY DEF AppInv, TypeOK
      <3> QED BY <1>3, <3>1, <3>2, <3>3, <3>4 DEF AppInv, Counted
    <2> QED BY <2>1, <2>2 DEF QueueFirst
  <1> QED BY <1>4, <1>5, <1>6, <1>7, <1>8, <1>9 DEF AppInv

LEMMA LoopTopStep == AppInv /\ LoopTop => AppInv'
  <1> SUFFICES ASSUME AppInv, LoopTop  PROVE AppInv'
    OBVIOUS
  <1>1. TypeOK'
    <2>1. /\ controls' \in [Controls -> Versions]
          /\ pending' \in [Controls -> Versions]
      BY NoControls DEF AppInv, TypeOK, LoopTop
    <2>2. pc' \in {"wait", "stop"}
      BY DEF LoopTop
    <2>3. UNCHANGED <<run, started, unqueued, inHand, alive, buffers, carried, free,
                      msgs, pipeVars, cameraVars, setting, fault>>
      BY DEF LoopTop
    <2> QED BY <2>1, <2>2, <2>3 DEF AppInv, TypeOK, pipeVars, cameraVars
  <1>2. Places'
    BY DEF AppInv, Places, Flowing, LoopTop, pipeVars, cameraVars
  <1>3. Cancels' /\ OnePlace' /\ Buffered' /\ Matched'
    BY DEF AppInv, LoopTop, pipeVars, Cancels, OnePlace, Buffered, Matched
  <1>4. Counted'
    BY DEF AppInv, LoopTop, pipeVars, cameraVars, Counted, Flowing
  <1> QED BY <1>1, <1>2, <1>3, <1>4 DEF AppInv

\* The loop takes the oldest message.
LEMMA WaitStep == AppInv /\ Wait => AppInv'
  <1> SUFFICES ASSUME AppInv, Wait  PROVE AppInv'
    OBVIOUS
  <1>1. /\ Head(msgs) \in Requests /\ Tail(msgs) \in Seq(Requests)
        /\ inHand = NoBuffers /\ Head(msgs) # NoBuffers
    BY CameraAppAssumption, FromFront DEF AppInv, TypeOK, Places, Wait
  <1>2. TypeOK'
    BY <1>1 DEF AppInv, TypeOK, Wait, pipeVars, cameraVars, globalVars
  <1>3. Places'
    BY <1>1 DEF AppInv, Places, Flowing, Wait, pipeVars, cameraVars
  <1>4. Cancels' /\ OnePlace' /\ Buffered'
    BY DEF AppInv, Wait, pipeVars, Cancels, OnePlace, Buffered
  <1>5. Matched'
    <2>1. One(current) \in Seq(Requests)
      BY DEF AppInv, TypeOK, One
    <2>2. One(inHand) = << >> /\ One(inHand)' = <<Head(msgs)>>
      BY <1>1 DEF One, Wait
    <2>3. One(current)' = One(current) /\ free' = free /\ msgs' = Tail(msgs)
      BY DEF One, Wait, pipeVars
    <2> QED BY <2>1, <2>2, <2>3, FirstTaken DEF AppInv, TypeOK, Matched, Wait
  <1>6. Counted'
    BY DEF AppInv, Wait, pipeVars, cameraVars, Counted, Flowing
  <1> QED BY <1>2, <1>3, <1>4, <1>5, <1>6 DEF AppInv

\* The first free request is that of the message in hand: it has no buffers, and
\* gets its own.
LEMMA QueueRequestStep == AppInv /\ QueueRequest => AppInv'
  <1> SUFFICES ASSUME AppInv, QueueRequest  PROVE AppInv'
    OBVIOUS
  <1> DEFINE r == inHand
  <1>1. r \in Requests /\ pc = "frame" /\ started /\ alive
    BY DEF AppInv, TypeOK, Places, Flowing, QueueRequest
  <1>2. /\ free # << >> /\ Head(free) = r
        /\ Tail(free) = (<< >> \o msgs) \o One(current)
    <2>1. One(current) \in Seq(Requests) /\ msgs \in Seq(Requests)
      BY DEF AppInv, TypeOK, One
    <2>2. One(inHand) = <<r>>
      BY <1>1, CameraAppAssumption DEF One
    <2> HIDE DEF r
    <2> QED BY <1>1, <2>1, <2>2, FirstOf DEF AppInv, Matched
  <1>3. /\ Tail(free) \in Seq(Requests) /\ Len(free) \in Nat
        /\ Len(Tail(free)) = Len(free) - 1
        /\ Elements(free) = Elements(Tail(free)) \cup {r}
        /\ Distinct(Tail(free)) /\ r \notin Elements(Tail(free))
    BY <1>2, FromFront DEF AppInv, TypeOK, OnePlace
  <1>4. buffers[r] = NoBuffers
    BY <1>1, <1>3 DEF AppInv, Buffered
  <1>5. /\ free' = Tail(free) /\ inHand' = NoBuffers /\ pc' = "top"
        /\ buffers' = [buffers EXCEPT ![r] = r]
        /\ carried' = [carried EXCEPT ![r] = controls]
        /\ controls' = Empty
        /\ posted' = IF Accepts THEN Append(posted, r) ELSE posted
        /\ UNCHANGED <<run, started, unqueued, alive, msgs, queue, pipe, current,
                       applied, cameraVars, globalVars, fault>>
    BY <1>2, <1>4 DEF QueueRequest
  <1>6. /\ r \notin unqueued /\ r \notin Elements(posted) /\ r \notin ReqsOf(queue)
    BY <1>1, <1>3 DEF AppInv, OnePlace
  <1>7. /\ posted' \in Seq(Requests) /\ Distinct(posted)'
        /\ Elements(posted)' \subseteq Elements(posted) \cup {r}
    <2>1. posted \in Seq(Requests) /\ Distinct(posted)
      BY DEF AppInv, TypeOK, OnePlace
    <2> HIDE DEF r
    <2> QED BY <1>1, <1>5, <1>6, <2>1, AtEnd
  <1>8. TypeOK'
    <2>1. /\ buffers' \in [Requests -> Requests \cup {NoBuffers}]
          /\ carried' \in [Requests -> [Controls -> Versions]]
          /\ controls' \in [Controls -> Versions]
      BY <1>1, <1>5, NoControls DEF AppInv, TypeOK
    <2> HIDE DEF r
    <2> QED BY <1>3, <1>5, <1>7, <2>1 DEF AppInv, TypeOK, cameraVars, globalVars
  <1> HIDE DEF r
  <1>9. Places'
    <2>1. pipe # "stopped"
      BY <1>1 DEF AppInv, Places
    <2> QED BY <1>1, <1>5, <2>1 DEF AppInv, Places, Flowing, cameraVars
  <1>10. Cancels'
    BY <1>1, <1>5 DEF AppInv, Cancels
  <1>11. OnePlace'
    BY <1>3, <1>5, <1>6, <1>7 DEF AppInv, OnePlace
  <1>12. Buffered'
    <2>1. /\ buffers'[r] = r
          /\ \A s \in Requests : s # r => buffers'[s] = buffers[s]
      BY <1>1, <1>5 DEF AppInv, TypeOK
    <2> QED BY <1>1, <1>3, <1>5, <1>7, <2>1 DEF AppInv, Buffered
  <1>13. Matched'
    <2>1. One(inHand)' = << >> /\ One(current)' = One(current) /\ msgs' = msgs
      BY <1>5 DEF One
    <2> QED BY <1>2, <1>5, <2>1 DEF Matched
  <1>14. Counted'
    <2>1. CASE unplugged
      BY <1>5, <2>1 DEF Counted, cameraVars
    <2>2. CASE ~unplugged
      <3>1. posted' = Append(posted, r)
        BY <1>1, <1>5, <2>2 DEF AppInv, Places, Flowing, Accepts
      <3>2. /\ Elements(posted)' = Elements(posted) \cup {r}
            /\ Len(posted') = Len(posted) + 1 /\ Len(posted) \in Nat
        BY <1>1, <3>1, AtEnd DEF AppInv, TypeOK
      <3>3. pc \in Flowing /\ Len(queue) \in Nat /\ Cardinality(unqueued) \in Nat
        BY <1>1, CameraAppAssumption, FS_Subset, FS_CardinalityType
           DEF AppInv, TypeOK, Flowing
      <3>4. /\ \A s \in Requests : \/ s \in unqueued \/ s \in Elements(posted)
                                   \/ s \in ReqsOf(queue) \/ s \in Elements(free)
            /\ Cardinality(unqueued) + Len(posted) + Len(queue) + Len(free)
                 = Cardinality(Requests)
        BY <2>2, <3>3 DEF AppInv, Counted
      <3>5. free' = Tail(free) /\ unqueued' = unqueued /\ queue' = queue
        BY <1>5
      <3>6. \A s \in Requests : \/ s \in unqueued' \/ s \in Elements(posted)'
                                 \/ s \in ReqsOf(queue)' \/ s \in Elements(free)'
        BY <1>3, <3>2, <3>4, <3>5
      <3>7. Cardinality(unqueued') + Len(posted') + Len(queue') + Len(free')
              = Cardinality(Requests)
        BY <1>3, <3>2, <3>3, <3>4, <3>5
      <3> QED BY <3>6, <3>7 DEF Counted
    <2> QED BY <2>1, <2>2
  <1> QED BY <1>8, <1>9, <1>10, <1>11, <1>12, <1>13, <1>14 DEF AppInv

LEMMA StopCameraStep == AppInv /\ StopCamera => AppInv'
  <1> SUFFICES ASSUME AppInv, StopCamera  PROVE AppInv'
    OBVIOUS
  <1>1. /\ pc = "stop"
        /\ \/ ~started /\ pc' = "clear" /\ UNCHANGED <<camera, fault>>
           \/ /\ started /\ Accepts /\ pc' = "stopping" /\ camera' = "Stopping"
              /\ UNCHANGED fault
           \/ started /\ fault' = "terminate" /\ UNCHANGED <<pc, camera>>
    BY DEF AppInv, TypeOK, StopCamera
  <1>2. UNCHANGED <<run, started, unqueued, inHand, appVars, pipeVars, unplugged,
                    globalVars>>
    BY DEF StopCamera
  <1>3. TypeOK'
    BY <1>1, <1>2 DEF AppInv, TypeOK, appVars, pipeVars, globalVars
  <1>4. Places'
    BY <1>1, <1>2 DEF AppInv, Places, Flowing, appVars, pipeVars
  <1>5. Cancels'
    BY <1>1, <1>2 DEF AppInv, Cancels, pipeVars
  <1>6. OnePlace' /\ Buffered' /\ Matched'
    BY <1>2 DEF AppInv, appVars, pipeVars, OnePlace, Buffered, Matched
  <1>7. Counted'
    BY <1>1 DEF Counted, Flowing
  <1> QED BY <1>3, <1>4, <1>5, <1>6, <1>7 DEF AppInv

LEMMA StopReturnsStep == AppInv /\ StopReturns => AppInv'
  <1> SUFFICES ASSUME AppInv, StopReturns  PROVE AppInv'
    OBVIOUS
  <1>1. posted = << >> /\ queue = << >> /\ current = NoBuffers
    BY DEF AppInv, Places, StopReturns
  <1>2. TypeOK'
    BY DEF AppInv, TypeOK, StopReturns, appVars, globalVars
  <1>3. Places'
    BY <1>1 DEF AppInv, Places, Flowing, StopReturns, appVars
  <1>4. Cancels'
    <2>1. DOMAIN queue' = {}
      BY <1>1 DEF StopReturns
    <2> QED BY <2>1 DEF Cancels
  <1>5. OnePlace' /\ Buffered' /\ Matched'
    BY DEF AppInv, StopReturns, appVars, OnePlace, Buffered, Matched
  <1>6. Counted'
    BY DEF StopReturns, Counted, Flowing
  <1> QED BY <1>2, <1>3, <1>4, <1>5, <1>6 DEF AppInv

\* The requests go: the pipeline handler has none of them.
LEMMA ClearStep == AppInv /\ Clear => AppInv'
  <1> SUFFICES ASSUME AppInv, Clear  PROVE AppInv'
    OBVIOUS
  <1>1. /\ ~started /\ posted = << >> /\ queue = << >> /\ pipe = "idle"
        /\ current = NoBuffers
    BY DEF AppInv, Places, Flowing, Clear
  <1>2. /\ posted' = << >> /\ queue' = << >> /\ free' = << >> /\ DOMAIN queue' = {}
        /\ unqueued' = {} /\ msgs' = << >>
    BY <1>1 DEF Clear, pipeVars
  <1>3. TypeOK'
    <2>1. /\ buffers' \in [Requests -> Requests \cup {NoBuffers}]
          /\ carried' \in [Requests -> [Controls -> Versions]]
          /\ controls' \in [Controls -> Versions]
      BY NoControls DEF Clear
    <2>2. free' \in Seq(Requests) /\ msgs' \in Seq(Requests)
      BY <1>2
    <2>3. pc' = "closed" /\ alive' = FALSE /\ unqueued' = {} /\ inHand' = NoBuffers
          /\ camera' = "Available"
      BY DEF Clear
    <2>4. UNCHANGED <<run, started, pipeVars, unplugged, globalVars, fault>>
      BY DEF Clear
    <2> QED BY <2>1, <2>2, <2>3, <2>4 DEF AppInv, TypeOK, pipeVars, globalVars
  <1>4. Places'
    BY <1>1, <1>2 DEF AppInv, Places, Flowing, Clear, pipeVars
  <1>5. Cancels'
    BY <1>2 DEF Cancels
  <1>6. OnePlace' /\ Buffered'
    BY <1>2, NoRequests DEF OnePlace, Buffered
  <1>7. Matched'
    BY <1>1, <1>2 DEF Clear, pipeVars, Matched, One
  <1>8. Counted'
    BY DEF Clear, Counted, Flowing
  <1> QED BY <1>3, <1>4, <1>5, <1>6, <1>7, <1>8 DEF AppInv

-----------------------------------------------------------------------------
(* The pipeline handler's thread.                                           *)

LEMMA HandleRequestStep == AppInv /\ HandleRequest => AppInv'
  <1> SUFFICES ASSUME AppInv, HandleRequest  PROVE AppInv'
    OBVIOUS
  <1> DEFINE r == Head(posted)
             m == [req |-> r, status |-> "pending"]
  <1>1. /\ pipe = "idle" /\ posted' = Tail(posted) /\ queue' = Append(queue, m)
        /\ UNCHANGED <<loopVars, appVars, pipe, current, cameraVars, globalVars, fault>>
    BY DEF HandleRequest
  <1>2. /\ r \in Requests /\ Tail(posted) \in Seq(Requests) /\ Len(posted) \in Nat
        /\ Len(Tail(posted)) = Len(posted) - 1
        /\ Elements(posted) = Elements(Tail(posted)) \cup {r}
        /\ Distinct(Tail(posted)) /\ r \notin Elements(Tail(posted))
    BY FromFront DEF AppInv, TypeOK, OnePlace, HandleRequest
  <1>3. r \notin ReqsOf(queue)
    BY <1>2 DEF AppInv, OnePlace
  <1>4. /\ queue' \in Seq(Queued) /\ Len(queue') = Len(queue) + 1 /\ Len(queue) \in Nat
        /\ ReqsOf(queue)' = ReqsOf(queue) \cup {r} /\ DistinctReqs(queue)'
        /\ \A i \in DOMAIN queue' : \/ i \in DOMAIN queue /\ queue'[i] = queue[i]
                                    \/ queue'[i].status = "pending"
    <2>1. m \in Queued /\ m.req = r /\ m.status = "pending"
      BY <1>2 DEF Queued
    <2>2. queue \in Seq(Queued) /\ DistinctReqs(queue)
      BY DEF AppInv, TypeOK, OnePlace, Queued
    <2> HIDE DEF m, r
    <2> QED BY <1>1, <1>3, <2>1, <2>2, QueueAtEnd
  <1>5. applied' \in [Controls -> Versions]
    BY <1>2 DEF AppInv, TypeOK, HandleRequest
  <1> HIDE DEF m, r
  <1>6. started /\ posted # << >>
    BY DEF AppInv, Places, HandleRequest
  <1>7. TypeOK'
    BY <1>1, <1>2, <1>4, <1>5
       DEF AppInv, TypeOK, Queued, loopVars, appVars, cameraVars, globalVars
  <1>8. Places'
    BY <1>1, <1>6 DEF AppInv, Places, loopVars, appVars, cameraVars
  <1>9. Cancels'
    BY <1>1, <1>4 DEF AppInv, Cancels, loopVars
  <1>10. OnePlace'
    BY <1>1, <1>2, <1>3, <1>4 DEF AppInv, OnePlace, loopVars, appVars
  <1>11. Buffered'
    BY <1>1, <1>2, <1>4 DEF AppInv, Buffered, loopVars, appVars
  <1>12. Matched'
    BY <1>1 DEF AppInv, Matched, loopVars, appVars
  <1>13. Counted'
    <2>1. UNCHANGED <<pc, unplugged, unqueued, free>>
      BY <1>1 DEF loopVars, appVars, cameraVars
    <2>2. Len(free) \in Nat /\ Cardinality(unqueued) \in Nat
      BY CameraAppAssumption, FS_Subset, FS_CardinalityType DEF AppInv, TypeOK
    <2>3. ASSUME pc \in Flowing, ~unplugged
          PROVE  /\ \A s \in Requests : \/ s \in unqueued' \/ s \in Elements(posted)'
                                        \/ s \in ReqsOf(queue)' \/ s \in Elements(free)'
                 /\ Cardinality(unqueued') + Len(posted') + Len(queue') + Len(free')
                      = Cardinality(Requests)
      <3>1. /\ \A s \in Requests : \/ s \in unqueued \/ s \in Elements(posted)
                                   \/ s \in ReqsOf(queue) \/ s \in Elements(free)
            /\ Cardinality(unqueued) + Len(posted) + Len(queue) + Len(free)
                 = Cardinality(Requests)
        BY <2>3 DEF AppInv, Counted
      <3>2. posted' = Tail(posted)
        BY <1>1
      <3> QED BY <1>2, <1>4, <2>1, <2>2, <3>1, <3>2
    <2> QED BY <2>1, <2>3 DEF Counted
  <1> QED BY <1>7, <1>8, <1>9, <1>10, <1>11, <1>12, <1>13 DEF AppInv

LEMMA WithStatus ==
    ASSUME NEW m \in Queued, NEW s \in {"pending", "complete", "cancelled"}
    PROVE  LET new == [m EXCEPT !.status = s]
           IN new \in Queued /\ new.req = m.req /\ new.status = s
  BY DEF Queued

\* Completing requests, one or all of them, moves none.
LEMMA Completing ==
    ASSUME AppInv, pipe = "idle", pipe' = "deliver", started,
           queue' \in Seq(Queued), DOMAIN queue' = DOMAIN queue,
           \A i \in DOMAIN queue : queue'[i].req = queue[i].req,
           Cancels',
           UNCHANGED <<loopVars, appVars, posted, current, applied, cameraVars,
                       globalVars, fault>>
    PROVE  AppInv'
  <1>1. /\ ReqsOf(queue)' = ReqsOf(queue) /\ Len(queue') = Len(queue)
        /\ DistinctReqs(queue)'
    <2>1. queue \in Seq(Queued) /\ DistinctReqs(queue)
      BY DEF AppInv, TypeOK, OnePlace, Queued
    <2> QED BY <2>1, SameReqs
  <1>2. TypeOK'
    BY DEF AppInv, TypeOK, Queued, loopVars, appVars, cameraVars, globalVars
  <1>3. Places'
    BY DEF AppInv, Places, loopVars, appVars, cameraVars
  <1>4. OnePlace'
    BY <1>1 DEF AppInv, OnePlace, loopVars, appVars
  <1>5. Buffered'
    BY <1>1 DEF AppInv, Buffered, loopVars, appVars
  <1>6. Matched'
    BY DEF AppInv, Matched, loopVars, appVars
  <1>7. Counted'
    BY <1>1 DEF AppInv, Counted, loopVars, appVars, cameraVars
  <1> QED BY <1>2, <1>3, <1>4, <1>5, <1>6, <1>7 DEF AppInv

LEMMA CompleteStep ==
    ASSUME AppInv, NEW i \in DOMAIN queue, Complete(i)
    PROVE  AppInv'
  <1>1. /\ pipe = "idle" /\ pipe' = "deliver"
        /\ queue' = [queue EXCEPT ![i].status = "complete"]
        /\ UNCHANGED <<loopVars, appVars, posted, current, applied, cameraVars,
                       globalVars, fault>>
    BY DEF Complete
  <1>2. queue \in Seq(Queued)
    BY DEF AppInv, TypeOK, Queued
  <1>3. started
    <2>1. queue # << >>
      BY <1>2
    <2> QED BY <2>1 DEF AppInv, Places
  <1>4. /\ DOMAIN queue' = DOMAIN queue
        /\ \A j \in DOMAIN queue : j # i => queue'[j] = queue[j]
        /\ queue'[i] = [queue[i] EXCEPT !.status = "complete"]
    BY <1>1, <1>2
  <1>5. queue[i] \in Queued /\ queue'[i] \in Queued
        /\ queue'[i].req = queue[i].req /\ queue'[i].status = "complete"
    <2>1. queue[i] \in Queued
      BY <1>2
    <2> QED BY <1>4, <2>1, WithStatus
  <1>6. queue' \in Seq(Queued)
    BY <1>1, <1>2, <1>5
  <1>7. Cancels'
    BY <1>1, <1>4, <1>5 DEF AppInv, Cancels, loopVars
  <1> QED BY <1>1, <1>3, <1>4, <1>5, <1>6, <1>7, Completing

LEMMA HandleStopStep == AppInv /\ HandleStop => AppInv'
  <1> SUFFICES ASSUME AppInv, HandleStop  PROVE AppInv'
    OBVIOUS
  <1>1. PICK cancelled \in SUBSET DOMAIN queue :
          queue' = [i \in DOMAIN queue |->
                     [queue[i] EXCEPT !.status =
                        IF i \in cancelled THEN "cancelled" ELSE "complete"]]
    BY DEF HandleStop
  <1>2. /\ pipe = "idle" /\ pipe' = "deliver" /\ pc = "stopping"
        /\ UNCHANGED <<loopVars, appVars, posted, current, applied, cameraVars,
                       globalVars, fault>>
    BY DEF HandleStop
  <1>3. queue \in Seq(Queued) /\ Len(queue) \in Nat /\ DOMAIN queue = 1 .. Len(queue)
    BY DEF AppInv, TypeOK, Queued
  <1>4. ASSUME NEW i \in DOMAIN queue
        PROVE  queue'[i] \in Queued /\ queue'[i].req = queue[i].req
    <2>1. queue[i] \in Queued
      BY <1>3
    <2>2. \/ queue'[i] = [queue[i] EXCEPT !.status = "cancelled"]
          \/ queue'[i] = [queue[i] EXCEPT !.status = "complete"]
      BY <1>1
    <2> QED BY <2>1, <2>2, WithStatus
  <1>5. DOMAIN queue' = DOMAIN queue /\ queue' \in Seq(Queued)
    BY <1>1, <1>3, <1>4
  <1>6. started
    BY <1>2 DEF AppInv, Places
  <1>7. Cancels'
    BY <1>2 DEF Cancels, loopVars
  <1> QED BY <1>2, <1>4, <1>5, <1>6, <1>7, Completing

\* The oldest request goes, to the free list if it was not cancelled.
LEMMA DeliverStep == AppInv /\ Deliver => AppInv'
  <1> SUFFICES ASSUME AppInv, Deliver  PROVE AppInv'
    OBVIOUS
  <1> DEFINE r == Head(queue).req
  <1>1. UNCHANGED <<loopVars, alive, msgs, controls, posted, applied, cameraVars,
                    globalVars>>
    BY DEF Deliver
  <1>2. /\ pipe = "deliver" /\ queue # << >>
        /\ \/ fault' = "fatal" /\ UNCHANGED <<queue, pipe, current, buffers, carried, free>>
           \/ /\ queue' = Tail(queue) /\ UNCHANGED fault
              /\ Head(queue).status = "cancelled"
              /\ UNCHANGED <<pipe, current, buffers, carried, free>>
           \/ /\ queue' = Tail(queue) /\ UNCHANGED fault
              /\ current' = buffers[r]
              /\ buffers' = [buffers EXCEPT ![r] = NoBuffers]
              /\ carried' = [carried EXCEPT ![r] = Empty]
              /\ free' = Append(free, r)
              /\ pipe' = "post"
    BY DEF Deliver, Undelivered
  <1>3. started /\ alive /\ current = NoBuffers
    BY <1>2 DEF AppInv, Places
  <1>4. /\ r \in Requests /\ Tail(queue) \in Seq(Queued) /\ Len(queue) \in Nat
        /\ Len(Tail(queue)) = Len(queue) - 1
        /\ ReqsOf(queue) = ReqsOf(Tail(queue)) \cup {r}
        /\ DistinctReqs(Tail(queue)) /\ r \notin ReqsOf(Tail(queue))
        /\ \A i \in DOMAIN Tail(queue) : \E j \in DOMAIN queue : Tail(queue)[i] = queue[j]
        /\ \E j \in DOMAIN queue : Head(queue) = queue[j]
    <2>1. queue \in Seq(Queued) /\ DistinctReqs(queue)
      BY DEF AppInv, TypeOK, OnePlace, Queued
    <2> QED BY <1>2, <2>1, QueueFromFront
  <1>5. /\ r \notin unqueued /\ r \notin Elements(posted) /\ r \notin Elements(free)
        /\ buffers[r] = r
    BY <1>4 DEF AppInv, OnePlace, Buffered
  <1> HIDE DEF r
  <1>6. CASE UNCHANGED <<queue, pipe, current, buffers, carried, free>> /\ fault' = "fatal"
    <2>1. TypeOK'
      BY <1>1, <1>6 DEF AppInv, TypeOK, loopVars, cameraVars, globalVars
    <2>2. Places' /\ Cancels' /\ Matched'
      BY <1>1, <1>6 DEF AppInv, Places, Cancels, Matched, loopVars, cameraVars
    <2>3. OnePlace' /\ Buffered' /\ Counted'
      BY <1>1, <1>6 DEF AppInv, OnePlace, Buffered, Counted, loopVars, cameraVars
    <2> QED BY <2>1, <2>2, <2>3 DEF AppInv
  <1>7. CASE /\ queue' = Tail(queue) /\ UNCHANGED fault
             /\ Head(queue).status = "cancelled"
             /\ UNCHANGED <<pipe, current, buffers, carried, free>>
    <2>1. pc = "stopping"
      BY <1>4, <1>7 DEF AppInv, Cancels
    <2>2. TypeOK'
      BY <1>1, <1>4, <1>7 DEF AppInv, TypeOK, Queued, loopVars, cameraVars, globalVars
    <2>3. Places'
      BY <1>1, <1>2, <1>3, <1>7 DEF AppInv, Places, loopVars, cameraVars
    <2>4. Cancels' /\ Counted'
      BY <1>1, <2>1 DEF Cancels, Counted, Flowing, loopVars
    <2>5. OnePlace'
      BY <1>1, <1>4, <1>7 DEF AppInv, OnePlace, loopVars
    <2>6. Buffered' /\ Matched'
      BY <1>1, <1>4, <1>7 DEF AppInv, Buffered, Matched, loopVars
    <2> QED BY <2>2, <2>3, <2>4, <2>5, <2>6 DEF AppInv
  <1>8. CASE /\ queue' = Tail(queue) /\ UNCHANGED fault
             /\ current' = buffers[r]
             /\ buffers' = [buffers EXCEPT ![r] = NoBuffers]
             /\ carried' = [carried EXCEPT ![r] = Empty]
             /\ free' = Append(free, r)
             /\ pipe' = "post"
    <2>1. /\ free' \in Seq(Requests) /\ Len(free') = Len(free) + 1 /\ Len(free) \in Nat
          /\ Elements(free)' = Elements(free) \cup {r}
          /\ Distinct(free)'
      <3>1. free \in Seq(Requests) /\ Distinct(free)
        BY DEF AppInv, TypeOK, OnePlace
      <3> QED BY <1>4, <1>5, <1>8, <3>1, AtEnd
    <2>2. TypeOK'
      <3>1. /\ buffers' \in [Requests -> Requests \cup {NoBuffers}]
            /\ carried' \in [Requests -> [Controls -> Versions]]
            /\ current' \in Requests
        BY <1>4, <1>5, <1>8, NoControls DEF AppInv, TypeOK
      <3> QED BY <1>1, <1>4, <1>8, <2>1, <3>1
              DEF AppInv, TypeOK, Queued, loopVars, cameraVars, globalVars
    <2>3. Places'
      <3>1. current' # NoBuffers
        BY <1>4, <1>5, <1>8, CameraAppAssumption
      <3> QED BY <1>1, <1>2, <1>3, <1>8, <3>1 DEF AppInv, Places, Flowing, loopVars, cameraVars
    <2>4. Cancels'
      BY <1>1, <1>4, <1>8 DEF AppInv, Cancels, loopVars
    <2>5. OnePlace'
      BY <1>1, <1>4, <1>5, <1>8, <2>1 DEF AppInv, OnePlace, loopVars
    <2>6. Buffered'
      <3>1. /\ buffers'[r] = NoBuffers
            /\ \A s \in Requests : s # r => buffers'[s] = buffers[s]
        BY <1>4, <1>8 DEF AppInv, TypeOK
      <3> QED BY <1>1, <1>4, <1>5, <1>8, <2>1, <3>1 DEF AppInv, Buffered, loopVars
    <2>7. Matched'
      <3>1. One(current) = << >> /\ One(current)' = <<r>> /\ One(inHand)' = One(inHand)
        BY <1>1, <1>3, <1>4, <1>5, <1>8, CameraAppAssumption DEF One, loopVars
      <3>2. One(inHand) \in Seq(Requests) /\ msgs \in Seq(Requests) /\ msgs' = msgs
        BY <1>1 DEF AppInv, TypeOK, One
      <3>3. free' = Append(free, r) /\ free = (One(inHand) \o msgs) \o << >>
        BY <1>8, <3>1 DEF AppInv, Matched
      <3>4. Append((One(inHand) \o msgs) \o << >>, r) = (One(inHand) \o msgs) \o <<r>>
        BY <1>4, <3>2, LastPosted
      <3>5. free' = (One(inHand)' \o msgs') \o One(current)'
        BY <3>1, <3>2, <3>3, <3>4
      <3> QED BY <3>5 DEF Matched
    <2>8. Counted'
      <3>1. UNCHANGED <<pc, unplugged, unqueued, posted>>
        BY <1>1 DEF loopVars, cameraVars
      <3>2. Len(posted) \in Nat /\ Cardinality(unqueued) \in Nat
        BY CameraAppAssumption, FS_Subset, FS_CardinalityType DEF AppInv, TypeOK
      <3>3. ASSUME pc \in Flowing, ~unplugged
            PROVE  /\ \A s \in Requests : \/ s \in unqueued' \/ s \in Elements(posted)'
                                          \/ s \in ReqsOf(queue)' \/ s \in Elements(free)'
                   /\ Cardinality(unqueued') + Len(posted') + Len(queue') + Len(free')
                        = Cardinality(Requests)
        <4>1. /\ \A s \in Requests : \/ s \in unqueued \/ s \in Elements(posted)
                                     \/ s \in ReqsOf(queue) \/ s \in Elements(free)
              /\ Cardinality(unqueued) + Len(posted) + Len(queue) + Len(free)
                   = Cardinality(Requests)
          BY <3>3 DEF AppInv, Counted
        <4>2. queue' = Tail(queue)
          BY <1>8
        <4>3. \A s \in Requests : \/ s \in unqueued' \/ s \in Elements(posted)'
                                   \/ s \in ReqsOf(queue)' \/ s \in Elements(free)'
          BY <1>4, <2>1, <3>1, <4>1, <4>2
        <4>4. Len(queue') = Len(queue) - 1
          BY <1>4, <4>2
        <4>5. Cardinality(unqueued') + Len(posted') + Len(queue') + Len(free')
                = Cardinality(Requests)
          BY <1>4, <2>1, <3>1, <3>2, <4>1, <4>4
        <4> QED BY <4>3, <4>5
      <3> QED BY <3>1, <3>3 DEF Counted
    <2> QED BY <2>2, <2>3, <2>4, <2>5, <2>6, <2>7, <2>8 DEF AppInv
  <1> QED BY <1>2, <1>6, <1>7, <1>8

LEMMA PostMessageStep == AppInv /\ PostMessage => AppInv'
  <1> SUFFICES ASSUME AppInv, PostMessage  PROVE AppInv'
    OBVIOUS
  <1>1. current \in Requests /\ started
    BY DEF AppInv, TypeOK, Places, PostMessage
  <1>2. TypeOK'
    <2>1. msgs' \in Seq(Requests)
      BY <1>1 DEF AppInv, TypeOK, PostMessage
    <2> QED BY <2>1 DEF AppInv, TypeOK, PostMessage, loopVars, cameraVars, globalVars
  <1>3. Places'
    BY <1>1 DEF AppInv, Places, PostMessage, loopVars, cameraVars
  <1>4. Cancels' /\ OnePlace' /\ Buffered'
    BY DEF AppInv, PostMessage, loopVars, Cancels, OnePlace, Buffered
  <1>5. Matched'
    <2>1. One(inHand) \in Seq(Requests) /\ msgs \in Seq(Requests)
      BY DEF AppInv, TypeOK, One
    <2>2. One(current) = <<current>> /\ One(current)' = << >> /\ One(inHand)' = One(inHand)
      BY <1>1, CameraAppAssumption DEF One, PostMessage, loopVars
    <2>3. msgs' = Append(msgs, current) /\ free' = free
      BY DEF PostMessage
    <2> QED BY <1>1, <2>1, <2>2, <2>3, LastPosted DEF AppInv, Matched
  <1>6. Counted'
    BY DEF AppInv, PostMessage, loopVars, cameraVars, Counted
  <1> QED BY <1>2, <1>3, <1>4, <1>5, <1>6 DEF AppInv

LEMMA DeliveredStep == AppInv /\ Delivered => AppInv'
  <1> SUFFICES ASSUME AppInv, Delivered  PROVE AppInv'
    OBVIOUS
  <1>1. TypeOK'
    BY DEF AppInv, TypeOK, Delivered, loopVars, appVars, cameraVars, globalVars
  <1>2. Places'
    BY DEF AppInv, Places, Delivered, loopVars, appVars, cameraVars
  <1>3. Cancels' /\ Matched'
    BY DEF AppInv, Cancels, Matched, Delivered, loopVars, appVars
  <1>4. OnePlace' /\ Buffered' /\ Counted'
    BY DEF AppInv, OnePlace, Buffered, Counted, Delivered, loopVars, appVars, cameraVars
  <1> QED BY <1>1, <1>2, <1>3, <1>4 DEF AppInv

\* The camera goes, in two steps while it runs.
LEMMA UnplugStep == AppInv /\ Unplug => AppInv'
  <1> SUFFICES ASSUME AppInv, Unplug  PROVE AppInv'
    OBVIOUS
  <1>1. TypeOK'
    <2>1. pipe' \in {"unplug", pipe} /\ unplugged' \in BOOLEAN
      BY DEF AppInv, TypeOK, Unplug
    <2>2. UNCHANGED <<loopVars, appVars, posted, queue, current, applied, camera,
                      globalVars, fault>>
      BY DEF Unplug
    <2> QED BY <2>1, <2>2 DEF AppInv, TypeOK, loopVars, appVars, globalVars
  <1>2. Places'
    BY DEF AppInv, Places, Unplug, loopVars, appVars
  <1>3. Cancels' /\ Matched'
    BY DEF AppInv, Cancels, Matched, Unplug, loopVars, appVars
  <1>4. OnePlace' /\ Buffered' /\ Counted'
    BY DEF AppInv, OnePlace, Buffered, Counted, Unplug, loopVars, appVars
  <1> QED BY <1>1, <1>2, <1>3, <1>4 DEF AppInv

LEMMA UnpluggedStep == AppInv /\ Unplugged => AppInv'
  <1> SUFFICES ASSUME AppInv, Unplugged  PROVE AppInv'
    OBVIOUS
  <1>1. TypeOK'
    BY DEF AppInv, TypeOK, Unplugged, loopVars, appVars, globalVars
  <1>2. Places'
    BY DEF AppInv, Places, Unplugged, loopVars, appVars
  <1>3. Cancels' /\ Matched'
    BY DEF AppInv, Cancels, Matched, Unplugged, loopVars, appVars
  <1>4. OnePlace' /\ Buffered' /\ Counted'
    BY DEF AppInv, OnePlace, Buffered, Counted, Unplugged, loopVars, appVars
  <1> QED BY <1>1, <1>2, <1>3, <1>4 DEF AppInv

-----------------------------------------------------------------------------
(* The theorems.                                                            *)

LEMMA Step == AppInv /\ [Next]_vars => AppInv'
  <1> SUFFICES ASSUME AppInv, [Next]_vars  PROVE AppInv'
    OBVIOUS
  <1>1. CASE Loop
    BY <1>1, OpenStep, StartCameraStep, QueueFirstStep, LoopTopStep, WaitStep,
       QueueRequestStep, StopCameraStep, StopReturnsStep, ClearStep DEF Loop
  <1>2. CASE Pipeline
    BY <1>2, HandleRequestStep, CompleteStep, HandleStopStep, DeliverStep,
       PostMessageStep, DeliveredStep, UnpluggedStep DEF Pipeline
  <1>3. CASE Unplug \/ StopLoop \/ \E c \in Controls : SetControl(c)
    BY <1>3, UnplugStep, StopLoopStep, SetControlStep
  <1>4. CASE UNCHANGED vars
    BY <1>4, StutterStep
  <1> QED BY <1>1, <1>2, <1>3, <1>4 DEF Next, Ended

\* The invariant of the loop of run.cpp and the pipeline handler's thread.
THEOREM Invariance == Spec => []AppInv
  <1>1. Init => AppInv
    BY Initially
  <1>2. AppInv /\ [Next]_vars => AppInv'
    BY Step
  <1> QED BY <1>1, <1>2, PTL DEF Spec

\* Every variable of the application and of the camera it uses has its type.
THEOREM TypeCorrect == Spec => []TypeOK
  <1>1. AppInv => TypeOK
    BY DEF AppInv
  <1> QED BY <1>1, Invariance, PTL

\* While event_loop keeps the camera running, StartCamera's requests are all
\* there, each once: to be queued, posted, with the pipeline handler, or on the
\* free list requestComplete fills and QueueRequest empties; and what the
\* pipeline handler holds was not deleted, and has its own buffers.
THEOREM RequestsSafety == Spec => []RequestsConserved
  <1>1. ASSUME AppInv  PROVE RequestsConserved
    <2>1. InPipe = Elements(posted) \cup ReqsOf(queue)
      BY DEF InPipe, ReqsOf
    <2>2. /\ Elements(posted) \subseteq Requests /\ ReqsOf(queue) \subseteq Requests
          /\ Elements(free) \subseteq Requests /\ unqueued \subseteq Requests
      <3>1. /\ posted \in Seq(Requests) /\ free \in Seq(Requests)
            /\ queue \in Seq(Queued) /\ unqueued \subseteq Requests
        BY <1>1 DEF AppInv, TypeOK, Queued
      <3>2. \A i \in DOMAIN queue : queue[i] \in Queued
        BY <3>1
      <3>3. \A i \in DOMAIN queue : queue[i].req \in Requests
        BY <3>2 DEF Queued
      <3> QED BY <3>1, <3>3 DEF Elements, ReqsOf
    <2>3. ASSUME pc \in Flowing, ~unplugged
          PROVE  /\ unqueued \cup InPipe \cup Elements(free) = Requests
                 /\ Cardinality(unqueued) + Len(posted) + Len(queue) + Len(free)
                      = Cardinality(Requests)
      BY <1>1, <2>1, <2>2, <2>3 DEF AppInv, Counted
    <2>4. \A r \in InPipe : alive /\ buffers[r] = r
      BY <1>1, <2>1, <2>2 DEF AppInv, Buffered
    <2> QED BY <2>3, <2>4 DEF RequestsConserved, Flowing
  <1> QED BY <1>1, Invariance, PTL

\* free_requests_ is always the requests of msg_queue_ in the same order, with
\* the one before it that the loop has in hand and the one after it whose
\* message requestComplete has yet to post: QueueRequest finds a free request
\* for every message, and the buffers it adds are the request's own.
THEOREM MessagesMatched == Spec => []FreeMatchesMessages
  <1>1. ASSUME AppInv  PROVE FreeMatchesMessages
    BY <1>1 DEF AppInv, Matched, One, FreeMatchesMessages
  <1> QED BY <1>1, Invariance, PTL
=============================================================================
