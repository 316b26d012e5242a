------------------------------ MODULE Dispatch ------------------------------
(* libcamera's threads and messages, as a camera uses them: the application's *)
(* thread A calls into the pipeline handler's thread P (the camera manager's  *)
(* thread), which calls into the IPA's thread I through its proxy; the IPA    *)
(* answers with signals. P and I run an event loop that dispatches the        *)
(* messages posted to them and then polls. A blocking call posts a message    *)
(* and waits for its semaphore. Stopping the proxy stops I from inside a      *)
(* message of P, and dispatches there what I has posted.                      *)
EXTENDS Naturals, Sequences

CONSTANT MaxCalls   \* bound: calls of the application and events of devices

ASSUME DispatchAssumption == MaxCalls \in Nat

Loops == {"P", "I"}
Callers == {"A"} \cup Loops
None == "none"
End == 0                    \* the end iterator of a list; node numbers start at 1

\* DeferredDelete has a type of its own, all other messages are InvokeMessages.
Kinds == {"start", "work", "stop", "begin", "run", "quit", "signal", "delete"}
TypeOf(kind) == IF kind = "delete" THEN "DeferredDelete" ELSE "InvokeMessage"

VARIABLES
    pc,         \* place of every thread
    list,       \* messages_.list_ of a loop: [id, kind]
    frames,     \* of a loop: its active dispatchMessages: [type, iter]
    cur,        \* of a loop: kind of the message its handler is working on
    made,       \* of a loop: dispatcher_ exists
    wake,       \* of a loop: its eventfd is signalled
    exit,       \* of a loop: exit_
    owes,       \* of a thread: the loop it has posted to and has yet to interrupt
    sem,        \* of a thread: the semaphore it waits for was released
    proxy,      \* state of the IPA proxy
    nextId,     \* number of the next message
    calls,      \* calls and events so far
    fault       \* undefined behaviour, or a failed assertion

vars == <<pc, list, frames, cur, made, wake, exit, owes, sem, proxy, nextId,
          calls, fault>>

Init ==
    /\ pc = [A |-> "closed", P |-> "off", I |-> "off"]
    /\ list = [t \in Loops |-> << >>]
    /\ frames = [t \in Loops |-> << >>]
    /\ cur = [t \in Loops |-> None]
    /\ made = [t \in Loops |-> FALSE]
    /\ wake = [t \in Loops |-> FALSE]
    /\ exit = [t \in Loops |-> FALSE]
    /\ owes = [t \in Callers |-> None]
    /\ sem = [t \in Callers |-> FALSE]
    /\ proxy = "Stopped"
    /\ nextId = 1
    /\ calls = 0
    /\ fault = None

-----------------------------------------------------------------------------
(* Posting: the message goes into the list under its mutex, and then, if the *)
(* receiver's dispatcher exists, it is interrupted.                          *)

Free(t) == fault = None /\ owes[t] = None

\* Thread t posts to loop u; `lists' is the lists as the step leaves them.
Post(t, u, kind, lists) ==
    /\ list' = [lists EXCEPT ![u] = Append(@, [id |-> nextId, kind |-> kind])]
    /\ nextId' = nextId + 1
    /\ owes' = [owes EXCEPT ![t] = u]

Interrupt(t) ==
    /\ fault = None
    /\ owes[t] # None
    /\ wake' = [wake EXCEPT ![owes[t]] = made[owes[t]] \/ @]
    /\ owes' = [owes EXCEPT ![t] = None]
    /\ UNCHANGED <<pc, list, frames, cur, made, exit, sem, proxy, nextId, calls,
                   fault>>

-----------------------------------------------------------------------------
(* The application's thread: start() and stop() block, queueRequest() does    *)
(* not. Closing the camera stops the manager's thread.                        *)

Call ==
    /\ Free("A")
    /\ calls < MaxCalls
    /\ calls' = calls + 1

\* CameraManager::start, with a new thread.
Open ==
    /\ Call
    /\ pc["A"] = "closed"
    /\ pc' = [pc EXCEPT !["A"] = "stopped", !["P"] = "exec"]
    /\ list' = [t \in Loops |-> << >>]
    /\ made' = [t \in Loops |-> FALSE]
    /\ wake' = [t \in Loops |-> FALSE]
    /\ exit' = [t \in Loops |-> FALSE]
    /\ UNCHANGED <<frames, cur, owes, sem, proxy, nextId, fault>>

Starts ==
    /\ Call
    /\ pc["A"] = "stopped"
    /\ pc' = [pc EXCEPT !["A"] = "starting"]
    /\ Post("A", "P", "start", list)
    /\ UNCHANGED <<frames, cur, made, wake, exit, sem, proxy, fault>>

QueueRequest ==
    /\ Call
    /\ pc["A"] = "running"
    /\ Post("A", "P", "work", list)
    /\ UNCHANGED <<pc, frames, cur, made, wake, exit, sem, proxy, fault>>

Stops ==
    /\ Call
    /\ pc["A"] = "running"
    /\ pc' = [pc EXCEPT !["A"] = "stopping"]
    /\ Post("A", "P", "stop", list)
    /\ UNCHANGED <<frames, cur, made, wake, exit, sem, proxy, fault>>

\* The semaphore of a blocking call was released.
Returns ==
    /\ Free("A")
    /\ sem["A"]
    /\ sem' = [sem EXCEPT !["A"] = FALSE]
    /\ pc' = [pc EXCEPT !["A"] = IF @ = "starting" THEN "running" ELSE "stopped"]
    /\ UNCHANGED <<list, frames, cur, made, wake, exit, owes, proxy, nextId,
                   calls, fault>>

\* Variant: the dispatcher is not interrupted.
ExitSilently(t, u) ==
    /\ exit' = [exit EXCEPT ![u] = TRUE]
    /\ UNCHANGED owes

\* Thread::exit sets the flag and then interrupts the dispatcher.
Exit(t, u) ==
    /\ exit' = [exit EXCEPT ![u] = TRUE]
    /\ owes' = [owes EXCEPT ![t] = u]

Close ==
    /\ Call
    /\ pc["A"] = "stopped"
    /\ Exit("A", "P")
    /\ pc' = [pc EXCEPT !["A"] = "closing"]
    /\ UNCHANGED <<list, frames, cur, made, wake, sem, proxy, nextId, fault>>

Closed ==
    /\ Free("A")
    /\ pc["A"] = "closing"
    /\ pc["P"] = "off"
    /\ pc' = [pc EXCEPT !["A"] = "closed"]
    /\ UNCHANGED <<list, frames, cur, made, wake, exit, owes, sem, proxy, nextId,
                   calls, fault>>

-----------------------------------------------------------------------------
(* dispatchMessages. An iterator is the number of a node; a node is erased    *)
(* before its message is handled, with the iterator moved on to the next one. *)

Begin(lst) == IF lst = << >> THEN End ELSE Head(lst).id
Position(lst, id) == CHOOSE i \in DOMAIN lst : lst[i].id = id
After(lst, id) ==
    LET i == Position(lst, id)
    IN IF i = Len(lst) THEN End ELSE lst[i + 1].id
Erase(lst, id) ==
    LET i == Position(lst, id)
    IN SubSeq(lst, 1, i - 1) \o SubSeq(lst, i + 1, Len(lst))

Frame(t) == frames[t][Len(frames[t])]
Enter(t, type) ==
    frames' = [frames EXCEPT ![t] = Append(@, [type |-> type,
                                               iter |-> Begin(list[t])])]
SetIter(t, id) == [frames[t] EXCEPT ![Len(frames[t])].iter = id]

\* exec: the loop goes on until exit_ is set.
Exec(t) ==
    /\ Free(t)
    /\ pc[t] = "exec"
    /\ made' = [made EXCEPT ![t] = TRUE]
    /\ IF exit[t]
         THEN /\ pc' = [pc EXCEPT ![t] = IF t = "P" THEN "cleanup" ELSE "off"]
              /\ UNCHANGED frames
         ELSE pc' = [pc EXCEPT ![t] = "dispatch"] /\ Enter(t, None)
    /\ UNCHANGED <<list, cur, wake, exit, owes, sem, proxy, nextId, calls, fault>>

Dispatching(t) == Free(t) /\ pc[t] = "dispatch" /\ cur[t] = None

\* A message is taken out. (One of another type would be passed over; no list
\* a nested dispatchMessages walks ever holds one.) The iterators of the
\* dispatchMessages active around this one stay, even one at the same node.
Take(t) ==
    /\ Dispatching(t)
    /\ Frame(t).iter # End
    /\ LET id == Frame(t).iter
           m == list[t][Position(list[t], id)]
       IN /\ Frame(t).type \in {None, TypeOf(m.kind)}
          /\ cur' = [cur EXCEPT ![t] = m.kind]
          /\ list' = [list EXCEPT ![t] = Erase(@, id)]
          /\ frames' = [frames EXCEPT ![t] = SetIter(t, After(list[t], id))]
          /\ fault' = IF \E i \in 1 .. Len(frames[t]) - 1 : frames[t][i].iter = id
                        THEN "dangling" ELSE fault
    /\ UNCHANGED <<pc, made, wake, exit, owes, sem, proxy, nextId, calls>>

\* Variant: the eventfd is read when the messages are dispatched, not by the poll.
FinishClearsWake(t) ==
    /\ Dispatching(t)
    /\ Frame(t).iter = End /\ Frame(t).type = None
    /\ frames' = [frames EXCEPT ![t] = SubSeq(@, 1, Len(@) - 1)]
    /\ pc' = [pc EXCEPT ![t] = "poll"]
    /\ wake' = [wake EXCEPT ![t] = FALSE]
    /\ UNCHANGED <<list, cur, made, exit, owes, sem, proxy, nextId, calls, fault>>

\* At the end of the list: on to the poll, back into the proxy's stop(), or the
\* end of the manager's thread.
Finish(t) ==
    /\ Dispatching(t)
    /\ Frame(t).iter = End
    /\ frames' = [frames EXCEPT ![t] = SubSeq(@, 1, Len(@) - 1)]
    /\ CASE Frame(t).type = None ->
              pc' = [pc EXCEPT ![t] = "poll"] /\ UNCHANGED <<proxy, sem>>
         [] Frame(t).type = "InvokeMessage" ->
              /\ proxy' = "Stopped"
              /\ sem' = [sem EXCEPT !["A"] = TRUE]
              /\ UNCHANGED pc
         [] OTHER -> pc' = [pc EXCEPT ![t] = "off"] /\ UNCHANGED <<proxy, sem>>
    /\ UNCHANGED <<list, cur, made, wake, exit, owes, nextId, calls, fault>>

Poll(t) ==
    /\ Free(t)
    /\ pc[t] = "poll"
    /\ wake[t]
    /\ wake' = [wake EXCEPT ![t] = FALSE]
    /\ pc' = [pc EXCEPT ![t] = "exec"]
    /\ UNCHANGED <<list, frames, cur, made, exit, owes, sem, proxy, nextId,
                   calls, fault>>

\* A device has a buffer: the handler calls the IPA, unless it was stopped. The
\* eventfd is read first if it is signalled.
DeviceEvent ==
    /\ Free("P")
    /\ pc["P"] = "poll"
    /\ calls < MaxCalls
    /\ proxy = "Running"
    /\ calls' = calls + 1
    /\ wake' = [wake EXCEPT !["P"] = FALSE]
    /\ pc' = [pc EXCEPT !["P"] = "exec"]
    /\ Post("P", "I", "run", list)
    /\ UNCHANGED <<frames, cur, made, exit, sem, proxy, fault>>

-----------------------------------------------------------------------------
(* The handlers.                                                            *)

Handling(t, kind) == Free(t) /\ pc[t] = "dispatch" /\ cur[t] = kind
Done(t) == cur' = [cur EXCEPT ![t] = None]

\* The proxy's start() starts the thread and makes a blocking call.
HandleStart ==
    /\ Handling("P", "start")
    /\ proxy' = "Running"
    /\ exit' = [exit EXCEPT !["I"] = FALSE]
    /\ pc' = [pc EXCEPT !["P"] = "begun", !["I"] = "exec"]
    /\ Post("P", "I", "begin", list)
    /\ UNCHANGED <<frames, cur, made, wake, sem, calls, fault>>

Started ==
    /\ Free("P")
    /\ pc["P"] = "begun"
    /\ sem["P"]
    /\ sem' = [sem EXCEPT !["P"] = FALSE, !["A"] = TRUE]
    /\ pc' = [pc EXCEPT !["P"] = "dispatch"]
    /\ Done("P")
    /\ UNCHANGED <<list, frames, made, wake, exit, owes, proxy, nextId, calls,
                   fault>>

HandleWork ==
    /\ Handling("P", "work")
    /\ IF proxy = "Running"
         THEN Post("P", "I", "run", list)
         ELSE UNCHANGED <<list, nextId, owes>>
    /\ Done("P")
    /\ UNCHANGED <<pc, frames, made, wake, exit, sem, proxy, calls, fault>>

\* A signal of the IPA: ASSERT(state_ != ProxyStopped).
HandleSignal ==
    /\ Handling("P", "signal")
    /\ fault' = IF proxy = "Stopped" THEN "assertion" ELSE fault
    /\ Done("P")
    /\ UNCHANGED <<pc, list, frames, made, wake, exit, owes, sem, proxy, nextId,
                   calls>>

HandleDelete ==
    /\ Handling("P", "delete")
    /\ Done("P")
    /\ UNCHANGED <<pc, list, frames, made, wake, exit, owes, sem, proxy, nextId,
                   calls, fault>>

\* The proxy's stop(): a blocking call, exit() and wait() for the thread, and
\* the messages it has posted are dispatched.
HandleStop ==
    /\ Handling("P", "stop")
    /\ proxy = "Running"
    /\ proxy' = "Stopping"
    /\ pc' = [pc EXCEPT !["P"] = "quitting"]
    /\ Post("P", "I", "quit", list)
    /\ UNCHANGED <<frames, cur, made, wake, exit, sem, calls, fault>>

StopThread ==
    /\ Free("P")
    /\ pc["P"] = "quitting"
    /\ sem["P"]
    /\ sem' = [sem EXCEPT !["P"] = FALSE]
    /\ Exit("P", "I")
    /\ pc' = [pc EXCEPT !["P"] = "waiting"]
    /\ UNCHANGED <<list, frames, cur, made, wake, proxy, nextId, calls, fault>>

\* Variant: the messages of the stopped thread are left for later.
ThreadStoppedNoDispatch ==
    /\ Free("P")
    /\ pc["P"] = "waiting"
    /\ pc["I"] = "off"
    /\ pc' = [pc EXCEPT !["P"] = "dispatch"]
    /\ proxy' = "Stopped"
    /\ sem' = [sem EXCEPT !["A"] = TRUE]
    /\ Done("P")
    /\ UNCHANGED <<list, frames, made, wake, exit, owes, nextId, calls, fault>>

ThreadStopped ==
    /\ Free("P")
    /\ pc["P"] = "waiting"
    /\ pc["I"] = "off"
    /\ pc' = [pc EXCEPT !["P"] = "dispatch"]
    /\ Done("P")
    /\ Enter("P", "InvokeMessage")
    /\ UNCHANGED <<list, made, wake, exit, owes, sem, proxy, nextId, calls, fault>>

\* CameraManager::Private::cleanup: the last reference to the camera goes, which
\* posts its deletion, and what is to be deleted is.
Cleanup ==
    /\ Free("P")
    /\ pc["P"] = "cleanup"
    /\ Post("P", "P", "delete", list)
    /\ pc' = [pc EXCEPT !["P"] = "deleting"]
    /\ UNCHANGED <<frames, cur, made, wake, exit, sem, proxy, calls, fault>>

\* Variant: the thread ends without another look at its messages.
DeleteCamerasNever ==
    /\ Free("P")
    /\ pc["P"] = "deleting"
    /\ pc' = [pc EXCEPT !["P"] = "off"]
    /\ UNCHANGED <<list, frames, cur, made, wake, exit, owes, sem, proxy, nextId,
                   calls, fault>>

DeleteCameras ==
    /\ Free("P")
    /\ pc["P"] = "deleting"
    /\ pc' = [pc EXCEPT !["P"] = "dispatch"]
    /\ Enter("P", "DeferredDelete")
    /\ UNCHANGED <<list, cur, made, wake, exit, owes, sem, proxy, nextId, calls,
                   fault>>

\* The IPA's handlers: a blocking call is answered, a queued one signals.
HandleBlocking(kind) ==
    /\ Handling("I", kind)
    /\ sem' = [sem EXCEPT !["P"] = TRUE]
    /\ Done("I")
    /\ UNCHANGED <<pc, list, frames, made, wake, exit, owes, proxy, nextId,
                   calls, fault>>

HandleRun ==
    /\ Handling("I", "run")
    /\ Post("I", "P", "signal", list)
    /\ Done("I")
    /\ UNCHANGED <<pc, frames, made, wake, exit, sem, proxy, calls, fault>>

-----------------------------------------------------------------------------
Application ==
    Open \/ Starts \/ QueueRequest \/ Stops \/ Close

EventLoop(t) == Interrupt(t) \/ Exec(t) \/ Take(t) \/ Finish(t) \/ Poll(t)

PipelineThread ==
    \/ EventLoop("P")
    \/ HandleStart \/ Started \/ HandleWork \/ HandleSignal \/ HandleDelete
    \/ HandleStop \/ StopThread \/ ThreadStopped \/ Cleanup \/ DeleteCameras

IpaThread ==
    \/ EventLoop("I")
    \/ \E kind \in {"begin", "quit"} : HandleBlocking(kind)
    \/ HandleRun

CallProceeds == Interrupt("A") \/ Returns \/ Closed

Next ==
    \/ Application
    \/ CallProceeds
    \/ PipelineThread
    \/ DeviceEvent
    \/ IpaThread

Spec == Init /\ [][Next]_vars

\* Every thread runs; the calls themselves, and the devices, are not forced.
Fairness ==
    /\ WF_vars(CallProceeds)
    /\ WF_vars(PipelineThread)
    /\ WF_vars(IpaThread)

LiveSpec == Spec /\ Fairness

-----------------------------------------------------------------------------
(* Properties.                                                              *)

TypeOK ==
    /\ pc["A"] \in {"closed", "stopped", "starting", "running", "stopping",
                    "closing"}
    /\ pc["P"] \in {"off", "exec", "dispatch", "poll", "begun", "quitting",
                    "waiting", "cleanup", "deleting"}
    /\ pc["I"] \in {"off", "exec", "dispatch", "poll"}
    /\ list \in [Loops -> Seq([id : Nat \ {0}, kind : Kinds])]
    /\ cur \in [Loops -> Kinds \cup {None}]
    /\ made \in [Loops -> BOOLEAN]
    /\ wake \in [Loops -> BOOLEAN]
    /\ exit \in [Loops -> BOOLEAN]
    /\ owes \in [Callers -> Loops \cup {None}]
    /\ sem \in [Callers -> BOOLEAN]
    /\ proxy \in {"Stopped", "Running", "Stopping"}
    /\ nextId \in Nat \ {0}
    /\ calls \in 0 .. MaxCalls
    /\ fault \in {None, "dangling", "assertion"}

\* A loop sleeps in poll() with messages in its list, or told to exit, only
\* until an interrupt that is signalled or about to be: no wake-up is lost.
WakeupKept ==
    \A t \in Loops :
      pc[t] = "poll" /\ (list[t] # << >> \/ exit[t]) =>
        wake[t] \/ \E c \in Callers : owes[c] = t

\* stop() of the proxy is synchronous: once the proxy is stopped, the IPA's
\* thread is over, nothing is left for it, and none of its signals is left to be
\* delivered (the proxy's handlers assert that).
StopIsSynchronous ==
    fault = None /\ proxy = "Stopped" =>
      /\ pc["I"] = "off"
      /\ list["I"] = << >>
      /\ \A i \in DOMAIN list["P"] : list["P"][i].kind # "signal"
      /\ cur["P"] # "signal"

\* The camera is deleted, in its thread, before that thread ends.
CameraDeleted ==
    fault = None /\ pc["P"] = "off" =>
      \A i \in DOMAIN list["P"] : list["P"][i].kind # "delete"

\* A blocking call returns.
CallsReturn ==
    \A place \in {"starting", "stopping", "closing"} :
      pc["A"] = place ~> pc["A"] # place \/ fault # None

\* "This function immediately dispatches all the messages previously posted for
\* this thread ... that match the message type" (thread.cpp:543), from wherever it
\* is called: no dispatchMessages is left with an iterator to an erased node.
NoDanglingIterator == fault # "dangling"
=============================================================================
