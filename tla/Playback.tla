------------------------------ MODULE Playback ------------------------------
(***************************************************************************)
(* What a recording promises its reader: a log of frames that only grows,  *)
(* and a cursor that walks it.  A read hands out the frame at the cursor   *)
(* and moves past it, a read at the end hands out nothing, a seek moves    *)
(* the cursor to an existing frame, and recording never disturbs a reader. *)
(* FrameList, the linked list of framelist.c, is shown to implement this.  *)
(***************************************************************************)
EXTENDS Integers, Sequences

CONSTANTS
  Frames,   (* the values a frame can have                                 *)
  NoFrame   (* what a read at the end of the log returns                   *)

VARIABLES
  log,      (* the recorded frames, oldest first                           *)
  pos,      (* how many frames of the log lie behind the cursor            *)
  out       (* what the last read returned                                 *)

vars == <<log, pos, out>>

Init ==
  /\ log = << >>
  /\ pos = 0
  /\ out = NoFrame

\* One more frame at the end of the log.
Record ==
  /\ Len(log') = Len(log) + 1
  /\ log'[Len(log')] \in Frames
  /\ log' = Append(log, log'[Len(log')])
  /\ UNCHANGED <<pos, out>>

Read ==
  /\ pos < Len(log)
  /\ out' = log[pos + 1]
  /\ pos' = pos + 1
  /\ UNCHANGED log

ReadAtEnd ==
  /\ pos = Len(log)
  /\ out' = NoFrame
  /\ UNCHANGED <<log, pos>>

Seek(n) ==
  /\ pos' = n
  /\ UNCHANGED <<log, out>>

\* The recording is thrown away and a new one takes its place.
Renew ==
  /\ log' = << >>
  /\ pos' = 0
  /\ out' = NoFrame

Next ==
  \/ Record
  \/ Read
  \/ ReadAtEnd
  \/ \E n \in 0..(Len(log) - 1) : Seek(n)
  \/ Renew

Spec == Init /\ [][Next]_vars
=============================================================================
