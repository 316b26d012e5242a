---------------------------- MODULE KCameraProofs ---------------------------
(***************************************************************************)
(* Safety of the threads of kcamera.c and run.cpp, for any number of       *)
(* Python threads, records and video threads: type correctness, mutual     *)
(* exclusion by m_paramsMutex and by the GIL, that no freed record is      *)
(* reached, that m_run and m_stopping mean what the callers take them to   *)
(* mean, and that no frame is stranded and no read gives up too early.     *)
(*                                                                         *)
(* The inductive invariant is KInv.  Its parts are proved one after the    *)
(* other, each step lemma resting on the parts before it.                  *)
(***************************************************************************)
EXTENDS KCamera, TLAPS

(* A call that is about a record, read() or the end of a Streamer, is at   *)
(* one of its own places; what is about to be freed is out of reach.       *)
RecordCalls ==
  \A t \in PyThreads :
    /\ call[t] = "read" => pc[t] \in {"waitNext", "flistNext"}
    /\ call[t] = "drop" => pc[t] = "flistClear"
    /\ pc[t] = "flistClear" =>
         call[t] = "drop" /\ arg[t] \notin held /\ arg[t] # m_record

(* A video thread that has stopped the capture itself and still holds      *)
(* m_paramsMutex has left m_run at 0.                                      *)
StopMarkIdle ==
  fault = "none" => \A v \in Vids : vpc[v] = "stopMark" => ~m_run

(* A caller that joins has left m_run at 0. *)
StoppedIdle == fault = "none" => \A t \in PyThreads : pc[t] = "stopJoin" => ~m_run

(* Video threads are created in order. *)
Unborn == \A v \in Vids : v > m_thread => vpc[v] = "unborn"

LoopInv == StoppedIdle /\ Unborn /\ RunHasLoop /\ StoppingHasOwner

(* A call that restarts the camera with its recording, or starts it for a  *)
(* new one, between kcStop's m_run = 0 and kcStart's m_run = 1.            *)
Restarting(t) == call[t] = "mode" /\ pc[t] \in {"stopJoin", "startLock", "startInit"}
StartsRecord(t) == call[t] = "record" /\ pc[t] \in {"startLock", "startInit"}

(* Outside such calls there is a recording only while the camera runs.     *)
RecordRuns ==
  fault = "none" /\ m_record # None /\ ~m_run =>
    \E t \in PyThreads : Restarting(t) \/ StartsRecord(t)

(* A reader that has ended its wait has a frame to read, or reads what is  *)
(* no longer recorded.                                                     *)
ReadOver ==
  /\ \A t \in PyThreads : pc[t] = "startRecord" => call[t] = "record"
  /\ \A t \in PyThreads : pc[t] \in {"waitNext", "flistNext"} => call[t] = "read" /\ arg[t] \in Records
  /\ fault = "none" =>
       \A t \in PyThreads : pc[t] = "flistNext" => arg[t] \in unread \/ arg[t] # m_record

FrameInv == RecordRuns /\ ReadOver /\ NoStrandedFrame

RecordInv == RecordCalls /\ RecordPointerValid

StoppingInv == StopMarkIdle /\ StoppingMeansIdle

KInv ==
  /\ TypeOK /\ ParamsExclusive /\ GilExclusive /\ RecordInv /\ StoppingInv /\ LoopInv
  /\ FrameInv

-----------------------------------------------------------------------------
(* Every step of every thread keeps the types. *)
LEMMA TypeStep == TypeOK /\ [Next]_vars => TypeOK'
<1> SUFFICES ASSUME TypeOK, [Next]_vars PROVE TypeOK'
  OBVIOUS
<1> USE ConstantsAssumption DEF ConstantsAssumption, At, VidAt, Goto, VidGoto, Die,
      sync, state, loop, lists, python, video, Vids, PyPlaces, VidPlaces, Calls,
      TypeOK, SyncType, StateType, LoopType, ListType, PythonType, VideoType, FaultType
<1>1. ASSUME NEW t \in PyThreads, CallFrame(t) PROVE TypeOK'
  BY <1>1 DEF CallFrame, Enter
<1>2. ASSUME NEW t \in PyThreads, CallStop(t) PROVE TypeOK'
  BY <1>2 DEF CallStop, Enter
<1>3. ASSUME NEW t \in PyThreads, CallRecord(t) PROVE TypeOK'
  BY <1>3 DEF CallRecord, Enter, KcStopRecord
<1>4. ASSUME NEW t \in PyThreads, CallStopRecord(t) PROVE TypeOK'
  BY <1>4 DEF CallStopRecord, KcStopRecord
<1>5. ASSUME NEW t \in PyThreads, CallRead(t) PROVE TypeOK'
  BY <1>5 DEF CallRead, Enter
<1>6. ASSUME NEW t \in PyThreads, CallDrop(t) PROVE TypeOK'
  BY <1>6 DEF CallDrop, Enter
<1>7. ASSUME NEW t \in PyThreads, CallProgress(t) PROVE TypeOK'
  BY <1>7 DEF CallProgress, Enter
<1>8. ASSUME NEW t \in PyThreads, CallMode(t) PROVE TypeOK'
  BY <1>8 DEF CallMode, Enter
<1>9. ASSUME NEW t \in PyThreads, WaitLast(t) PROVE TypeOK'
  <2>1. SyncType'
    <3>1. UNCHANGED <<gil, params>> /\ waiting' \in {waiting, waiting \cup {t}}
      BY <1>9 DEF WaitLast
    <3> QED BY <3>1
  <2>2. StateType'
    BY <1>9 DEF WaitLast
  <2>3. LoopType'
    BY <1>9 DEF WaitLast
  <2>4. ListType'
    BY <1>9 DEF WaitLast
  <2>5. PythonType'
    BY <1>9, ZenonT(60) DEF WaitLast
  <2>6. VideoType'
    BY <1>9 DEF WaitLast
  <2>7. FaultType'
    BY <1>9 DEF WaitLast
  <2> HIDE DEF SyncType, StateType, LoopType, ListType, PythonType, VideoType, FaultType
  <2> QED BY <2>1, <2>2, <2>3, <2>4, <2>5, <2>6, <2>7
<1>10. ASSUME NEW t \in PyThreads, CopyLast(t) PROVE TypeOK'
  <2>1. SyncType'
    BY <1>10 DEF CopyLast, Return
  <2>2. StateType'
    BY <1>10 DEF CopyLast, Return
  <2>3. LoopType'
    BY <1>10 DEF CopyLast, Return
  <2>4. ListType'
    BY <1>10 DEF CopyLast, Return
  <2>5. PythonType'
    BY <1>10, ZenonT(60) DEF CopyLast, Return
  <2>6. VideoType'
    BY <1>10 DEF CopyLast, Return
  <2>7. FaultType'
    BY <1>10 DEF CopyLast, Return
  <2> HIDE DEF SyncType, StateType, LoopType, ListType, PythonType, VideoType, FaultType
  <2> QED BY <2>1, <2>2, <2>3, <2>4, <2>5, <2>6, <2>7
<1>11. ASSUME NEW t \in PyThreads, NextStream(t) PROVE TypeOK'
  BY <1>11 DEF NextStream
<1>12. ASSUME NEW t \in PyThreads, TakeFirst(t) PROVE TypeOK'
  <2>1. SyncType'
    BY <1>12 DEF TakeFirst, Return
  <2>2. StateType'
    BY <1>12 DEF TakeFirst, Return
  <2>3. LoopType'
    BY <1>12 DEF TakeFirst, Return
  <2>4. ListType'
    BY <1>12 DEF TakeFirst, Return
  <2>5. PythonType'
    BY <1>12 DEF TakeFirst, Return
  <2>6. VideoType'
    BY <1>12 DEF TakeFirst, Return
  <2>7. FaultType'
    BY <1>12 DEF TakeFirst, Return
  <2> HIDE DEF SyncType, StateType, LoopType, ListType, PythonType, VideoType, FaultType
  <2> QED BY <2>1, <2>2, <2>3, <2>4, <2>5, <2>6, <2>7
<1>13. ASSUME NEW t \in PyThreads, TakeLoop(t) PROVE TypeOK'
  <2>1. SyncType'
    BY <1>13 DEF TakeLoop
  <2>2. StateType'
    BY <1>13 DEF TakeLoop
  <2>3. LoopType'
    BY <1>13 DEF TakeLoop
  <2>4. ListType'
    BY <1>13 DEF TakeLoop
  <2>5. PythonType'
    BY <1>13 DEF TakeLoop
  <2>6. VideoType'
    BY <1>13 DEF TakeLoop
  <2>7. FaultType'
    BY <1>13 DEF TakeLoop
  <2> HIDE DEF SyncType, StateType, LoopType, ListType, PythonType, VideoType, FaultType
  <2> QED BY <2>1, <2>2, <2>3, <2>4, <2>5, <2>6, <2>7
<1>14. ASSUME NEW t \in PyThreads, RestoreThread(t) PROVE TypeOK'
  BY <1>14 DEF RestoreThread, Return
<1>15. ASSUME NEW t \in PyThreads, StartLock(t) PROVE TypeOK'
  BY <1>15 DEF StartLock
<1>16. ASSUME NEW t \in PyThreads, StartInit(t) PROVE TypeOK'
  BY <1>16 DEF StartInit
<1>17. ASSUME NEW t \in PyThreads, StartThread(t) PROVE TypeOK'
  <2>1. SyncType'
    BY <1>17 DEF StartThread, Return
  <2>2. StateType'
    BY <1>17 DEF StartThread, Return
  <2>3. LoopType'
    BY <1>17 DEF StartThread, Return
  <2>4. ListType'
    BY <1>17 DEF StartThread, Return
  <2>5. PythonType'
    <3>1. Goto(t, "takeFirst") \/ Goto(t, "createStream") \/ Return(t)
      BY <1>17 DEF StartThread
    <3>2. CASE Return(t)
      BY <3>2 DEF Return
    <3>3. CASE Goto(t, "takeFirst")
      BY <3>3
    <3>4. CASE Goto(t, "createStream")
      BY <3>4
    <3> QED BY <3>1, <3>2, <3>3, <3>4
  <2>6. VideoType'
    BY <1>17 DEF StartThread, Return
  <2>7. FaultType'
    BY <1>17 DEF StartThread, Return
  <2> HIDE DEF SyncType, StateType, LoopType, ListType, PythonType, VideoType, FaultType
  <2> QED BY <2>1, <2>2, <2>3, <2>4, <2>5, <2>6, <2>7
<1>18. ASSUME NEW t \in PyThreads, StopCheck(t) PROVE TypeOK'
  BY <1>18 DEF StopCheck, AfterStop, Return
<1>19. ASSUME NEW t \in PyThreads, StopLock(t) PROVE TypeOK'
  BY <1>19, ZenonT(60) DEF StopLock
<1>20. ASSUME NEW t \in PyThreads, StopClear(t) PROVE TypeOK'
  BY <1>20, ZenonT(60) DEF StopClear, StopState, Signal
<1>21. ASSUME NEW t \in PyThreads, StopJoin(t) PROVE TypeOK'
  <2>1. SyncType'
    BY <1>21 DEF StopJoin, AfterStop, Return
  <2>2. StateType'
    BY <1>21 DEF StopJoin, AfterStop, Return
  <2>3. LoopType'
    BY <1>21 DEF StopJoin, AfterStop, Return
  <2>4. ListType'
    BY <1>21 DEF StopJoin, AfterStop, Return
  <2>5. PythonType'
    <3>1. UNCHANGED python \/ AfterStop(t)
      BY <1>21 DEF StopJoin
    <3>2. CASE AfterStop(t)
      BY <3>2, ZenonT(60) DEF AfterStop, Return
    <3> QED BY <3>1, <3>2
  <2>6. VideoType'
    <3>1. \/ UNCHANGED vpc
          \/ \E place \in {"joined", "failedJoined"} :
               vpc' = [vpc EXCEPT ![m_thread] = place]
      BY <1>21 DEF StopJoin
    <3>2. stop' = stop
      BY <1>21 DEF StopJoin
    <3>3. CASE UNCHANGED vpc
      BY <3>2, <3>3
    <3>4. ASSUME NEW place \in {"joined", "failedJoined"},
                 vpc' = [vpc EXCEPT ![m_thread] = place]
          PROVE  VideoType'
      <4>1. place \in VidPlaces
        OBVIOUS
      <4> QED BY <3>2, <3>4, <4>1, Zenon
    <3> QED BY <3>1, <3>3, <3>4
  <2>7. FaultType'
    BY <1>21 DEF StopJoin, AfterStop, Return
  <2> HIDE DEF SyncType, StateType, LoopType, ListType, PythonType, VideoType, FaultType
  <2> QED BY <2>1, <2>2, <2>3, <2>4, <2>5, <2>6, <2>7
<1>22. ASSUME NEW t \in PyThreads, StartRecord(t) PROVE TypeOK'
  BY <1>22 DEF StartRecord
<1>23. ASSUME NEW t \in PyThreads, CreateStream(t) PROVE TypeOK'
  BY <1>23 DEF CreateStream, Return
<1>24. ASSUME NEW t \in PyThreads, WaitNext(t) PROVE TypeOK'
  BY <1>24 DEF WaitNext
<1>25. ASSUME NEW t \in PyThreads, ReadNext(t) PROVE TypeOK'
  BY <1>25 DEF ReadNext, Return
<1>26. ASSUME NEW t \in PyThreads, FlistClear(t) PROVE TypeOK'
  BY <1>26 DEF FlistClear, Return
<1>27. ASSUME NEW t \in PyThreads, ProgressTime(t) PROVE TypeOK'
  <2>1. SyncType'
    BY <1>27 DEF ProgressTime, Return
  <2>2. StateType'
    BY <1>27 DEF ProgressTime, Return
  <2>3. LoopType'
    BY <1>27 DEF ProgressTime, Return
  <2>4. ListType'
    BY <1>27 DEF ProgressTime, Return
  <2>5. PythonType'
    BY <1>27, ZenonT(60) DEF ProgressTime, Return
  <2>6. VideoType'
    BY <1>27 DEF ProgressTime, Return
  <2>7. FaultType'
    BY <1>27 DEF ProgressTime, Return
  <2> HIDE DEF SyncType, StateType, LoopType, ListType, PythonType, VideoType, FaultType
  <2> QED BY <2>1, <2>2, <2>3, <2>4, <2>5, <2>6, <2>7
<1>28. ASSUME NEW t \in PyThreads, UpdateParams(t) PROVE TypeOK'
  BY <1>28 DEF UpdateParams
<1>29. ASSUME NEW t \in PyThreads, RestartCheck(t) PROVE TypeOK'
  BY <1>29 DEF RestartCheck
<1>30. ASSUME NEW t \in PyThreads, CopyParams(t) PROVE TypeOK'
  BY <1>30 DEF CopyParams, Return
<1>31. ASSUME NEW v \in Vids, Begin(v) PROVE TypeOK'
  BY <1>31 DEF Begin
<1>32. ASSUME NEW v \in Vids, SetApp(v) PROVE TypeOK'
  BY <1>32 DEF SetApp
<1>33. ASSUME NEW v \in Vids, Open(v) PROVE TypeOK'
  <2>1. SyncType'
    BY <1>33 DEF Open
  <2>2. StateType'
    BY <1>33 DEF Open
  <2>3. LoopType'
    BY <1>33 DEF Open
  <2>4. ListType'
    BY <1>33 DEF Open
  <2>5. PythonType'
    BY <1>33 DEF Open
  <2>6. VideoType'
    BY <1>33, ZenonT(60) DEF Open
  <2>7. FaultType'
    BY <1>33 DEF Open
  <2> HIDE DEF SyncType, StateType, LoopType, ListType, PythonType, VideoType, FaultType
  <2> QED BY <2>1, <2>2, <2>3, <2>4, <2>5, <2>6, <2>7
<1>34. ASSUME NEW v \in Vids, LosesApp(v) PROVE TypeOK'
  <2>1. SyncType'
    BY <1>34 DEF LosesApp
  <2>2. StateType'
    BY <1>34 DEF LosesApp
  <2>3. LoopType'
    BY <1>34 DEF LosesApp
  <2>4. ListType'
    BY <1>34 DEF LosesApp
  <2>5. PythonType'
    BY <1>34 DEF LosesApp
  <2>6. VideoType'
    BY <1>34 DEF LosesApp
  <2>7. FaultType'
    BY <1>34 DEF LosesApp
  <2> HIDE DEF SyncType, StateType, LoopType, ListType, PythonType, VideoType, FaultType
  <2> QED BY <2>1, <2>2, <2>3, <2>4, <2>5, <2>6, <2>7
<1>35. ASSUME NEW v \in Vids, LoopTop(v) PROVE TypeOK'
  BY <1>35 DEF LoopTop
<1>36. ASSUME NEW v \in Vids, CameraFails(v) PROVE TypeOK'
  BY <1>36 DEF CameraFails
<1>37. ASSUME NEW v \in Vids, FrameTimeout(v) PROVE TypeOK'
  BY <1>37 DEF FrameTimeout, AfterFrame
<1>38. ASSUME NEW v \in Vids, FrameStreamed(v) PROVE TypeOK'
  <2>1. SyncType'
    BY <1>38 DEF FrameStreamed, AfterFrame, Storing, Signal
  <2>2. StateType'
    BY <1>38 DEF FrameStreamed, AfterFrame, Storing, Signal
  <2>3. LoopType'
    BY <1>38 DEF FrameStreamed, AfterFrame, Storing, Signal
  <2>4. ListType'
    BY <1>38 DEF FrameStreamed, AfterFrame, Storing, Signal
  <2>5. PythonType'
    BY <1>38 DEF FrameStreamed, AfterFrame, Storing, Signal
  <2>6. VideoType'
    BY <1>38, ZenonT(60) DEF FrameStreamed, AfterFrame, Storing, Signal
  <2>7. FaultType'
    BY <1>38 DEF FrameStreamed, AfterFrame, Storing, Signal
  <2> HIDE DEF SyncType, StateType, LoopType, ListType, PythonType, VideoType, FaultType
  <2> QED BY <2>1, <2>2, <2>3, <2>4, <2>5, <2>6, <2>7
<1>39. ASSUME NEW v \in Vids, FrameRecorded(v) PROVE TypeOK'
  <2>1. SyncType'
    BY <1>39 DEF FrameRecorded, AfterFrame, Signal
  <2>2. StateType'
    BY <1>39 DEF FrameRecorded, AfterFrame, Signal
  <2>3. LoopType'
    BY <1>39 DEF FrameRecorded, AfterFrame, Signal
  <2>4. ListType'
    BY <1>39 DEF FrameRecorded, AfterFrame, Signal
  <2>5. PythonType'
    BY <1>39 DEF FrameRecorded, AfterFrame, Signal
  <2>6. VideoType'
    BY <1>39, ZenonT(60) DEF FrameRecorded, AfterFrame, Signal
  <2>7. FaultType'
    BY <1>39 DEF FrameRecorded, AfterFrame, Signal
  <2> HIDE DEF SyncType, StateType, LoopType, ListType, PythonType, VideoType, FaultType
  <2> QED BY <2>1, <2>2, <2>3, <2>4, <2>5, <2>6, <2>7
<1>40. ASSUME NEW v \in Vids, FrameStopRecord(v) PROVE TypeOK'
  BY <1>40 DEF FrameStopRecord, KcStopRecord
<1>41. ASSUME NEW v \in Vids, SelfStopCheck(v) PROVE TypeOK'
  <2>1. SyncType'
    BY <1>41 DEF SelfStopCheck
  <2>2. StateType'
    BY <1>41 DEF SelfStopCheck
  <2>3. LoopType'
    BY <1>41 DEF SelfStopCheck
  <2>4. ListType'
    BY <1>41 DEF SelfStopCheck
  <2>5. PythonType'
    BY <1>41 DEF SelfStopCheck
  <2>6. VideoType'
    BY <1>41 DEF SelfStopCheck
  <2>7. FaultType'
    BY <1>41 DEF SelfStopCheck
  <2> HIDE DEF SyncType, StateType, LoopType, ListType, PythonType, VideoType, FaultType
  <2> QED BY <2>1, <2>2, <2>3, <2>4, <2>5, <2>6, <2>7
<1>42. ASSUME NEW v \in Vids, SelfStopLock(v) PROVE TypeOK'
  BY <1>42, ZenonT(60) DEF SelfStopLock
<1>43. ASSUME NEW v \in Vids, SelfStopClear(v) PROVE TypeOK'
  BY <1>43, ZenonT(60) DEF SelfStopClear, StopState, Signal
<1>44. ASSUME NEW v \in Vids, SelfStopMark(v) PROVE TypeOK'
  <2>1. SyncType'
    BY <1>44 DEF SelfStopMark
  <2>2. StateType'
    BY <1>44 DEF SelfStopMark
  <2>3. LoopType'
    BY <1>44 DEF SelfStopMark
  <2>4. ListType'
    BY <1>44 DEF SelfStopMark
  <2>5. PythonType'
    BY <1>44 DEF SelfStopMark
  <2>6. VideoType'
    BY <1>44 DEF SelfStopMark
  <2>7. FaultType'
    BY <1>44 DEF SelfStopMark
  <2> HIDE DEF SyncType, StateType, LoopType, ListType, PythonType, VideoType, FaultType
  <2> QED BY <2>1, <2>2, <2>3, <2>4, <2>5, <2>6, <2>7
<1>45. ASSUME NEW v \in Vids, StopCamera(v) PROVE TypeOK'
  <2>1. SyncType'
    BY <1>45 DEF StopCamera
  <2>2. StateType'
    BY <1>45 DEF StopCamera
  <2>3. LoopType'
    BY <1>45 DEF StopCamera
  <2>4. ListType'
    BY <1>45 DEF StopCamera
  <2>5. PythonType'
    BY <1>45 DEF StopCamera
  <2>6. VideoType'
    BY <1>45 DEF StopCamera
  <2>7. FaultType'
    BY <1>45 DEF StopCamera
  <2> HIDE DEF SyncType, StateType, LoopType, ListType, PythonType, VideoType, FaultType
  <2> QED BY <2>1, <2>2, <2>3, <2>4, <2>5, <2>6, <2>7
<1>46. ASSUME NEW v \in Vids, KcStopped(v) PROVE TypeOK'
  <2>1. SyncType'
    BY <1>46 DEF KcStopped
  <2>2. StateType'
    BY <1>46 DEF KcStopped
  <2>3. LoopType'
    BY <1>46 DEF KcStopped
  <2>4. ListType'
    BY <1>46 DEF KcStopped
  <2>5. PythonType'
    BY <1>46 DEF KcStopped
  <2>6. VideoType'
    BY <1>46 DEF KcStopped
  <2>7. FaultType'
    BY <1>46 DEF KcStopped
  <2> HIDE DEF SyncType, StateType, LoopType, ListType, PythonType, VideoType, FaultType
  <2> QED BY <2>1, <2>2, <2>3, <2>4, <2>5, <2>6, <2>7
<1>47. ASSUME NEW v \in Vids, ClearApp(v) PROVE TypeOK'
  BY <1>47 DEF ClearApp
<1>48. ASSUME NEW v \in Vids, CloseCamera(v) PROVE TypeOK'
  <2>1. SyncType'
    BY <1>48 DEF CloseCamera
  <2>2. StateType'
    BY <1>48 DEF CloseCamera
  <2>3. LoopType'
    BY <1>48 DEF CloseCamera
  <2>4. ListType'
    BY <1>48 DEF CloseCamera
  <2>5. PythonType'
    BY <1>48 DEF CloseCamera
  <2>6. VideoType'
    <3>1. \E place \in {"failed", "exited"} : vpc' = [vpc EXCEPT ![v] = place]
      BY <1>48 DEF CloseCamera
    <3>2. stop' = stop
      BY <1>48 DEF CloseCamera
    <3>3. ASSUME NEW place \in {"failed", "exited"}, vpc' = [vpc EXCEPT ![v] = place]
          PROVE  VideoType'
      <4>1. place \in VidPlaces
        OBVIOUS
      <4> QED BY <3>2, <3>3, <4>1, Zenon
    <3> QED BY <3>1, <3>3
  <2>7. FaultType'
    BY <1>48 DEF CloseCamera
  <2> HIDE DEF SyncType, StateType, LoopType, ListType, PythonType, VideoType, FaultType
  <2> QED BY <2>1, <2>2, <2>3, <2>4, <2>5, <2>6, <2>7
<1>49. ASSUME NEW v \in Vids, CloseFails(v) PROVE TypeOK'
  BY <1>49 DEF CloseFails
<1>50. ASSUME NEW t \in PyThreads, SpuriousWakeup(t) PROVE TypeOK'
  BY <1>50 DEF SpuriousWakeup
<1>51. CASE UNCHANGED vars
  <2>1. SyncType'
    BY <1>51 DEF vars
  <2>2. StateType'
    BY <1>51 DEF vars
  <2>3. LoopType'
    BY <1>51 DEF vars
  <2>4. ListType'
    BY <1>51 DEF vars
  <2>5. PythonType'
    BY <1>51 DEF vars
  <2>6. VideoType'
    BY <1>51 DEF vars
  <2>7. FaultType'
    BY <1>51 DEF vars
  <2> HIDE DEF SyncType, StateType, LoopType, ListType, PythonType, VideoType, FaultType
  <2> QED BY <2>1, <2>2, <2>3, <2>4, <2>5, <2>6, <2>7
<1> QED
  BY <1>1, <1>2, <1>3, <1>4, <1>5, <1>6, <1>7, <1>8, <1>9, <1>10, <1>11,
     <1>12, <1>13, <1>14, <1>15, <1>16, <1>17, <1>18, <1>19, <1>20, <1>21,
     <1>22, <1>23, <1>24, <1>25, <1>26, <1>27, <1>28, <1>29, <1>30, <1>31,
     <1>32, <1>33, <1>34, <1>35, <1>36, <1>37, <1>38, <1>39, <1>40, <1>41,
     <1>42, <1>43, <1>44, <1>45, <1>46, <1>47, <1>48, <1>49, <1>50, <1>51 DEF
     Next, PyCall, PyStep, VidStep

-----------------------------------------------------------------------------
(* A video thread touches nothing of the Python threads but their waiting. *)
LEMMA VidLeavesPython ==
  ASSUME NEW v \in Vids, VidStep(v)
  PROVE  fault = "none" /\ UNCHANGED <<gil, pc, call, arg, alloc, held>>
  BY DEF VidStep, Begin, SetApp, Open, LosesApp, LoopTop, CameraFails,
      FrameTimeout, FrameStreamed, FrameRecorded, FrameStopRecord,
      SelfStopCheck, SelfStopLock, SelfStopClear, SelfStopMark, StopCamera,
      KcStopped, ClearApp, CloseCamera, CloseFails, VidAt, sync, lists,
      python, KcStopRecord, StopState

(* It only ever drops the record, never sets one.                          *)
LEMMA VidDropsRecord ==
  ASSUME NEW v \in Vids, VidStep(v)
  PROVE  m_record' \in {m_record, None}
  BY DEF VidStep, Begin, SetApp, Open, LosesApp, LoopTop, CameraFails,
      FrameTimeout, FrameStreamed, FrameRecorded, FrameStopRecord,
      SelfStopCheck, SelfStopLock, SelfStopClear, SelfStopMark, StopCamera,
      KcStopped, ClearApp, CloseCamera, CloseFails, state, KcStopRecord,
      StopState

-----------------------------------------------------------------------------
(* The GIL admits one thread at a time into the extension. *)
LEMMA GilStep ==
  TypeOK /\ GilExclusive /\ [Next]_vars => GilExclusive'
<1> SUFFICES ASSUME TypeOK /\ GilExclusive, [Next]_vars PROVE GilExclusive'
  OBVIOUS
<1> USE ConstantsAssumption DEF ConstantsAssumption, At, Goto, Die, GilExclusive,
      TypeOK, SyncType, PythonType, sync, python
<1>1. ASSUME NEW t \in PyThreads, CallFrame(t) PROVE GilExclusive'
  BY <1>1 DEF CallFrame, Enter
<1>2. ASSUME NEW t \in PyThreads, CallStop(t) PROVE GilExclusive'
  BY <1>2 DEF CallStop, Enter
<1>3. ASSUME NEW t \in PyThreads, CallRecord(t) PROVE GilExclusive'
  BY <1>3 DEF CallRecord, Enter, KcStopRecord
<1>4. ASSUME NEW t \in PyThreads, CallRead(t) PROVE GilExclusive'
  BY <1>4 DEF CallRead, Enter
<1>5. ASSUME NEW t \in PyThreads, CallDrop(t) PROVE GilExclusive'
  BY <1>5 DEF CallDrop, Enter
<1>6. ASSUME NEW t \in PyThreads, CallProgress(t) PROVE GilExclusive'
  BY <1>6 DEF CallProgress, Enter
<1>7. ASSUME NEW t \in PyThreads, CallMode(t) PROVE GilExclusive'
  BY <1>7 DEF CallMode, Enter
<1>8. ASSUME NEW t \in PyThreads, CallStopRecord(t) PROVE GilExclusive'
  BY <1>8 DEF CallStopRecord, KcStopRecord
<1>9. ASSUME NEW t \in PyThreads, WaitLast(t) PROVE GilExclusive'
  BY <1>9 DEF WaitLast
<1>10. ASSUME NEW t \in PyThreads, CopyLast(t) PROVE GilExclusive'
  BY <1>10 DEF CopyLast, Return
<1>11. ASSUME NEW t \in PyThreads, NextStream(t) PROVE GilExclusive'
  BY <1>11 DEF NextStream
<1>12. ASSUME NEW t \in PyThreads, TakeFirst(t) PROVE GilExclusive'
  BY <1>12 DEF TakeFirst, Return
<1>13. ASSUME NEW t \in PyThreads, TakeLoop(t) PROVE GilExclusive'
  BY <1>13 DEF TakeLoop
<1>14. ASSUME NEW t \in PyThreads, RestoreThread(t) PROVE GilExclusive'
  BY <1>14 DEF RestoreThread, Return
<1>15. ASSUME NEW t \in PyThreads, StartLock(t) PROVE GilExclusive'
  BY <1>15 DEF StartLock
<1>16. ASSUME NEW t \in PyThreads, StartInit(t) PROVE GilExclusive'
  BY <1>16 DEF StartInit
<1>17. ASSUME NEW t \in PyThreads, StartThread(t) PROVE GilExclusive'
  BY <1>17 DEF StartThread, Return
<1>18. ASSUME NEW t \in PyThreads, StopCheck(t) PROVE GilExclusive'
  BY <1>18 DEF StopCheck, AfterStop, Return
<1>19. ASSUME NEW t \in PyThreads, StopLock(t) PROVE GilExclusive'
  BY <1>19 DEF StopLock
<1>20. ASSUME NEW t \in PyThreads, StopClear(t) PROVE GilExclusive'
  BY <1>20 DEF StopClear, StopState
<1>21. ASSUME NEW t \in PyThreads, StopJoin(t) PROVE GilExclusive'
  BY <1>21 DEF StopJoin, AfterStop, Return
<1>22. ASSUME NEW t \in PyThreads, StartRecord(t) PROVE GilExclusive'
  BY <1>22 DEF StartRecord
<1>23. ASSUME NEW t \in PyThreads, CreateStream(t) PROVE GilExclusive'
  BY <1>23 DEF CreateStream, Return
<1>24. ASSUME NEW t \in PyThreads, WaitNext(t) PROVE GilExclusive'
  BY <1>24 DEF WaitNext
<1>25. ASSUME NEW t \in PyThreads, ReadNext(t) PROVE GilExclusive'
  BY <1>25 DEF ReadNext, Return
<1>26. ASSUME NEW t \in PyThreads, FlistClear(t) PROVE GilExclusive'
  BY <1>26 DEF FlistClear, Return
<1>27. ASSUME NEW t \in PyThreads, ProgressTime(t) PROVE GilExclusive'
  BY <1>27 DEF ProgressTime, Return
<1>28. ASSUME NEW t \in PyThreads, UpdateParams(t) PROVE GilExclusive'
  BY <1>28 DEF UpdateParams
<1>29. ASSUME NEW t \in PyThreads, RestartCheck(t) PROVE GilExclusive'
  BY <1>29 DEF RestartCheck
<1>30. ASSUME NEW t \in PyThreads, CopyParams(t) PROVE GilExclusive'
  BY <1>30 DEF CopyParams, Return
<1>31. ASSUME NEW t \in PyThreads, SpuriousWakeup(t) PROVE GilExclusive'
  BY <1>31 DEF SpuriousWakeup
<1>32. ASSUME NEW v \in Vids, VidStep(v) PROVE GilExclusive'
  BY <1>32, VidLeavesPython
<1>33. CASE UNCHANGED vars
  BY <1>33 DEF vars
<1> QED
  BY <1>1, <1>2, <1>3, <1>4, <1>5, <1>6, <1>7, <1>8, <1>9, <1>10, <1>11,
      <1>12, <1>13, <1>14, <1>15, <1>16, <1>17, <1>18, <1>19, <1>20, <1>21,
      <1>22, <1>23, <1>24, <1>25, <1>26, <1>27, <1>28, <1>29, <1>30, <1>31,
      <1>32, <1>33 DEF Next, PyCall, PyStep

-----------------------------------------------------------------------------
(* m_paramsMutex excludes, in kcStart and in kcStopInternal. *)
LEMMA ParamsStep ==
  TypeOK /\ ParamsExclusive /\ [Next]_vars => ParamsExclusive'
<1> SUFFICES ASSUME TypeOK /\ ParamsExclusive, [Next]_vars PROVE ParamsExclusive'
  OBVIOUS
<1> USE ConstantsAssumption DEF ConstantsAssumption, At, VidAt, Goto, VidGoto, Die,
      ParamsExclusive, PyInParams, VidInParams, TypeOK, SyncType, PythonType, VideoType,
      StateType, Vids, sync, python, video, state, lists
<1>1. ASSUME NEW t \in PyThreads, CallFrame(t) PROVE ParamsExclusive'
  BY <1>1 DEF CallFrame, Enter
<1>2. ASSUME NEW t \in PyThreads, CallStop(t) PROVE ParamsExclusive'
  BY <1>2 DEF CallStop, Enter
<1>3. ASSUME NEW t \in PyThreads, CallRecord(t) PROVE ParamsExclusive'
  BY <1>3 DEF CallRecord, Enter, KcStopRecord
<1>4. ASSUME NEW t \in PyThreads, CallRead(t) PROVE ParamsExclusive'
  BY <1>4 DEF CallRead, Enter
<1>5. ASSUME NEW t \in PyThreads, CallDrop(t) PROVE ParamsExclusive'
  BY <1>5 DEF CallDrop, Enter
<1>6. ASSUME NEW t \in PyThreads, CallProgress(t) PROVE ParamsExclusive'
  BY <1>6 DEF CallProgress, Enter
<1>7. ASSUME NEW t \in PyThreads, CallMode(t) PROVE ParamsExclusive'
  BY <1>7 DEF CallMode, Enter
<1>8. ASSUME NEW t \in PyThreads, CallStopRecord(t) PROVE ParamsExclusive'
  BY <1>8 DEF CallStopRecord, KcStopRecord
<1>9. ASSUME NEW t \in PyThreads, WaitLast(t) PROVE ParamsExclusive'
  BY <1>9 DEF WaitLast
<1>10. ASSUME NEW t \in PyThreads, CopyLast(t) PROVE ParamsExclusive'
  BY <1>10 DEF CopyLast, Return
<1>11. ASSUME NEW t \in PyThreads, NextStream(t) PROVE ParamsExclusive'
  BY <1>11 DEF NextStream
<1>12. ASSUME NEW t \in PyThreads, TakeFirst(t) PROVE ParamsExclusive'
  BY <1>12 DEF TakeFirst, Return
<1>13. ASSUME NEW t \in PyThreads, TakeLoop(t) PROVE ParamsExclusive'
  BY <1>13 DEF TakeLoop
<1>14. ASSUME NEW t \in PyThreads, RestoreThread(t) PROVE ParamsExclusive'
  BY <1>14 DEF RestoreThread, Return
<1>15. ASSUME NEW t \in PyThreads, StartLock(t) PROVE ParamsExclusive'
  BY <1>15 DEF StartLock
<1>16. ASSUME NEW t \in PyThreads, StartInit(t) PROVE ParamsExclusive'
  BY <1>16 DEF StartInit
<1>17. ASSUME NEW t \in PyThreads, StartThread(t) PROVE ParamsExclusive'
  BY <1>17 DEF StartThread, Return
<1>18. ASSUME NEW t \in PyThreads, StopCheck(t) PROVE ParamsExclusive'
  BY <1>18 DEF StopCheck, AfterStop, Return
<1>19. ASSUME NEW t \in PyThreads, StopLock(t) PROVE ParamsExclusive'
  BY <1>19 DEF StopLock
<1>20. ASSUME NEW t \in PyThreads, StopClear(t) PROVE ParamsExclusive'
  BY <1>20 DEF StopClear, StopState
<1>21. ASSUME NEW t \in PyThreads, StopJoin(t) PROVE ParamsExclusive'
  <2>1. pc[t] = "stopJoin" /\ fault = "none" /\ UNCHANGED <<state, lists>>
    BY <1>21 DEF StopJoin
  <2>2. CASE fault' # "none" /\ UNCHANGED <<params, python>>
    BY <2>1, <2>2
  <2>3. CASE /\ params' = None /\ AfterStop(t)
            /\ m_thread # 0 /\ vpc[m_thread] \in Ended
            /\ vpc' = [vpc EXCEPT ![m_thread] =
                         IF Failed(m_thread) THEN "failedJoined" ELSE "joined"]
    <3>1. CASE Return(t)
      BY <2>1, <2>3, <3>1 DEF Return
    <3>2. CASE Goto(t, "startLock")
      BY <2>1, <2>3, <3>2
    <3> QED BY <2>3, <3>1, <3>2 DEF AfterStop
  <2> QED BY <1>21, <2>2, <2>3 DEF StopJoin
<1>22. ASSUME NEW t \in PyThreads, StartRecord(t) PROVE ParamsExclusive'
  BY <1>22 DEF StartRecord
<1>23. ASSUME NEW t \in PyThreads, CreateStream(t) PROVE ParamsExclusive'
  BY <1>23 DEF CreateStream, Return
<1>24. ASSUME NEW t \in PyThreads, WaitNext(t) PROVE ParamsExclusive'
  BY <1>24 DEF WaitNext
<1>25. ASSUME NEW t \in PyThreads, ReadNext(t) PROVE ParamsExclusive'
  BY <1>25 DEF ReadNext, Return
<1>26. ASSUME NEW t \in PyThreads, FlistClear(t) PROVE ParamsExclusive'
  BY <1>26 DEF FlistClear, Return
<1>27. ASSUME NEW t \in PyThreads, ProgressTime(t) PROVE ParamsExclusive'
  BY <1>27 DEF ProgressTime, Return
<1>28. ASSUME NEW t \in PyThreads, UpdateParams(t) PROVE ParamsExclusive'
  BY <1>28 DEF UpdateParams
<1>29. ASSUME NEW t \in PyThreads, RestartCheck(t) PROVE ParamsExclusive'
  BY <1>29 DEF RestartCheck
<1>30. ASSUME NEW t \in PyThreads, CopyParams(t) PROVE ParamsExclusive'
  BY <1>30 DEF CopyParams, Return
<1>31. ASSUME NEW t \in PyThreads, SpuriousWakeup(t) PROVE ParamsExclusive'
  BY <1>31 DEF SpuriousWakeup
<1>32. ASSUME NEW v \in Vids, VidStep(v) PROVE ParamsExclusive'
  <2>1. CASE Begin(v)
    BY <2>1, <1>32 DEF Begin
  <2>2. CASE SetApp(v)
    BY <2>2, <1>32 DEF SetApp
  <2>3. CASE Open(v)
    BY <2>3, <1>32 DEF Open
  <2>4. CASE LosesApp(v)
    BY <2>4, <1>32 DEF LosesApp
  <2>5. CASE LoopTop(v)
    BY <2>5, <1>32 DEF LoopTop
  <2>6. CASE CameraFails(v)
    BY <2>6, <1>32 DEF CameraFails
  <2>7. CASE FrameTimeout(v)
    BY <2>7, <1>32 DEF FrameTimeout, AfterFrame
  <2>8. CASE FrameStreamed(v)
    BY <2>8, <1>32 DEF FrameStreamed, AfterFrame
  <2>9. CASE FrameRecorded(v)
    BY <2>9, <1>32 DEF FrameRecorded, AfterFrame
  <2>10. CASE FrameStopRecord(v)
    BY <2>10, <1>32 DEF FrameStopRecord
  <2>11. CASE SelfStopCheck(v)
    BY <2>11, <1>32 DEF SelfStopCheck
  <2>12. CASE SelfStopLock(v)
    BY <2>12, <1>32 DEF SelfStopLock
  <2>13. CASE SelfStopClear(v)
    BY <2>13, <1>32 DEF SelfStopClear
  <2>14. CASE SelfStopMark(v)
    BY <2>14, <1>32 DEF SelfStopMark
  <2>15. CASE StopCamera(v)
    BY <2>15, <1>32 DEF StopCamera
  <2>16. CASE KcStopped(v)
    BY <2>16, <1>32 DEF KcStopped
  <2>17. CASE ClearApp(v)
    BY <2>17, <1>32 DEF ClearApp
  <2>18. CASE CloseCamera(v)
    BY <2>18, <1>32 DEF CloseCamera
  <2>19. CASE CloseFails(v)
    BY <2>19, <1>32 DEF CloseFails
  <2> QED
    BY <1>32, <2>1, <2>2, <2>3, <2>4, <2>5, <2>6, <2>7, <2>8, <2>9, <2>10,
        <2>11, <2>12, <2>13, <2>14, <2>15, <2>16, <2>17, <2>18, <2>19 DEF
        VidStep
<1>33. CASE UNCHANGED vars
  BY <1>33 DEF vars
<1> QED
  BY <1>1, <1>2, <1>3, <1>4, <1>5, <1>6, <1>7, <1>8, <1>9, <1>10, <1>11,
      <1>12, <1>13, <1>14, <1>15, <1>16, <1>17, <1>18, <1>19, <1>20, <1>21,
      <1>22, <1>23, <1>24, <1>25, <1>26, <1>27, <1>28, <1>29, <1>30, <1>31,
      <1>32, <1>33 DEF Next, PyCall, PyStep

-----------------------------------------------------------------------------
(* No step frees a record that is still reached.  What a thread is about   *)
(* to free is out of reach, and it holds the GIL until it is freed.        *)
LEMMA RecordStep ==
  TypeOK /\ GilExclusive /\ RecordInv /\ [Next]_vars => RecordInv'
<1> SUFFICES ASSUME TypeOK /\ GilExclusive /\ RecordInv, [Next]_vars PROVE RecordInv'
  OBVIOUS
<1> USE ConstantsAssumption DEF ConstantsAssumption, At, Goto, Die, GilExclusive,
      RecordInv, RecordCalls, RecordPointerValid, TypeOK, SyncType, PythonType, StateType, ListType,
      sync, python, lists, state
<1>1. ASSUME NEW t \in PyThreads, CallFrame(t) PROVE RecordInv'
  BY <1>1 DEF CallFrame, Enter
<1>2. ASSUME NEW t \in PyThreads, CallStop(t) PROVE RecordInv'
  BY <1>2 DEF CallStop, Enter
<1>3. ASSUME NEW t \in PyThreads, CallRecord(t) PROVE RecordInv'
  BY <1>3 DEF CallRecord, Enter, KcStopRecord
<1>4. ASSUME NEW t \in PyThreads, CallRead(t) PROVE RecordInv'
  BY <1>4 DEF CallRead, Enter
<1>5. ASSUME NEW t \in PyThreads, CallDrop(t) PROVE RecordInv'
  BY <1>5 DEF CallDrop, Enter
<1>6. ASSUME NEW t \in PyThreads, CallProgress(t) PROVE RecordInv'
  BY <1>6 DEF CallProgress, Enter
<1>7. ASSUME NEW t \in PyThreads, CallMode(t) PROVE RecordInv'
  BY <1>7 DEF CallMode, Enter
<1>8. ASSUME NEW t \in PyThreads, CallStopRecord(t) PROVE RecordInv'
  BY <1>8 DEF CallStopRecord, KcStopRecord
<1>9. ASSUME NEW t \in PyThreads, WaitLast(t) PROVE RecordInv'
  <2>1. UNCHANGED <<state, lists>> /\ pc[t] \in {"lastFirst", "lastLoop"}
    BY <1>9 DEF WaitLast
  <2>2. UNCHANGED python \/ Goto(t, "lastLoop") \/ Goto(t, "copyLast")
    BY <1>9 DEF WaitLast
  <2>3. CASE UNCHANGED python
    BY <2>1, <2>3
  <2>4. CASE Goto(t, "lastLoop")
    BY <2>1, <2>4
  <2>5. CASE Goto(t, "copyLast")
    BY <2>1, <2>5
  <2> QED BY <2>2, <2>3, <2>4, <2>5
<1>10. ASSUME NEW t \in PyThreads, CopyLast(t) PROVE RecordInv'
  <2>1. UNCHANGED <<state, lists>> /\ pc[t] = "copyLast"
    BY <1>10 DEF CopyLast
  <2>2. UNCHANGED python \/ Return(t)
    BY <1>10 DEF CopyLast
  <2>3. CASE UNCHANGED python
    BY <2>1, <2>3
  <2>4. CASE Return(t)
    BY <2>1, <2>4 DEF Return
  <2> QED BY <2>2, <2>3, <2>4
<1>11. ASSUME NEW t \in PyThreads, NextStream(t) PROVE RecordInv'
  BY <1>11 DEF NextStream
<1>12. ASSUME NEW t \in PyThreads, TakeFirst(t) PROVE RecordInv'
  BY <1>12 DEF TakeFirst, Return
<1>13. ASSUME NEW t \in PyThreads, TakeLoop(t) PROVE RecordInv'
  BY <1>13 DEF TakeLoop
<1>14. ASSUME NEW t \in PyThreads, RestoreThread(t) PROVE RecordInv'
  BY <1>14 DEF RestoreThread, Return
<1>15. ASSUME NEW t \in PyThreads, StartLock(t) PROVE RecordInv'
  BY <1>15 DEF StartLock
<1>16. ASSUME NEW t \in PyThreads, StartInit(t) PROVE RecordInv'
  BY <1>16 DEF StartInit
<1>17. ASSUME NEW t \in PyThreads, StartThread(t) PROVE RecordInv'
  BY <1>17 DEF StartThread, Return
<1>18. ASSUME NEW t \in PyThreads, StopCheck(t) PROVE RecordInv'
  BY <1>18 DEF StopCheck, AfterStop, Return
<1>19. ASSUME NEW t \in PyThreads, StopLock(t) PROVE RecordInv'
  BY <1>19 DEF StopLock
<1>20. ASSUME NEW t \in PyThreads, StopClear(t) PROVE RecordInv'
  BY <1>20 DEF StopClear, StopState
<1>21. ASSUME NEW t \in PyThreads, StopJoin(t) PROVE RecordInv'
  <2>1. pc[t] = "stopJoin" /\ fault = "none" /\ UNCHANGED <<state, lists>>
    BY <1>21 DEF StopJoin
  <2>2. CASE fault' # "none" /\ UNCHANGED <<params, python>>
    BY <2>1, <2>2
  <2>3. CASE /\ params' = None /\ AfterStop(t)
            /\ m_thread # 0 /\ vpc[m_thread] \in Ended
            /\ vpc' = [vpc EXCEPT ![m_thread] =
                         IF Failed(m_thread) THEN "failedJoined" ELSE "joined"]
    <3>1. CASE Return(t)
      BY <2>1, <2>3, <3>1 DEF Return
    <3>2. CASE Goto(t, "startLock")
      BY <2>1, <2>3, <3>2
    <3> QED BY <2>3, <3>1, <3>2 DEF AfterStop
  <2> QED BY <1>21, <2>2, <2>3 DEF StopJoin
<1>22. ASSUME NEW t \in PyThreads, StartRecord(t) PROVE RecordInv'
  BY <1>22 DEF StartRecord
<1>23. ASSUME NEW t \in PyThreads, CreateStream(t) PROVE RecordInv'
  BY <1>23 DEF CreateStream, Return
<1>24. ASSUME NEW t \in PyThreads, WaitNext(t) PROVE RecordInv'
  BY <1>24 DEF WaitNext
<1>25. ASSUME NEW t \in PyThreads, ReadNext(t) PROVE RecordInv'
  BY <1>25 DEF ReadNext, Return
<1>26. ASSUME NEW t \in PyThreads, FlistClear(t) PROVE RecordInv'
  BY <1>26 DEF FlistClear, Return
<1>27. ASSUME NEW t \in PyThreads, ProgressTime(t) PROVE RecordInv'
  <2>1. UNCHANGED <<state, lists>> /\ pc[t] = "flistTime"
    BY <1>27 DEF ProgressTime
  <2>2. UNCHANGED python \/ Return(t)
    BY <1>27 DEF ProgressTime
  <2>3. CASE UNCHANGED python
    BY <2>1, <2>3
  <2>4. CASE Return(t)
    BY <2>1, <2>4 DEF Return
  <2> QED BY <2>2, <2>3, <2>4
<1>28. ASSUME NEW t \in PyThreads, UpdateParams(t) PROVE RecordInv'
  BY <1>28 DEF UpdateParams
<1>29. ASSUME NEW t \in PyThreads, RestartCheck(t) PROVE RecordInv'
  BY <1>29 DEF RestartCheck
<1>30. ASSUME NEW t \in PyThreads, CopyParams(t) PROVE RecordInv'
  BY <1>30 DEF CopyParams, Return
<1>31. ASSUME NEW t \in PyThreads, SpuriousWakeup(t) PROVE RecordInv'
  BY <1>31 DEF SpuriousWakeup
<1>32. ASSUME NEW v \in Vids, VidStep(v) PROVE RecordInv'
  BY <1>32, VidLeavesPython, VidDropsRecord
<1>33. CASE UNCHANGED vars
  BY <1>33 DEF vars
<1> QED
  BY <1>1, <1>2, <1>3, <1>4, <1>5, <1>6, <1>7, <1>8, <1>9, <1>10, <1>11,
      <1>12, <1>13, <1>14, <1>15, <1>16, <1>17, <1>18, <1>19, <1>20, <1>21,
      <1>22, <1>23, <1>24, <1>25, <1>26, <1>27, <1>28, <1>29, <1>30, <1>31,
      <1>32, <1>33 DEF Next, PyCall, PyStep

-----------------------------------------------------------------------------
(* m_run and m_stopping exclude each other: kcStart waits for m_stopping   *)
(* to be reset and holds m_paramsMutex from there to m_run = 1, and the    *)
(* video thread holds it from m_run = 0 to m_stopping = 1.                 *)
LEMMA StoppingStep ==
  TypeOK /\ ParamsExclusive /\ StoppingInv /\ [Next]_vars => StoppingInv'
<1> SUFFICES ASSUME TypeOK /\ ParamsExclusive /\ StoppingInv, [Next]_vars PROVE StoppingInv'
  OBVIOUS
<1> USE ConstantsAssumption DEF ConstantsAssumption, At, VidAt, Goto, VidGoto, Die,
      ParamsExclusive, PyInParams, VidInParams, StoppingInv, StopMarkIdle, StoppingMeansIdle,
      TypeOK, PythonType, VideoType, StateType, Vids, sync, state, video
<1>1. ASSUME NEW t \in PyThreads, CallFrame(t) PROVE StoppingInv'
  BY <1>1 DEF CallFrame, Enter
<1>2. ASSUME NEW t \in PyThreads, CallStop(t) PROVE StoppingInv'
  BY <1>2 DEF CallStop, Enter
<1>3. ASSUME NEW t \in PyThreads, CallRecord(t) PROVE StoppingInv'
  BY <1>3 DEF CallRecord, Enter, KcStopRecord
<1>4. ASSUME NEW t \in PyThreads, CallRead(t) PROVE StoppingInv'
  BY <1>4 DEF CallRead, Enter
<1>5. ASSUME NEW t \in PyThreads, CallDrop(t) PROVE StoppingInv'
  BY <1>5 DEF CallDrop, Enter
<1>6. ASSUME NEW t \in PyThreads, CallProgress(t) PROVE StoppingInv'
  BY <1>6 DEF CallProgress, Enter
<1>7. ASSUME NEW t \in PyThreads, CallMode(t) PROVE StoppingInv'
  BY <1>7 DEF CallMode, Enter
<1>8. ASSUME NEW t \in PyThreads, CallStopRecord(t) PROVE StoppingInv'
  BY <1>8 DEF CallStopRecord, KcStopRecord
<1>9. ASSUME NEW t \in PyThreads, WaitLast(t) PROVE StoppingInv'
  BY <1>9 DEF WaitLast
<1>10. ASSUME NEW t \in PyThreads, CopyLast(t) PROVE StoppingInv'
  BY <1>10 DEF CopyLast, Return
<1>11. ASSUME NEW t \in PyThreads, NextStream(t) PROVE StoppingInv'
  BY <1>11 DEF NextStream
<1>12. ASSUME NEW t \in PyThreads, TakeFirst(t) PROVE StoppingInv'
  BY <1>12 DEF TakeFirst, Return
<1>13. ASSUME NEW t \in PyThreads, TakeLoop(t) PROVE StoppingInv'
  BY <1>13 DEF TakeLoop
<1>14. ASSUME NEW t \in PyThreads, RestoreThread(t) PROVE StoppingInv'
  BY <1>14 DEF RestoreThread, Return
<1>15. ASSUME NEW t \in PyThreads, StartLock(t) PROVE StoppingInv'
  BY <1>15 DEF StartLock
<1>16. ASSUME NEW t \in PyThreads, StartInit(t) PROVE StoppingInv'
  BY <1>16 DEF StartInit
<1>17. ASSUME NEW t \in PyThreads, StartThread(t) PROVE StoppingInv'
  BY <1>17 DEF StartThread, Return
<1>18. ASSUME NEW t \in PyThreads, StopCheck(t) PROVE StoppingInv'
  BY <1>18 DEF StopCheck, AfterStop, Return
<1>19. ASSUME NEW t \in PyThreads, StopLock(t) PROVE StoppingInv'
  BY <1>19 DEF StopLock
<1>20. ASSUME NEW t \in PyThreads, StopClear(t) PROVE StoppingInv'
  BY <1>20 DEF StopClear, StopState
<1>21. ASSUME NEW t \in PyThreads, StopJoin(t) PROVE StoppingInv'
  BY <1>21 DEF StopJoin, AfterStop, Return
<1>22. ASSUME NEW t \in PyThreads, StartRecord(t) PROVE StoppingInv'
  BY <1>22 DEF StartRecord
<1>23. ASSUME NEW t \in PyThreads, CreateStream(t) PROVE StoppingInv'
  BY <1>23 DEF CreateStream, Return
<1>24. ASSUME NEW t \in PyThreads, WaitNext(t) PROVE StoppingInv'
  BY <1>24 DEF WaitNext
<1>25. ASSUME NEW t \in PyThreads, ReadNext(t) PROVE StoppingInv'
  BY <1>25 DEF ReadNext, Return
<1>26. ASSUME NEW t \in PyThreads, FlistClear(t) PROVE StoppingInv'
  BY <1>26 DEF FlistClear, Return
<1>27. ASSUME NEW t \in PyThreads, ProgressTime(t) PROVE StoppingInv'
  BY <1>27 DEF ProgressTime, Return
<1>28. ASSUME NEW t \in PyThreads, UpdateParams(t) PROVE StoppingInv'
  BY <1>28 DEF UpdateParams
<1>29. ASSUME NEW t \in PyThreads, RestartCheck(t) PROVE StoppingInv'
  BY <1>29 DEF RestartCheck
<1>30. ASSUME NEW t \in PyThreads, CopyParams(t) PROVE StoppingInv'
  BY <1>30 DEF CopyParams, Return
<1>31. ASSUME NEW t \in PyThreads, SpuriousWakeup(t) PROVE StoppingInv'
  BY <1>31 DEF SpuriousWakeup
<1>32. ASSUME NEW v \in Vids, VidStep(v) PROVE StoppingInv'
  <2>1. CASE Begin(v)
    BY <2>1, <1>32 DEF Begin
  <2>2. CASE SetApp(v)
    BY <2>2, <1>32 DEF SetApp
  <2>3. CASE Open(v)
    BY <2>3, <1>32 DEF Open
  <2>4. CASE LosesApp(v)
    BY <2>4, <1>32 DEF LosesApp
  <2>5. CASE LoopTop(v)
    BY <2>5, <1>32 DEF LoopTop
  <2>6. CASE CameraFails(v)
    BY <2>6, <1>32 DEF CameraFails
  <2>7. CASE FrameTimeout(v)
    BY <2>7, <1>32 DEF FrameTimeout, AfterFrame
  <2>8. CASE FrameStreamed(v)
    BY <2>8, <1>32 DEF FrameStreamed, AfterFrame
  <2>9. CASE FrameRecorded(v)
    BY <2>9, <1>32 DEF FrameRecorded, AfterFrame
  <2>10. CASE FrameStopRecord(v)
    BY <2>10, <1>32 DEF FrameStopRecord, KcStopRecord
  <2>11. CASE SelfStopCheck(v)
    BY <2>11, <1>32 DEF SelfStopCheck
  <2>12. CASE SelfStopLock(v)
    BY <2>12, <1>32 DEF SelfStopLock
  <2>13. CASE SelfStopClear(v)
    BY <2>13, <1>32 DEF SelfStopClear, StopState
  <2>14. CASE SelfStopMark(v)
    BY <2>14, <1>32 DEF SelfStopMark
  <2>15. CASE StopCamera(v)
    BY <2>15, <1>32 DEF StopCamera
  <2>16. CASE KcStopped(v)
    BY <2>16, <1>32 DEF KcStopped
  <2>17. CASE ClearApp(v)
    BY <2>17, <1>32 DEF ClearApp
  <2>18. CASE CloseCamera(v)
    BY <2>18, <1>32 DEF CloseCamera
  <2>19. CASE CloseFails(v)
    BY <2>19, <1>32 DEF CloseFails
  <2> QED
    BY <1>32, <2>1, <2>2, <2>3, <2>4, <2>5, <2>6, <2>7, <2>8, <2>9, <2>10,
        <2>11, <2>12, <2>13, <2>14, <2>15, <2>16, <2>17, <2>18, <2>19 DEF
        VidStep
<1>33. CASE UNCHANGED vars
  BY <1>33 DEF vars
<1> QED
  BY <1>1, <1>2, <1>3, <1>4, <1>5, <1>6, <1>7, <1>8, <1>9, <1>10, <1>11,
      <1>12, <1>13, <1>14, <1>15, <1>16, <1>17, <1>18, <1>19, <1>20, <1>21,
      <1>22, <1>23, <1>24, <1>25, <1>26, <1>27, <1>28, <1>29, <1>30, <1>31,
      <1>32, <1>33 DEF Next, PyCall, PyStep

-----------------------------------------------------------------------------
(* The place of the thread that will reset m_stopping, or has failed to.   *)
Owning == {"loop", "wait", "stopRecord", "stopCheck", "stopCamera", "stopped",
           "thrown", "failed", "failedJoined"}

(* A video thread moves, and if it was the owner of m_stopping it stays it. *)
LEMMA OwnerMoves ==
  ASSUME TypeOK, StoppingHasOwner, NEW v \in Vids,
         vpc' = [vpc EXCEPT ![v] = vpc'[v]], m_stopping' => m_stopping,
         m_stopping' /\ vpc[v] \in Owning => vpc'[v] \in Owning
  PROVE  StoppingHasOwner'
<1> SUFFICES ASSUME m_stopping' PROVE \E w \in Vids : vpc'[w] \in Owning
  BY DEF StoppingHasOwner, Failed, Owning
<1>1. PICK w \in Vids : vpc[w] \in Owning
  BY DEF StoppingHasOwner, Failed, Owning
<1>2. vpc'[w] \in Owning
  BY <1>1 DEF TypeOK, VideoType
<1> QED BY <1>2

(* What a step of a video thread is to m_run, m_stopping and the threads.   *)
VidMoves(v) ==
  /\ vpc' = [vpc EXCEPT ![v] = vpc'[v]] /\ vpc[v] # "unborn"
  /\ UNCHANGED <<pc, m_thread>> /\ (m_run' => m_run)
  /\ m_stopping' /\ ~m_stopping => vpc'[v] \in Owning
  /\ m_stopping' /\ vpc[v] \in Owning => vpc'[v] \in Owning
  /\ m_run' /\ params' = None =>
       /\ params = None
       /\ run /\ vpc[v] \in Capturing => vpc'[v] \in Capturing \cup {"thrown"}
       /\ vpc[v] = "begin" => vpc'[v] \in Capturing
       /\ Failed(v) => vpc'[v] \in {"thrown", "failed", "failedJoined"}
       /\ vpc'[v] # "begin"
       /\ (run => run') /\ (vpc[v] = "begin" => run')

LEMMA VidMoving ==
  ASSUME TypeOK, ParamsExclusive, StoppingInv, NEW v \in Vids, VidStep(v)
  PROVE  VidMoves(v) /\ (fault' = "none" => fault = "none")
<1> USE ConstantsAssumption DEF ConstantsAssumption, VidAt, VidGoto, Die, ParamsExclusive,
      VidInParams, StoppingInv, StopMarkIdle, StoppingMeansIdle, VidMoves, Capturing,
      Failed, Owning, TypeOK, VideoType, Vids, sync, state, loop, video, python
<1>1. CASE Begin(v)
  BY <1>1 DEF Begin
<1>2. CASE SetApp(v)
  BY <1>2 DEF SetApp
<1>3. CASE Open(v)
  BY <1>3 DEF Open
<1>4. CASE LosesApp(v)
  BY <1>4 DEF LosesApp
<1>5. CASE LoopTop(v)
  BY <1>5 DEF LoopTop
<1>6. CASE CameraFails(v)
  BY <1>6 DEF CameraFails
<1>7. CASE FrameTimeout(v)
  BY <1>7 DEF FrameTimeout, AfterFrame
<1>8. CASE FrameStreamed(v)
  BY <1>8 DEF FrameStreamed, AfterFrame
<1>9. CASE FrameRecorded(v)
  BY <1>9 DEF FrameRecorded, AfterFrame
<1>10. CASE FrameStopRecord(v)
  BY <1>10 DEF FrameStopRecord, KcStopRecord
<1>11. CASE SelfStopCheck(v)
  BY <1>11 DEF SelfStopCheck
<1>12. CASE SelfStopLock(v)
  BY <1>12 DEF SelfStopLock
<1>13. CASE SelfStopClear(v)
  BY <1>13 DEF SelfStopClear, StopState
<1>14. CASE SelfStopMark(v)
  BY <1>14 DEF SelfStopMark
<1>15. CASE StopCamera(v)
  BY <1>15 DEF StopCamera
<1>16. CASE KcStopped(v)
  BY <1>16 DEF KcStopped
<1>17. CASE ClearApp(v)
  BY <1>17 DEF ClearApp
<1>18. CASE CloseCamera(v)
  BY <1>18 DEF CloseCamera
<1>19. CASE CloseFails(v)
  BY <1>19 DEF CloseFails
<1> QED
  BY <1>1, <1>2, <1>3, <1>4, <1>5, <1>6, <1>7, <1>8, <1>9, <1>10,
      <1>11, <1>12, <1>13, <1>14, <1>15, <1>16, <1>17, <1>18, <1>19 DEF
      VidStep

(* Such a step keeps the loop of m_run and the owner of m_stopping.         *)
LEMMA MoveKeepsLoop ==
  ASSUME TypeOK, LoopInv, NEW v \in Vids, VidMoves(v), fault' = "none" => fault = "none"
  PROVE  LoopInv'
<1> USE DEF LoopInv, VidMoves
<1>1. StoppedIdle'
  BY DEF StoppedIdle
<1>2. Unborn'
  BY DEF Unborn, TypeOK, VideoType
<1>3. StoppingHasOwner'
  <2>1. CASE m_stopping' /\ ~m_stopping
    <3>1. vpc'[v] \in Owning
      BY <2>1
    <3>2. \E w \in Vids : vpc'[w] \in Owning
      BY <3>1
    <3> QED BY <3>2 DEF StoppingHasOwner, Failed, Owning
  <2>2. CASE m_stopping' => m_stopping
    BY <2>2, OwnerMoves
  <2> QED BY <2>1, <2>2
<1>4. RunHasLoop'
  <2> SUFFICES ASSUME m_run', params' = None PROVE
        /\ m_thread # 0
        /\ \/ vpc'[m_thread] \in Capturing /\ (vpc'[m_thread] # "begin" => run')
           \/ vpc'[m_thread] \in {"thrown", "failed", "failedJoined"}
    BY DEF RunHasLoop, Failed
  <2>1. /\ m_thread # 0
        /\ \/ vpc[m_thread] \in Capturing /\ (vpc[m_thread] # "begin" => run)
           \/ Failed(m_thread)
    BY DEF RunHasLoop
  <2>2. CASE m_thread = v
    <3>1. CASE Failed(v)
      BY <2>1, <2>2, <3>1
    <3>2. CASE vpc[v] \in Capturing /\ vpc[v] # "begin" /\ run
      <4>1. vpc'[v] \in Capturing \cup {"thrown"} /\ run'
        BY <3>2
      <4> QED BY <2>1, <2>2, <4>1
    <3>3. CASE vpc[v] = "begin"
      <4>1. vpc'[v] \in Capturing /\ run'
        BY <3>3
      <4> QED BY <2>1, <2>2, <4>1
    <3> QED BY <2>1, <2>2, <3>1, <3>2, <3>3
  <2>3. CASE m_thread # v
    <3>1. vpc'[m_thread] = vpc[m_thread]
      BY <2>1, <2>3, ConstantsAssumption
         DEF TypeOK, VideoType, StateType, Vids, ConstantsAssumption
    <3> QED BY <2>1, <3>1 DEF Failed
  <2> QED BY <2>2, <2>3
<1> QED BY <1>1, <1>2, <1>3, <1>4

(* A set m_run has its loop, a set m_stopping its owner: the mutex is held *)
(* whenever m_run and the newest thread disagree.                          *)
LEMMA LoopStep ==
  TypeOK /\ ParamsExclusive /\ StoppingInv /\ LoopInv /\ [Next]_vars => LoopInv'
<1> SUFFICES ASSUME TypeOK /\ ParamsExclusive /\ StoppingInv /\ LoopInv, [Next]_vars
             PROVE  LoopInv'
  OBVIOUS
<1> USE ConstantsAssumption DEF ConstantsAssumption, At, VidAt, Goto, VidGoto, Die,
      ParamsExclusive, PyInParams, VidInParams, LoopInv, StoppedIdle, Unborn, RunHasLoop,
      Capturing, Failed, TypeOK, PythonType, VideoType, StateType, Vids, sync, state,
      loop, video, python
<1>0. ASSUME UNCHANGED <<m_stopping, vpc>> PROVE StoppingHasOwner'
  BY <1>0 DEF StoppingHasOwner
<1>1. ASSUME NEW t \in PyThreads, CallFrame(t) PROVE LoopInv'
  BY <1>0, <1>1 DEF CallFrame, Enter
<1>2. ASSUME NEW t \in PyThreads, CallStop(t) PROVE LoopInv'
  BY <1>0, <1>2 DEF CallStop, Enter
<1>3. ASSUME NEW t \in PyThreads, CallRecord(t) PROVE LoopInv'
  BY <1>0, <1>3 DEF CallRecord, Enter, KcStopRecord
<1>4. ASSUME NEW t \in PyThreads, CallRead(t) PROVE LoopInv'
  BY <1>0, <1>4 DEF CallRead, Enter
<1>5. ASSUME NEW t \in PyThreads, CallDrop(t) PROVE LoopInv'
  BY <1>0, <1>5 DEF CallDrop, Enter
<1>6. ASSUME NEW t \in PyThreads, CallProgress(t) PROVE LoopInv'
  BY <1>0, <1>6 DEF CallProgress, Enter
<1>7. ASSUME NEW t \in PyThreads, CallMode(t) PROVE LoopInv'
  BY <1>0, <1>7 DEF CallMode, Enter
<1>8. ASSUME NEW t \in PyThreads, CallStopRecord(t) PROVE LoopInv'
  BY <1>0, <1>8 DEF CallStopRecord, KcStopRecord
<1>9. ASSUME NEW t \in PyThreads, WaitLast(t) PROVE LoopInv'
  BY <1>0, <1>9 DEF WaitLast
<1>10. ASSUME NEW t \in PyThreads, CopyLast(t) PROVE LoopInv'
  BY <1>0, <1>10 DEF CopyLast, Return
<1>11. ASSUME NEW t \in PyThreads, NextStream(t) PROVE LoopInv'
  BY <1>0, <1>11 DEF NextStream
<1>12. ASSUME NEW t \in PyThreads, TakeFirst(t) PROVE LoopInv'
  BY <1>0, <1>12 DEF TakeFirst, Return
<1>13. ASSUME NEW t \in PyThreads, TakeLoop(t) PROVE LoopInv'
  BY <1>0, <1>13 DEF TakeLoop
<1>14. ASSUME NEW t \in PyThreads, RestoreThread(t) PROVE LoopInv'
  BY <1>0, <1>14 DEF RestoreThread, Return
<1>15. ASSUME NEW t \in PyThreads, StartLock(t) PROVE LoopInv'
  BY <1>0, <1>15 DEF StartLock
<1>16. ASSUME NEW t \in PyThreads, StartInit(t) PROVE LoopInv'
  BY <1>0, <1>16 DEF StartInit
<1>17. ASSUME NEW t \in PyThreads, StartThread(t) PROVE LoopInv'
  <2>1. /\ m_thread < MaxVids /\ m_thread' = m_thread + 1 /\ m_thread + 1 \in Vids
        /\ vpc' = [vpc EXCEPT ![m_thread + 1] = "begin"]
        /\ UNCHANGED <<m_run, m_stopping, run, fault>>
    BY <1>17 DEF StartThread
  <2>2. vpc[m_thread + 1] = "unborn" /\ vpc'[m_thread + 1] = "begin"
    BY <2>1
  <2>3. StoppedIdle'
    BY <2>1, <1>17 DEF StartThread, Return
  <2>4. Unborn' /\ RunHasLoop'
    BY <2>1, <2>2
  <2>5. StoppingHasOwner'
    BY <2>1, <2>2 DEF StoppingHasOwner
  <2> QED BY <2>3, <2>4, <2>5
<1>18. ASSUME NEW t \in PyThreads, StopCheck(t) PROVE LoopInv'
  BY <1>0, <1>18 DEF StopCheck, AfterStop, Return
<1>19. ASSUME NEW t \in PyThreads, StopLock(t) PROVE LoopInv'
  BY <1>0, <1>19 DEF StopLock
<1>20. ASSUME NEW t \in PyThreads, StopClear(t) PROVE LoopInv'
  BY <1>0, <1>20 DEF StopClear, StopState
<1>21. ASSUME NEW t \in PyThreads, StopJoin(t) PROVE LoopInv'
  <2>1. ~m_run /\ UNCHANGED <<m_run, m_stopping, m_thread, run>>
    BY <1>21 DEF StopJoin
  <2>2. StoppedIdle' /\ RunHasLoop'
    BY <2>1
  <2>3. CASE UNCHANGED vpc
    BY <1>0, <2>1, <2>2, <2>3
  <2>4. CASE /\ m_thread # 0 /\ vpc[m_thread] \in Ended
             /\ vpc' = [vpc EXCEPT ![m_thread] =
                          IF Failed(m_thread) THEN "failedJoined" ELSE "joined"]
    <3>1. m_thread \in Vids
      BY <2>4
    <3>2. /\ vpc' = [vpc EXCEPT ![m_thread] = vpc'[m_thread]]
          /\ vpc[m_thread] \in Owning => vpc'[m_thread] \in Owning
      BY <2>4, <3>1 DEF Ended, Owning
    <3>3. StoppingHasOwner'
      BY <2>1, <3>1, <3>2, OwnerMoves
    <3>4. Unborn'
      BY <2>1, <2>4, <3>1
    <3> QED BY <2>2, <3>3, <3>4
  <2> QED BY <1>21, <2>3, <2>4 DEF StopJoin
<1>22. ASSUME NEW t \in PyThreads, StartRecord(t) PROVE LoopInv'
  BY <1>0, <1>22 DEF StartRecord
<1>23. ASSUME NEW t \in PyThreads, CreateStream(t) PROVE LoopInv'
  BY <1>0, <1>23 DEF CreateStream, Return
<1>24. ASSUME NEW t \in PyThreads, WaitNext(t) PROVE LoopInv'
  BY <1>0, <1>24 DEF WaitNext
<1>25. ASSUME NEW t \in PyThreads, ReadNext(t) PROVE LoopInv'
  BY <1>0, <1>25 DEF ReadNext, Return
<1>26. ASSUME NEW t \in PyThreads, FlistClear(t) PROVE LoopInv'
  BY <1>0, <1>26 DEF FlistClear, Return
<1>27. ASSUME NEW t \in PyThreads, ProgressTime(t) PROVE LoopInv'
  BY <1>0, <1>27 DEF ProgressTime, Return
<1>28. ASSUME NEW t \in PyThreads, UpdateParams(t) PROVE LoopInv'
  BY <1>0, <1>28 DEF UpdateParams
<1>29. ASSUME NEW t \in PyThreads, RestartCheck(t) PROVE LoopInv'
  BY <1>0, <1>29 DEF RestartCheck
<1>30. ASSUME NEW t \in PyThreads, CopyParams(t) PROVE LoopInv'
  BY <1>0, <1>30 DEF CopyParams, Return
<1>31. ASSUME NEW t \in PyThreads, SpuriousWakeup(t) PROVE LoopInv'
  BY <1>0, <1>31 DEF SpuriousWakeup
<1>32. ASSUME NEW v \in Vids, VidStep(v) PROVE LoopInv'
  BY <1>32, VidMoving, MoveKeepsLoop
<1>33. CASE UNCHANGED vars
  BY <1>0, <1>33 DEF vars
<1> QED
  BY <1>1, <1>2, <1>3, <1>4, <1>5, <1>6, <1>7, <1>8, <1>9, <1>10, <1>11,
      <1>12, <1>13, <1>14, <1>15, <1>16, <1>17, <1>18, <1>19, <1>20, <1>21,
      <1>22, <1>23, <1>24, <1>25, <1>26, <1>27, <1>28, <1>29, <1>30, <1>31,
      <1>32, <1>33 DEF Next, PyCall, PyStep

-----------------------------------------------------------------------------
(* A video thread stores a frame only while m_run, takes m_run back only   *)
(* with the frame and the record, and only adds to what is there to read.  *)
Stores ==
  /\ m_run' => m_run
  /\ m_frame' /\ ~m_run' => m_frame /\ ~m_run
  /\ ~m_run' /\ m_record' # None => ~m_run
  /\ unread \subseteq unread'

LEMMA VidStores ==
  ASSUME TypeOK, NEW v \in Vids, VidStep(v)
  PROVE  Stores
<1> USE DEF Stores, state, lists, Storing, TypeOK, StateType, ListType
<1>1. CASE Begin(v)
  BY <1>1 DEF Begin
<1>2. CASE SetApp(v)
  BY <1>2 DEF SetApp
<1>3. CASE Open(v)
  BY <1>3 DEF Open
<1>4. CASE LosesApp(v)
  BY <1>4 DEF LosesApp
<1>5. CASE LoopTop(v)
  BY <1>5 DEF LoopTop
<1>6. CASE CameraFails(v)
  BY <1>6 DEF CameraFails
<1>7. CASE FrameTimeout(v)
  BY <1>7 DEF FrameTimeout, AfterFrame
<1>8. CASE FrameStreamed(v)
  BY <1>8 DEF FrameStreamed
<1>9. CASE FrameRecorded(v)
  BY <1>9 DEF FrameRecorded
<1>10. CASE FrameStopRecord(v)
  BY <1>10 DEF FrameStopRecord, KcStopRecord
<1>11. CASE SelfStopCheck(v)
  BY <1>11 DEF SelfStopCheck
<1>12. CASE SelfStopLock(v)
  BY <1>12 DEF SelfStopLock
<1>13. CASE SelfStopClear(v)
  BY <1>13 DEF SelfStopClear, StopState
<1>14. CASE SelfStopMark(v)
  BY <1>14 DEF SelfStopMark
<1>15. CASE StopCamera(v)
  BY <1>15 DEF StopCamera
<1>16. CASE KcStopped(v)
  BY <1>16 DEF KcStopped
<1>17. CASE ClearApp(v)
  BY <1>17 DEF ClearApp
<1>18. CASE CloseCamera(v)
  BY <1>18 DEF CloseCamera
<1>19. CASE CloseFails(v)
  BY <1>19 DEF CloseFails
<1> QED
  BY <1>1, <1>2, <1>3, <1>4, <1>5, <1>6, <1>7, <1>8, <1>9, <1>10,
      <1>11, <1>12, <1>13, <1>14, <1>15, <1>16, <1>17, <1>18, <1>19 DEF
      VidStep

(* A frame that is left when m_run is taken back is left by a restart.     *)
LEMMA StrandedStep ==
  TypeOK /\ NoStrandedFrame /\ [Next]_vars => NoStrandedFrame'
<1> SUFFICES ASSUME TypeOK /\ NoStrandedFrame, [Next]_vars PROVE NoStrandedFrame'
  OBVIOUS
<1> USE ConstantsAssumption DEF ConstantsAssumption, At, Goto, Die,
      NoStrandedFrame, TypeOK, StateType, PythonType, sync, python, state, lists
<1>1. ASSUME NEW t \in PyThreads, CallFrame(t) PROVE NoStrandedFrame'
  BY <1>1 DEF CallFrame, Enter
<1>2. ASSUME NEW t \in PyThreads, CallStop(t) PROVE NoStrandedFrame'
  BY <1>2 DEF CallStop, Enter
<1>3. ASSUME NEW t \in PyThreads, CallRecord(t) PROVE NoStrandedFrame'
  BY <1>3 DEF CallRecord, Enter, KcStopRecord
<1>4. ASSUME NEW t \in PyThreads, CallRead(t) PROVE NoStrandedFrame'
  BY <1>4 DEF CallRead, Enter
<1>5. ASSUME NEW t \in PyThreads, CallDrop(t) PROVE NoStrandedFrame'
  BY <1>5 DEF CallDrop, Enter
<1>6. ASSUME NEW t \in PyThreads, CallProgress(t) PROVE NoStrandedFrame'
  BY <1>6 DEF CallProgress, Enter
<1>7. ASSUME NEW t \in PyThreads, CallMode(t) PROVE NoStrandedFrame'
  BY <1>7 DEF CallMode, Enter
<1>8. ASSUME NEW t \in PyThreads, CallStopRecord(t) PROVE NoStrandedFrame'
  BY <1>8 DEF CallStopRecord, KcStopRecord
<1>9. ASSUME NEW t \in PyThreads, WaitLast(t) PROVE NoStrandedFrame'
  BY <1>9 DEF WaitLast
<1>10. ASSUME NEW t \in PyThreads, CopyLast(t) PROVE NoStrandedFrame'
  BY <1>10 DEF CopyLast, Return
<1>11. ASSUME NEW t \in PyThreads, NextStream(t) PROVE NoStrandedFrame'
  BY <1>11 DEF NextStream
<1>12. ASSUME NEW t \in PyThreads, TakeFirst(t) PROVE NoStrandedFrame'
  BY <1>12 DEF TakeFirst, Return
<1>13. ASSUME NEW t \in PyThreads, TakeLoop(t) PROVE NoStrandedFrame'
  BY <1>13 DEF TakeLoop
<1>14. ASSUME NEW t \in PyThreads, RestoreThread(t) PROVE NoStrandedFrame'
  BY <1>14 DEF RestoreThread, Return
<1>15. ASSUME NEW t \in PyThreads, StartLock(t) PROVE NoStrandedFrame'
  BY <1>15 DEF StartLock
<1>16. ASSUME NEW t \in PyThreads, StartInit(t) PROVE NoStrandedFrame'
  BY <1>16 DEF StartInit
<1>17. ASSUME NEW t \in PyThreads, StartThread(t) PROVE NoStrandedFrame'
  BY <1>17 DEF StartThread, Return
<1>18. ASSUME NEW t \in PyThreads, StopCheck(t) PROVE NoStrandedFrame'
  BY <1>18 DEF StopCheck, AfterStop, Return
<1>19. ASSUME NEW t \in PyThreads, StopLock(t) PROVE NoStrandedFrame'
  BY <1>19 DEF StopLock
<1>20. ASSUME NEW t \in PyThreads, StopClear(t) PROVE NoStrandedFrame'
  BY <1>20 DEF StopClear, StopState
<1>21. ASSUME NEW t \in PyThreads, StopJoin(t) PROVE NoStrandedFrame'
  BY <1>21 DEF StopJoin, AfterStop, Return
<1>22. ASSUME NEW t \in PyThreads, StartRecord(t) PROVE NoStrandedFrame'
  BY <1>22 DEF StartRecord
<1>23. ASSUME NEW t \in PyThreads, CreateStream(t) PROVE NoStrandedFrame'
  BY <1>23 DEF CreateStream, Return
<1>24. ASSUME NEW t \in PyThreads, WaitNext(t) PROVE NoStrandedFrame'
  BY <1>24 DEF WaitNext
<1>25. ASSUME NEW t \in PyThreads, ReadNext(t) PROVE NoStrandedFrame'
  BY <1>25 DEF ReadNext, Return
<1>26. ASSUME NEW t \in PyThreads, FlistClear(t) PROVE NoStrandedFrame'
  BY <1>26 DEF FlistClear, Return
<1>27. ASSUME NEW t \in PyThreads, ProgressTime(t) PROVE NoStrandedFrame'
  BY <1>27 DEF ProgressTime, Return
<1>28. ASSUME NEW t \in PyThreads, UpdateParams(t) PROVE NoStrandedFrame'
  BY <1>28 DEF UpdateParams
<1>29. ASSUME NEW t \in PyThreads, RestartCheck(t) PROVE NoStrandedFrame'
  BY <1>29 DEF RestartCheck
<1>30. ASSUME NEW t \in PyThreads, CopyParams(t) PROVE NoStrandedFrame'
  BY <1>30 DEF CopyParams, Return
<1>31. ASSUME NEW t \in PyThreads, SpuriousWakeup(t) PROVE NoStrandedFrame'
  BY <1>31 DEF SpuriousWakeup
<1>32. ASSUME NEW v \in Vids, VidStep(v) PROVE NoStrandedFrame'
  BY <1>32, VidStores, VidLeavesPython DEF Stores
<1>33. CASE UNCHANGED vars
  BY <1>33 DEF vars
<1> QED
  BY <1>1, <1>2, <1>3, <1>4, <1>5, <1>6, <1>7, <1>8, <1>9, <1>10, <1>11,
      <1>12, <1>13, <1>14, <1>15, <1>16, <1>17, <1>18, <1>19, <1>20, <1>21,
      <1>22, <1>23, <1>24, <1>25, <1>26, <1>27, <1>28, <1>29, <1>30, <1>31,
      <1>32, <1>33 DEF Next, PyCall, PyStep

-----------------------------------------------------------------------------
(* A recording outlives m_run only through a restart of the camera, or     *)
(* while record() starts it.                                               *)
LEMMA RecordRunsStep ==
  TypeOK /\ ReadOver /\ RecordRuns /\ [Next]_vars => RecordRuns'
<1> SUFFICES ASSUME TypeOK /\ ReadOver /\ RecordRuns, [Next]_vars PROVE RecordRuns'
  OBVIOUS
<1> USE ConstantsAssumption DEF ConstantsAssumption, At, Goto, Die,
      ReadOver, RecordRuns, Restarting, StartsRecord, TypeOK, StateType, PythonType, sync, python, state, lists
<1>1. ASSUME NEW t \in PyThreads, CallFrame(t) PROVE RecordRuns'
  BY <1>1 DEF CallFrame, Enter
<1>2. ASSUME NEW t \in PyThreads, CallStop(t) PROVE RecordRuns'
  BY <1>2 DEF CallStop, Enter
<1>3. ASSUME NEW t \in PyThreads, CallRecord(t) PROVE RecordRuns'
  BY <1>3 DEF CallRecord, Enter, KcStopRecord
<1>4. ASSUME NEW t \in PyThreads, CallRead(t) PROVE RecordRuns'
  BY <1>4 DEF CallRead, Enter
<1>5. ASSUME NEW t \in PyThreads, CallDrop(t) PROVE RecordRuns'
  BY <1>5 DEF CallDrop, Enter
<1>6. ASSUME NEW t \in PyThreads, CallProgress(t) PROVE RecordRuns'
  BY <1>6 DEF CallProgress, Enter
<1>7. ASSUME NEW t \in PyThreads, CallMode(t) PROVE RecordRuns'
  BY <1>7 DEF CallMode, Enter
<1>8. ASSUME NEW t \in PyThreads, CallStopRecord(t) PROVE RecordRuns'
  BY <1>8 DEF CallStopRecord, KcStopRecord
<1>9. ASSUME NEW t \in PyThreads, WaitLast(t) PROVE RecordRuns'
  BY <1>9 DEF WaitLast
<1>10. ASSUME NEW t \in PyThreads, CopyLast(t) PROVE RecordRuns'
  BY <1>10 DEF CopyLast, Return
<1>11. ASSUME NEW t \in PyThreads, NextStream(t) PROVE RecordRuns'
  BY <1>11 DEF NextStream
<1>12. ASSUME NEW t \in PyThreads, TakeFirst(t) PROVE RecordRuns'
  BY <1>12 DEF TakeFirst, Return
<1>13. ASSUME NEW t \in PyThreads, TakeLoop(t) PROVE RecordRuns'
  BY <1>13 DEF TakeLoop
<1>14. ASSUME NEW t \in PyThreads, RestoreThread(t) PROVE RecordRuns'
  BY <1>14 DEF RestoreThread, Return
<1>15. ASSUME NEW t \in PyThreads, StartLock(t) PROVE RecordRuns'
  BY <1>15 DEF StartLock
<1>16. ASSUME NEW t \in PyThreads, StartInit(t) PROVE RecordRuns'
  BY <1>16 DEF StartInit
<1>17. ASSUME NEW t \in PyThreads, StartThread(t) PROVE RecordRuns'
  BY <1>17 DEF StartThread, Return
<1>18. ASSUME NEW t \in PyThreads, StopCheck(t) PROVE RecordRuns'
  BY <1>18 DEF StopCheck, AfterStop, Return
<1>19. ASSUME NEW t \in PyThreads, StopLock(t) PROVE RecordRuns'
  BY <1>19 DEF StopLock
<1>20. ASSUME NEW t \in PyThreads, StopClear(t) PROVE RecordRuns'
  BY <1>20 DEF StopClear, StopState
<1>21. ASSUME NEW t \in PyThreads, StopJoin(t) PROVE RecordRuns'
  BY <1>21 DEF StopJoin, AfterStop, Return
<1>22. ASSUME NEW t \in PyThreads, StartRecord(t) PROVE RecordRuns'
  BY <1>22 DEF StartRecord
<1>23. ASSUME NEW t \in PyThreads, CreateStream(t) PROVE RecordRuns'
  BY <1>23 DEF CreateStream, Return
<1>24. ASSUME NEW t \in PyThreads, WaitNext(t) PROVE RecordRuns'
  BY <1>24 DEF WaitNext
<1>25. ASSUME NEW t \in PyThreads, ReadNext(t) PROVE RecordRuns'
  BY <1>25 DEF ReadNext, Return
<1>26. ASSUME NEW t \in PyThreads, FlistClear(t) PROVE RecordRuns'
  BY <1>26 DEF FlistClear, Return
<1>27. ASSUME NEW t \in PyThreads, ProgressTime(t) PROVE RecordRuns'
  BY <1>27 DEF ProgressTime, Return
<1>28. ASSUME NEW t \in PyThreads, UpdateParams(t) PROVE RecordRuns'
  BY <1>28 DEF UpdateParams
<1>29. ASSUME NEW t \in PyThreads, RestartCheck(t) PROVE RecordRuns'
  BY <1>29 DEF RestartCheck
<1>30. ASSUME NEW t \in PyThreads, CopyParams(t) PROVE RecordRuns'
  BY <1>30 DEF CopyParams, Return
<1>31. ASSUME NEW t \in PyThreads, SpuriousWakeup(t) PROVE RecordRuns'
  BY <1>31 DEF SpuriousWakeup
<1>32. ASSUME NEW v \in Vids, VidStep(v) PROVE RecordRuns'
  BY <1>32, VidStores, VidLeavesPython, VidDropsRecord DEF Stores
<1>33. CASE UNCHANGED vars
  BY <1>33 DEF vars
<1> QED
  BY <1>1, <1>2, <1>3, <1>4, <1>5, <1>6, <1>7, <1>8, <1>9, <1>10, <1>11,
      <1>12, <1>13, <1>14, <1>15, <1>16, <1>17, <1>18, <1>19, <1>20, <1>21,
      <1>22, <1>23, <1>24, <1>25, <1>26, <1>27, <1>28, <1>29, <1>30, <1>31,
      <1>32, <1>33 DEF Next, PyCall, PyStep

-----------------------------------------------------------------------------
(* No one takes the frame from a reader, which holds the GIL; and while it *)
(* does, no call is in the middle of a restart.                            *)
LEMMA ReadOverStep ==
  TypeOK /\ GilExclusive /\ RecordRuns /\ ReadOver /\ [Next]_vars => ReadOver'
<1> SUFFICES ASSUME TypeOK /\ GilExclusive /\ RecordRuns /\ ReadOver, [Next]_vars PROVE ReadOver'
  OBVIOUS
<1> USE ConstantsAssumption DEF ConstantsAssumption, At, Goto, Die,
      GilExclusive, RecordRuns, ReadOver, Restarting, StartsRecord, ListType, SyncType, TypeOK, StateType, PythonType, sync, python, state, lists
<1>1. ASSUME NEW t \in PyThreads, CallFrame(t) PROVE ReadOver'
  BY <1>1 DEF CallFrame, Enter
<1>2. ASSUME NEW t \in PyThreads, CallStop(t) PROVE ReadOver'
  BY <1>2 DEF CallStop, Enter
<1>3. ASSUME NEW t \in PyThreads, CallRecord(t) PROVE ReadOver'
  BY <1>3 DEF CallRecord, Enter, KcStopRecord
<1>4. ASSUME NEW t \in PyThreads, CallRead(t) PROVE ReadOver'
  BY <1>4 DEF CallRead, Enter
<1>5. ASSUME NEW t \in PyThreads, CallDrop(t) PROVE ReadOver'
  BY <1>5 DEF CallDrop, Enter
<1>6. ASSUME NEW t \in PyThreads, CallProgress(t) PROVE ReadOver'
  BY <1>6 DEF CallProgress, Enter
<1>7. ASSUME NEW t \in PyThreads, CallMode(t) PROVE ReadOver'
  BY <1>7 DEF CallMode, Enter
<1>8. ASSUME NEW t \in PyThreads, CallStopRecord(t) PROVE ReadOver'
  BY <1>8 DEF CallStopRecord, KcStopRecord
<1>9. ASSUME NEW t \in PyThreads, WaitLast(t) PROVE ReadOver'
  BY <1>9 DEF WaitLast
<1>10. ASSUME NEW t \in PyThreads, CopyLast(t) PROVE ReadOver'
  <2>1. UNCHANGED <<state, lists>> /\ pc[t] = "copyLast" /\ (fault' = "none" => fault = "none")
    BY <1>10 DEF CopyLast
  <2>2. UNCHANGED python \/ Return(t)
    BY <1>10 DEF CopyLast
  <2>3. CASE UNCHANGED python
    BY <2>1, <2>3
  <2>4. CASE Return(t)
    BY <2>1, <2>4 DEF Return
  <2> QED BY <2>2, <2>3, <2>4
<1>11. ASSUME NEW t \in PyThreads, NextStream(t) PROVE ReadOver'
  BY <1>11 DEF NextStream
<1>12. ASSUME NEW t \in PyThreads, TakeFirst(t) PROVE ReadOver'
  BY <1>12 DEF TakeFirst, Return
<1>13. ASSUME NEW t \in PyThreads, TakeLoop(t) PROVE ReadOver'
  BY <1>13 DEF TakeLoop
<1>14. ASSUME NEW t \in PyThreads, RestoreThread(t) PROVE ReadOver'
  BY <1>14 DEF RestoreThread, Return
<1>15. ASSUME NEW t \in PyThreads, StartLock(t) PROVE ReadOver'
  BY <1>15 DEF StartLock
<1>16. ASSUME NEW t \in PyThreads, StartInit(t) PROVE ReadOver'
  BY <1>16 DEF StartInit
<1>17. ASSUME NEW t \in PyThreads, StartThread(t) PROVE ReadOver'
  BY <1>17 DEF StartThread, Return
<1>18. ASSUME NEW t \in PyThreads, StopCheck(t) PROVE ReadOver'
  BY <1>18 DEF StopCheck, AfterStop, Return
<1>19. ASSUME NEW t \in PyThreads, StopLock(t) PROVE ReadOver'
  BY <1>19 DEF StopLock
<1>20. ASSUME NEW t \in PyThreads, StopClear(t) PROVE ReadOver'
  BY <1>20 DEF StopClear, StopState
<1>21. ASSUME NEW t \in PyThreads, StopJoin(t) PROVE ReadOver'
  <2>1. UNCHANGED <<state, lists>> /\ pc[t] = "stopJoin" /\ (fault' = "none" => fault = "none")
    BY <1>21 DEF StopJoin
  <2>2. UNCHANGED python \/ Return(t) \/ Goto(t, "startLock")
    BY <1>21 DEF StopJoin, AfterStop
  <2>3. CASE UNCHANGED python
    BY <2>1, <2>3
  <2>4. CASE Return(t)
    BY <2>1, <2>4 DEF Return
  <2>5. CASE Goto(t, "startLock")
    BY <2>1, <2>5
  <2> QED BY <2>2, <2>3, <2>4, <2>5
<1>22. ASSUME NEW t \in PyThreads, StartRecord(t) PROVE ReadOver'
  BY <1>22 DEF StartRecord
<1>23. ASSUME NEW t \in PyThreads, CreateStream(t) PROVE ReadOver'
  BY <1>23 DEF CreateStream, Return
<1>24. ASSUME NEW t \in PyThreads, WaitNext(t) PROVE ReadOver'
  BY <1>24 DEF WaitNext
<1>25. ASSUME NEW t \in PyThreads, ReadNext(t) PROVE ReadOver'
  BY <1>25 DEF ReadNext, Return
<1>26. ASSUME NEW t \in PyThreads, FlistClear(t) PROVE ReadOver'
  BY <1>26 DEF FlistClear, Return
<1>27. ASSUME NEW t \in PyThreads, ProgressTime(t) PROVE ReadOver'
  <2>1. UNCHANGED <<state, lists>> /\ pc[t] = "flistTime" /\ (fault' = "none" => fault = "none")
    BY <1>27 DEF ProgressTime
  <2>2. UNCHANGED python \/ Return(t)
    BY <1>27 DEF ProgressTime
  <2>3. CASE UNCHANGED python
    BY <2>1, <2>3
  <2>4. CASE Return(t)
    BY <2>1, <2>4 DEF Return
  <2> QED BY <2>2, <2>3, <2>4
<1>28. ASSUME NEW t \in PyThreads, UpdateParams(t) PROVE ReadOver'
  BY <1>28 DEF UpdateParams
<1>29. ASSUME NEW t \in PyThreads, RestartCheck(t) PROVE ReadOver'
  BY <1>29 DEF RestartCheck
<1>30. ASSUME NEW t \in PyThreads, CopyParams(t) PROVE ReadOver'
  BY <1>30 DEF CopyParams, Return
<1>31. ASSUME NEW t \in PyThreads, SpuriousWakeup(t) PROVE ReadOver'
  BY <1>31 DEF SpuriousWakeup
<1>32. ASSUME NEW v \in Vids, VidStep(v) PROVE ReadOver'
  BY <1>32, VidStores, VidLeavesPython, VidDropsRecord DEF Stores
<1>33. CASE UNCHANGED vars
  BY <1>33 DEF vars
<1> QED
  BY <1>1, <1>2, <1>3, <1>4, <1>5, <1>6, <1>7, <1>8, <1>9, <1>10, <1>11,
      <1>12, <1>13, <1>14, <1>15, <1>16, <1>17, <1>18, <1>19, <1>20, <1>21,
      <1>22, <1>23, <1>24, <1>25, <1>26, <1>27, <1>28, <1>29, <1>30, <1>31,
      <1>32, <1>33 DEF Next, PyCall, PyStep

-----------------------------------------------------------------------------
(* The initial state satisfies the invariant: no thread is in a call, and  *)
(* nothing is allocated.                                                   *)
LEMMA KInitInv == Init => KInv
<1> SUFFICES ASSUME Init PROVE KInv
  OBVIOUS
<1> USE ConstantsAssumption DEF ConstantsAssumption, Init
<1>1. SyncType /\ LoopType /\ ListType
  BY DEF SyncType, LoopType, ListType
<1>6. StateType
  <2>1. m_run \in BOOLEAN /\ m_stopping \in BOOLEAN /\ m_frame \in BOOLEAN /\ m_frameTimer \in BOOLEAN
    BY Zenon
  <2>2. m_thread \in 0..MaxVids /\ m_record \in Records \cup {None}
    OBVIOUS
  <2> QED BY <2>1, <2>2 DEF StateType
<1>7. FaultType
  BY DEF FaultType
<1>2. PythonType /\ VideoType
  BY DEF PythonType, VideoType, PyPlaces, VidPlaces, Calls
<1>3. ParamsExclusive /\ GilExclusive
  BY DEF ParamsExclusive, PyInParams, VidInParams, GilExclusive
<1>4. RecordCalls /\ RecordPointerValid
  BY DEF RecordCalls, RecordPointerValid
<1>5. StopMarkIdle /\ StoppingMeansIdle
  BY DEF StopMarkIdle, StoppingMeansIdle
<1>8. LoopInv
  BY DEF LoopInv, StoppedIdle, Unborn, RunHasLoop, StoppingHasOwner, Vids
<1>9. FrameInv
  BY DEF FrameInv, RecordRuns, ReadOver, NoStrandedFrame
<1> QED
  BY <1>1, <1>2, <1>3, <1>4, <1>5, <1>6, <1>7, <1>8, <1>9
     DEF KInv, TypeOK, RecordInv, StoppingInv

(* KInv is inductive. *)
THEOREM KInvariance == Spec => []KInv
<1>1. KInv /\ [Next]_vars => KInv'
  BY TypeStep, GilStep, ParamsStep, RecordStep, StoppingStep, LoopStep,
     StrandedStep, RecordRunsStep, ReadOverStep DEF KInv, FrameInv
<1> QED
  BY KInitInv, <1>1, PTL DEF Spec

(* Every variable keeps its type, whatever the threads do. *)
THEOREM TypeCorrect == Spec => []TypeOK
<1>1. KInv => TypeOK
  BY DEF KInv
<1> QED
  BY KInvariance, <1>1, PTL

(* m_paramsMutex excludes: no two threads are inside kcStart or            *)
(* kcStopInternal at once.                                                 *)
THEOREM ParamsSafety == Spec => []ParamsExclusive
<1>1. KInv => ParamsExclusive
  BY DEF KInv
<1> QED
  BY KInvariance, <1>1, PTL

(* One thread at a time is inside the extension, but for the readers that  *)
(* gave the GIL up in kcNextStreamFrame.                                   *)
THEOREM GilSafety == Spec => []GilExclusive
<1>1. KInv => GilExclusive
  BY DEF KInv
<1> QED
  BY KInvariance, <1>1, PTL

(* Both locks, as the run states it.                                       *)
THEOREM LockSafety == Spec => []LocksExclusive
<1>1. ParamsExclusive /\ GilExclusive => LocksExclusive
  BY DEF LocksExclusive
<1> QED
  BY ParamsSafety, GilSafety, <1>1, PTL

(* streamer_dealloc never frees the list that the video thread appends to, *)
(* or one that a Streamer or a call still reaches.                         *)
THEOREM RecordSafety == Spec => []RecordPointerValid
<1>1. KInv => RecordPointerValid
  BY DEF KInv, RecordInv
<1> QED
  BY KInvariance, <1>1, PTL

(* While the old loop has not called kcStopped, m_run stays 0.             *)
THEOREM StoppingSafety == Spec => []StoppingMeansIdle
<1>1. KInv => StoppingMeansIdle
  BY DEF KInv, StoppingInv
<1> QED
  BY KInvariance, <1>1, PTL

(* A reader that blocks while m_run can rely on it: outside kcStart and    *)
(* kcStopInternal the newest video thread captures, or has failed.         *)
THEOREM RunSafety == Spec => []RunHasLoop
<1>1. KInv => RunHasLoop
  BY DEF KInv, LoopInv
<1> QED
  BY KInvariance, <1>1, PTL

(* A kcStart that spins on m_stopping waits for a thread that is on its    *)
(* way to kcStopped, or that an exception has kept from it.                *)
THEOREM OwnerSafety == Spec => []StoppingHasOwner
<1>1. KInv => StoppingHasOwner
  BY DEF KInv, LoopInv
<1> QED
  BY KInvariance, <1>1, PTL

(* The "stranded frame" of kcFrameData's comment does not stay: m_frame is *)
(* empty once capture has stopped, except across a restart.                *)
THEOREM StrandedSafety == Spec => []NoStrandedFrame
<1>1. KInv => NoStrandedFrame
  BY DEF KInv, FrameInv
<1> QED
  BY KInvariance, <1>1, PTL

(* Once the process has died, nobody moves. *)
LEMMA NobodyMoves == Next => fault = "none"
<1>1. ASSUME NEW t \in PyThreads, PyCall(t) PROVE fault = "none"
  BY <1>1 DEF PyCall, Enter, At, CallFrame, CallStop, CallRecord, CallStopRecord,
     CallRead, CallDrop, CallProgress, CallMode
<1>2. ASSUME NEW t \in PyThreads, PyStep(t) PROVE fault = "none"
  BY <1>2 DEF PyStep, At, WaitLast, CopyLast, NextStream, TakeFirst, TakeLoop,
     RestoreThread, StartLock, StartInit, StartThread, StopCheck, StopLock,
     StopClear, StopJoin, StartRecord, CreateStream, WaitNext, ReadNext,
     FlistClear, ProgressTime, UpdateParams, RestartCheck, CopyParams
<1>3. ASSUME NEW t \in PyThreads, SpuriousWakeup(t) PROVE fault = "none"
  BY <1>3 DEF SpuriousWakeup
<1> QED BY <1>1, <1>2, <1>3, VidLeavesPython DEF Next

(* A read that finds no frame is of a recording that has ended:            *)
(* kcWaitNextRecordFrame does not give up on one that goes on.             *)
THEOREM ReadSafety == Spec => NoneMeansFinished
<1> DEFINE Finished ==
      \A t \in PyThreads :
        pc[t] = "flistNext" /\ pc'[t] = "idle" /\ arg[t] \notin unread => arg[t] # m_record
<1>1. KInv /\ [Next]_vars => [Finished]_vars
  <2> SUFFICES ASSUME KInv, Next, NEW t \in PyThreads,
                      pc[t] = "flistNext", arg[t] \notin unread
               PROVE  arg[t] # m_record
    OBVIOUS
  <2>1. fault = "none"
    BY NobodyMoves
  <2> QED BY <2>1 DEF KInv, FrameInv, ReadOver
<1> QED
  BY KInvariance, <1>1, PTL DEF Spec, NoneMeansFinished
=============================================================================
