--------------------------- MODULE MediaHubProofs ----------------------------
(***************************************************************************)
(* Proofs about MediaHub, for any set of streamers and any source that     *)
(* calls back a bounded number of times per read_nal.                      *)
(***************************************************************************)
EXTENDS MediaHub, TLAPS

\* Each step of the hub keeps every variable in its type.
LEMMA TypeStep == TypeOK /\ HeldInv /\ [Next]_vars => TypeOK'
<1> SUFFICES ASSUME TypeOK, HeldInv, [Next]_vars PROVE TypeOK'
  OBVIOUS
<1> USE DEF TypeOK, pumpVars, fanVars, hubVars, cacheVars, callerVars, PumpAlive, NalTypes,
            SubscribePCs, UnsubscribePCs, OtherPCs
<1>1. CASE Calls
  BY <1>1 DEF Calls, CallSubscribe, Passed, CallUnsubscribe, CallSprop, CallDestructor
<1>2. CASE EpollLock
  BY <1>2 DEF EpollLock, SubscribeLock, MutexFree, UnsubscribeErase, SpropLock
<1>3. CASE SubscribeCheck
  BY <1>3 DEF SubscribeCheck, Reap
<1>4. CASE SubscribeJoin
  BY <1>4, ZenonT(30) DEF SubscribeJoin
<1>5. CASE SubscribeStartFails \/ SubscribeStarts
  BY <1>5 DEF SubscribeStartFails, SubscribeStarts
<1>6. CASE SubscribePush
  BY <1>6 DEF SubscribePush, HeldInv
<1>7. CASE UnsubscribeOff
  BY <1>7, ZenonT(30) DEF UnsubscribeOff, JoinWithout, LastViewerLeft
<1>8. CASE UnsubscribeKeep \/ UnsubscribeJoin
  BY <1>8 DEF UnsubscribeKeep, UnsubscribeJoin, LastViewerLeft
<1>9. CASE SpropRead \/ DestructorOff
  <2>1. CASE SpropRead
    BY <2>1 DEF SpropRead
  <2>2. CASE DestructorOff
    <3>1. running_' \in BOOLEAN
      BY <2>2, Zenon DEF DestructorOff
    <3> QED
      BY <2>2, <3>1 DEF DestructorOff
  <2> QED
    BY <1>9, <2>1, <2>2
<1>10. CASE DestructorJoin
  BY <1>10 DEF DestructorJoin
<1>11. CASE PumpLoop
  BY <1>11 DEF PumpLoop, LoopTest
<1>12. CASE ReadDelivers \/ ReadReturns
  BY <1>12, HubAssumption DEF ReadDelivers, ReadReturns
<1>13. CASE OnNalLock \/ OnNalUnlock
  <2>1. CASE OnNalLock
    <3>1. sps_' \in BOOLEAN /\ pps_' \in BOOLEAN
      BY <2>1, Zenon DEF OnNalLock, MutexFree
    <3>2. phase' \in {0, 1}
      BY <2>1 DEF OnNalLock, MutexFree
    <3> QED
      BY <2>1, <3>1, <3>2 DEF OnNalLock, MutexFree
  <2>2. CASE OnNalUnlock
    BY <2>2 DEF OnNalUnlock
  <2> QED
    BY <1>13, <2>1, <2>2
<1>14. CASE \E s \in Streamers : OnNalSend(s)
  BY <1>14 DEF OnNalSend, Remaining
<1>15. CASE PumpStop \/ PumpClear
  <2>1. CASE PumpStop
    BY <2>1 DEF PumpStop, SourceStopped
  <2>2. CASE PumpClear
    <3>1. running_' \in BOOLEAN
      BY <2>2, Zenon DEF PumpClear
    <3> QED
      BY <2>2, <3>1 DEF PumpClear
  <2> QED
    BY <1>15, <2>1, <2>2
<1>16. CASE Exited \/ UNCHANGED vars
  BY <1>16 DEF Exited, vars
<1> QED
  BY <1>1, <1>2, <1>3, <1>4, <1>5, <1>6, <1>7, <1>8, <1>9, <1>10,
     <1>11, <1>12, <1>13, <1>14, <1>15, <1>16
  DEF Next, EpollStep, PumpStep

\* The mutex and the program counters stay in step.
LEMMA LockStep == TypeOK /\ LockInv /\ [Next]_vars => LockInv'
<1> SUFFICES ASSUME TypeOK, LockInv, [Next]_vars PROVE LockInv'
  OBVIOUS
<1> USE DEF TypeOK, LockInv, LockedPCs, pumpVars, fanVars, hubVars, cacheVars, callerVars
<1>1. CASE Calls
  BY <1>1 DEF Calls, CallSubscribe, Passed, CallUnsubscribe, CallSprop, CallDestructor
<1>2. CASE EpollLock
  BY <1>2 DEF EpollLock, SubscribeLock, MutexFree, UnsubscribeErase, SpropLock
<1>3. CASE SubscribeCheck
  BY <1>3 DEF SubscribeCheck, Reap
<1>4. CASE SubscribeJoin
  BY <1>4 DEF SubscribeJoin
<1>5. CASE SubscribeStartFails \/ SubscribeStarts
  BY <1>5 DEF SubscribeStartFails, SubscribeStarts
<1>6. CASE SubscribePush
  BY <1>6 DEF SubscribePush
<1>7. CASE UnsubscribeOff
  BY <1>7 DEF UnsubscribeOff, JoinWithout, LastViewerLeft
<1>8. CASE UnsubscribeKeep \/ UnsubscribeJoin
  BY <1>8 DEF UnsubscribeKeep, UnsubscribeJoin, LastViewerLeft
<1>9. CASE SpropRead \/ DestructorOff
  BY <1>9 DEF SpropRead, DestructorOff
<1>10. CASE DestructorJoin
  BY <1>10 DEF DestructorJoin
<1>11. CASE PumpLoop
  BY <1>11 DEF PumpLoop, LoopTest
<1>12. CASE ReadDelivers \/ ReadReturns
  BY <1>12 DEF ReadDelivers, ReadReturns
<1>13. CASE OnNalLock \/ OnNalUnlock
  BY <1>13 DEF OnNalLock, MutexFree, OnNalUnlock
<1>14. CASE \E s \in Streamers : OnNalSend(s)
  BY <1>14 DEF OnNalSend, Remaining
<1>15. CASE PumpStop \/ PumpClear
  BY <1>15 DEF PumpStop, SourceStopped, PumpClear
<1>16. CASE Exited \/ UNCHANGED vars
  BY <1>16 DEF Exited, vars
<1> QED
  BY <1>1, <1>2, <1>3, <1>4, <1>5, <1>6, <1>7, <1>8, <1>9, <1>10,
     <1>11, <1>12, <1>13, <1>14, <1>15, <1>16
  DEF Next, EpollStep, PumpStep

\* The handle, running_ and the pump thread stay in step.
LEMMA ThreadStep == TypeOK /\ LockInv /\ ThreadInv /\ OffInv /\ HeldInv /\ [Next]_vars => ThreadInv'
<1> SUFFICES ASSUME TypeOK, LockInv, ThreadInv, OffInv, HeldInv, [Next]_vars PROVE ThreadInv'
  OBVIOUS
<1> USE DEF TypeOK, LockInv, LockedPCs, ThreadInv, OffInv, HeldInv,
            PumpAlive, pumpVars, fanVars, hubVars, cacheVars, callerVars
<1>1. CASE Calls
  BY <1>1 DEF Calls, CallSubscribe, Passed, CallUnsubscribe, CallSprop, CallDestructor
<1>2. CASE EpollLock
  BY <1>2 DEF EpollLock, SubscribeLock, MutexFree, UnsubscribeErase, SpropLock
<1>3. CASE SubscribeCheck
  BY <1>3 DEF SubscribeCheck, Reap
<1>4. CASE SubscribeJoin
  BY <1>4 DEF SubscribeJoin
<1>5. CASE SubscribeStartFails \/ SubscribeStarts
  BY <1>5 DEF SubscribeStartFails, SubscribeStarts
<1>6. CASE SubscribePush
  BY <1>6 DEF SubscribePush
<1>7. CASE UnsubscribeOff
  BY <1>7 DEF UnsubscribeOff, JoinWithout, LastViewerLeft
<1>8. CASE UnsubscribeKeep \/ UnsubscribeJoin
  BY <1>8 DEF UnsubscribeKeep, UnsubscribeJoin, LastViewerLeft
<1>9. CASE SpropRead \/ DestructorOff
  BY <1>9 DEF SpropRead, DestructorOff
<1>10. CASE DestructorJoin
  BY <1>10 DEF DestructorJoin
<1>11. CASE PumpLoop
  BY <1>11 DEF PumpLoop, LoopTest
<1>12. CASE ReadDelivers \/ ReadReturns
  BY <1>12 DEF ReadDelivers, ReadReturns
<1>13. CASE OnNalLock \/ OnNalUnlock
  BY <1>13 DEF OnNalLock, MutexFree, OnNalUnlock
<1>14. CASE \E s \in Streamers : OnNalSend(s)
  BY <1>14 DEF OnNalSend, Remaining
<1>15. CASE PumpStop \/ PumpClear
  BY <1>15 DEF PumpStop, SourceStopped, PumpClear
<1>16. CASE Exited \/ UNCHANGED vars
  BY <1>16 DEF Exited, vars
<1> QED
  BY <1>1, <1>2, <1>3, <1>4, <1>5, <1>6, <1>7, <1>8, <1>9, <1>10,
     <1>11, <1>12, <1>13, <1>14, <1>15, <1>16
  DEF Next, EpollStep, PumpStep

\* The source is opened before its pump starts and closed by that pump.
LEMMA SourceStep == TypeOK /\ ThreadInv /\ SourceInv /\ [Next]_vars => SourceInv'
<1> SUFFICES ASSUME TypeOK, ThreadInv, SourceInv, [Next]_vars PROVE SourceInv'
  OBVIOUS
<1> USE DEF TypeOK, ThreadInv, SourceInv, PumpAlive, PumpUsesSource,
            pumpVars, fanVars, hubVars, cacheVars, callerVars
<1>1. CASE Calls
  BY <1>1 DEF Calls, CallSubscribe, Passed, CallUnsubscribe, CallSprop, CallDestructor
<1>2. CASE EpollLock
  BY <1>2 DEF EpollLock, SubscribeLock, MutexFree, UnsubscribeErase, SpropLock
<1>3. CASE SubscribeCheck
  BY <1>3 DEF SubscribeCheck, Reap
<1>4. CASE SubscribeJoin
  BY <1>4 DEF SubscribeJoin
<1>5. CASE SubscribeStartFails \/ SubscribeStarts
  BY <1>5 DEF SubscribeStartFails, SubscribeStarts
<1>6. CASE SubscribePush
  BY <1>6 DEF SubscribePush
<1>7. CASE UnsubscribeOff
  BY <1>7 DEF UnsubscribeOff, JoinWithout, LastViewerLeft
<1>8. CASE UnsubscribeKeep \/ UnsubscribeJoin
  BY <1>8 DEF UnsubscribeKeep, UnsubscribeJoin, LastViewerLeft
<1>9. CASE SpropRead \/ DestructorOff
  BY <1>9 DEF SpropRead, DestructorOff
<1>10. CASE DestructorJoin
  BY <1>10 DEF DestructorJoin
<1>11. CASE PumpLoop
  BY <1>11 DEF PumpLoop, LoopTest
<1>12. CASE ReadDelivers \/ ReadReturns
  BY <1>12 DEF ReadDelivers, ReadReturns
<1>13. CASE OnNalLock \/ OnNalUnlock
  BY <1>13 DEF OnNalLock, MutexFree, OnNalUnlock
<1>14. CASE \E s \in Streamers : OnNalSend(s)
  BY <1>14 DEF OnNalSend, Remaining
<1>15. CASE PumpStop \/ PumpClear
  BY <1>15 DEF PumpStop, SourceStopped, PumpClear
<1>16. CASE Exited \/ UNCHANGED vars
  BY <1>16 DEF Exited, vars
<1> QED
  BY <1>1, <1>2, <1>3, <1>4, <1>5, <1>6, <1>7, <1>8, <1>9, <1>10,
     <1>11, <1>12, <1>13, <1>14, <1>15, <1>16
  DEF Next, EpollStep, PumpStep

\* The sessions and the subscriber list stay in step.
LEMMA HeldStep == TypeOK /\ HeldInv /\ [Next]_vars => HeldInv'
<1> SUFFICES ASSUME TypeOK, HeldInv, [Next]_vars PROVE HeldInv'
  OBVIOUS
<1> USE DEF TypeOK, HeldInv, SubscribePCs, pumpVars, fanVars, hubVars, cacheVars, callerVars
<1>1. CASE Calls
  BY <1>1 DEF Calls, CallSubscribe, Passed, CallUnsubscribe, CallSprop, CallDestructor
<1>2. CASE EpollLock
  BY <1>2 DEF EpollLock, SubscribeLock, MutexFree, UnsubscribeErase, SpropLock
<1>3. CASE SubscribeCheck
  BY <1>3 DEF SubscribeCheck, Reap
<1>4. CASE SubscribeJoin
  BY <1>4 DEF SubscribeJoin
<1>5. CASE SubscribeStartFails \/ SubscribeStarts
  BY <1>5 DEF SubscribeStartFails, SubscribeStarts
<1>6. CASE SubscribePush
  BY <1>6 DEF SubscribePush
<1>7. CASE UnsubscribeOff
  BY <1>7 DEF UnsubscribeOff, JoinWithout, LastViewerLeft
<1>8. CASE UnsubscribeKeep \/ UnsubscribeJoin
  BY <1>8 DEF UnsubscribeKeep, UnsubscribeJoin, LastViewerLeft
<1>9. CASE SpropRead \/ DestructorOff
  BY <1>9 DEF SpropRead, DestructorOff
<1>10. CASE DestructorJoin
  BY <1>10 DEF DestructorJoin
<1>11. CASE PumpLoop
  BY <1>11 DEF PumpLoop, LoopTest
<1>12. CASE ReadDelivers \/ ReadReturns
  BY <1>12 DEF ReadDelivers, ReadReturns
<1>13. CASE OnNalLock \/ OnNalUnlock
  BY <1>13 DEF OnNalLock, MutexFree, OnNalUnlock
<1>14. CASE \E s \in Streamers : OnNalSend(s)
  BY <1>14 DEF OnNalSend, Remaining
<1>15. CASE PumpStop \/ PumpClear
  BY <1>15 DEF PumpStop, SourceStopped, PumpClear
<1>16. CASE Exited \/ UNCHANGED vars
  BY <1>16 DEF Exited, vars
<1> QED
  BY <1>1, <1>2, <1>3, <1>4, <1>5, <1>6, <1>7, <1>8, <1>9, <1>10,
     <1>11, <1>12, <1>13, <1>14, <1>15, <1>16
  DEF Next, EpollStep, PumpStep

\* A hub without subscribers is switched off.
LEMMA OffStep == TypeOK /\ ThreadInv /\ HeldInv /\ OffInv /\ [Next]_vars => OffInv'
<1> SUFFICES ASSUME TypeOK, ThreadInv, HeldInv, OffInv, [Next]_vars PROVE OffInv'
  OBVIOUS
<1> USE DEF TypeOK, ThreadInv, HeldInv, OffInv, SubscribePCs,
            pumpVars, fanVars, hubVars, cacheVars, callerVars
<1>1. CASE Calls
  BY <1>1 DEF Calls, CallSubscribe, Passed, CallUnsubscribe, CallSprop, CallDestructor
<1>2. CASE EpollLock
  BY <1>2 DEF EpollLock, SubscribeLock, MutexFree, UnsubscribeErase, SpropLock
<1>3. CASE SubscribeCheck
  BY <1>3 DEF SubscribeCheck, Reap
<1>4. CASE SubscribeJoin
  BY <1>4 DEF SubscribeJoin
<1>5. CASE SubscribeStartFails \/ SubscribeStarts
  BY <1>5 DEF SubscribeStartFails, SubscribeStarts
<1>6. CASE SubscribePush
  BY <1>6 DEF SubscribePush
<1>7. CASE UnsubscribeOff
  BY <1>7 DEF UnsubscribeOff, JoinWithout, LastViewerLeft
<1>8. CASE UnsubscribeKeep \/ UnsubscribeJoin
  BY <1>8 DEF UnsubscribeKeep, UnsubscribeJoin, LastViewerLeft
<1>9. CASE SpropRead \/ DestructorOff
  BY <1>9 DEF SpropRead, DestructorOff
<1>10. CASE DestructorJoin
  BY <1>10 DEF DestructorJoin
<1>11. CASE PumpLoop
  BY <1>11 DEF PumpLoop, LoopTest
<1>12. CASE ReadDelivers \/ ReadReturns
  BY <1>12 DEF ReadDelivers, ReadReturns
<1>13. CASE OnNalLock \/ OnNalUnlock
  BY <1>13 DEF OnNalLock, MutexFree, OnNalUnlock
<1>14. CASE \E s \in Streamers : OnNalSend(s)
  BY <1>14 DEF OnNalSend, Remaining
<1>15. CASE PumpStop \/ PumpClear
  BY <1>15 DEF PumpStop, SourceStopped, PumpClear
<1>16. CASE Exited \/ UNCHANGED vars
  BY <1>16 DEF Exited, vars
<1> QED
  BY <1>1, <1>2, <1>3, <1>4, <1>5, <1>6, <1>7, <1>8, <1>9, <1>10,
     <1>11, <1>12, <1>13, <1>14, <1>15, <1>16
  DEF Next, EpollStep, PumpStep

\* A fan-out reaches every subscriber, and nobody else.
LEMMA FanoutStep == TypeOK /\ LockInv /\ HeldInv /\ FanoutInv /\ [Next]_vars => FanoutInv'
<1> SUFFICES ASSUME TypeOK, LockInv, HeldInv, FanoutInv, [Next]_vars PROVE FanoutInv'
  OBVIOUS
<1> USE DEF TypeOK, LockInv, LockedPCs, HeldInv, FanoutInv, SubscribePCs,
            pumpVars, fanVars, hubVars, cacheVars, callerVars
<1>1. CASE Calls
  BY <1>1 DEF Calls, CallSubscribe, Passed, CallUnsubscribe, CallSprop, CallDestructor
<1>2. CASE EpollLock
  BY <1>2 DEF EpollLock, SubscribeLock, MutexFree, UnsubscribeErase, SpropLock
<1>3. CASE SubscribeCheck
  BY <1>3 DEF SubscribeCheck, Reap
<1>4. CASE SubscribeJoin
  BY <1>4 DEF SubscribeJoin
<1>5. CASE SubscribeStartFails \/ SubscribeStarts
  BY <1>5 DEF SubscribeStartFails, SubscribeStarts
<1>6. CASE SubscribePush
  BY <1>6 DEF SubscribePush
<1>7. CASE UnsubscribeOff
  BY <1>7 DEF UnsubscribeOff, JoinWithout, LastViewerLeft
<1>8. CASE UnsubscribeKeep \/ UnsubscribeJoin
  BY <1>8 DEF UnsubscribeKeep, UnsubscribeJoin, LastViewerLeft
<1>9. CASE SpropRead \/ DestructorOff
  BY <1>9 DEF SpropRead, DestructorOff
<1>10. CASE DestructorJoin
  BY <1>10 DEF DestructorJoin
<1>11. CASE PumpLoop
  BY <1>11 DEF PumpLoop, LoopTest
<1>12. CASE ReadDelivers \/ ReadReturns
  BY <1>12 DEF ReadDelivers, ReadReturns
<1>13. CASE OnNalLock \/ OnNalUnlock
  BY <1>13 DEF OnNalLock, MutexFree, OnNalUnlock
<1>14. CASE \E s \in Streamers : OnNalSend(s)
  BY <1>14 DEF OnNalSend, Remaining
<1>15. CASE PumpStop \/ PumpClear
  BY <1>15 DEF PumpStop, SourceStopped, PumpClear
<1>16. CASE Exited \/ UNCHANGED vars
  BY <1>16 DEF Exited, vars
<1> QED
  BY <1>1, <1>2, <1>3, <1>4, <1>5, <1>6, <1>7, <1>8, <1>9, <1>10,
     <1>11, <1>12, <1>13, <1>14, <1>15, <1>16
  DEF Next, EpollStep, PumpStep

\* The constructor establishes the type invariant and every part of HubInv.
LEMMA InitInv == Init => TypeOK /\ HubInv
<1> SUFFICES ASSUME Init PROVE TypeOK /\ HubInv
  OBVIOUS
<1>1. TypeOK
  <2>1. sps_ \in BOOLEAN /\ pps_ \in BOOLEAN
    BY DEF Init, PrescanResults
  <2>2. running_ \in BOOLEAN /\ joinable \in BOOLEAN
    BY Zenon DEF Init
  <2> QED
    BY <2>1, <2>2, HubAssumption
    DEF Init, TypeOK, PumpAlive, NalTypes, SubscribePCs, UnsubscribePCs, OtherPCs
<1>2. LockInv /\ ThreadInv /\ SourceInv
  BY DEF Init, LockInv, LockedPCs, ThreadInv, SourceInv, PumpAlive, PumpUsesSource
<1>3. HeldInv /\ OffInv /\ FanoutInv
  BY DEF Init, HeldInv, OffInv, FanoutInv, SubscribePCs
<1> QED
  BY <1>1, <1>2, <1>3 DEF HubInv

\* The inductive invariant holds in every reachable state of the hub.
THEOREM HubInvariant == Spec => [](TypeOK /\ HubInv)
<1>1. Init => TypeOK /\ HubInv
  BY InitInv
<1>2. (TypeOK /\ HubInv) /\ [Next]_vars => (TypeOK /\ HubInv)'
  <2> SUFFICES ASSUME TypeOK, HubInv, [Next]_vars
               PROVE  TypeOK' /\ HubInv'
    OBVIOUS
  <2> USE DEF HubInv
  <2>1. TypeOK'
    BY TypeStep
  <2>2. LockInv' /\ ThreadInv' /\ SourceInv'
    BY LockStep, ThreadStep, SourceStep
  <2>3. HeldInv' /\ OffInv' /\ FanoutInv'
    BY HeldStep, OffStep, FanoutStep
  <2> QED
    BY <2>1, <2>2, <2>3
<1> QED
  BY <1>1, <1>2, PTL DEF Spec

\* Hub state is well typed whatever the two threads do.
THEOREM TypeCorrect == Spec => []TypeOK
BY HubInvariant, PTL

\* The pump never uses a source that subscribe or ~Hub has replaced.
THEOREM SourceSafety == Spec => []SourceOwnedByPump
<1>1. TypeOK /\ HubInv => SourceOwnedByPump
  BY DEF HubInv, ThreadInv, SourceInv, SourceOwnedByPump
<1> QED
  BY <1>1, HubInvariant, PTL

\* Starting a pump or destroying the hub never finds a joinable handle.
THEOREM HandleSafety == Spec => []NoStdTerminate
<1>1. TypeOK /\ HubInv => NoStdTerminate
  BY DEF HubInv, ThreadInv, NoStdTerminate
<1> QED
  BY <1>1, HubInvariant, PTL

\* A thread that waits for the pump to end never keeps the mutex from it.
THEOREM JoinSafety == Spec => []JoinNeverBlocksPump
<1>1. TypeOK /\ HubInv => JoinNeverBlocksPump
  BY DEF HubInv, LockInv, LockedPCs, ThreadInv, JoinNeverBlocksPump, TypeOK, PumpAlive
<1> QED
  BY <1>1, HubInvariant, PTL

\* The two threads never access the subscriber list or the caches together.
THEOREM DataRaceFreedom == Spec => []NoDataRace
<1>1. TypeOK /\ HubInv => NoDataRace
  BY DEF HubInv, LockInv, LockedPCs, NoDataRace
<1> QED
  BY <1>1, HubInvariant, PTL

\* After unsubscribe has returned the pump does not touch the streamer.
THEOREM ReleaseSafety == Spec => []ReleasedStreamerUntouched
<1>1. TypeOK /\ HubInv => ReleasedStreamerUntouched
  BY DEF HubInv, HeldInv, FanoutInv, ReleasedStreamerUntouched
<1> QED
  BY <1>1, HubInvariant, PTL

\* A hub nobody watches has no pump thread and no open source.
THEOREM IdleSafety == Spec => []IdleHubIsOff
<1>1. TypeOK /\ HubInv => IdleHubIsOff
  BY DEF HubInv, ThreadInv, SourceInv, OffInv, IdleHubIsOff, PumpUsesSource
<1> QED
  BY <1>1, HubInvariant, PTL

\* Every step of the hub is a step of Broadcast or leaves its state alone.
LEMMA BroadcastStep ==
  TypeOK /\ HubInv /\ [Next]_vars => [B!Next]_(B!vars)
<1> SUFFICES ASSUME TypeOK, HubInv, [Next]_vars PROVE [B!Next]_(B!vars)
  OBVIOUS
<1> DEFINE received == [s \in Streamers |-> IF s \in todo THEN phase ELSE last[s]]
<1> USE DEF pumpVars, fanVars, hubVars, cacheVars, callerVars
<1>1. ASSUME UNCHANGED <<subscribers_, todo, phase, last>>
      PROVE  UNCHANGED B!vars
  BY <1>1 DEF B!vars
<1>2. CASE Calls
  BY <1>1, <1>2 DEF Calls, CallSubscribe, Passed, CallUnsubscribe, CallSprop, CallDestructor
<1>3. CASE SubscribeLock \/ SpropLock \/ SpropRead
  BY <1>1, <1>3 DEF SubscribeLock, MutexFree, SpropLock, SpropRead
<1>4. CASE UnsubscribeErase
  <2>1. arg \in subscribers_ /\ arg \in Streamers
    BY <1>4 DEF UnsubscribeErase, HubInv, HeldInv, TypeOK
  <2>2. B!Leave(arg)
    BY <1>4, <2>1 DEF UnsubscribeErase, B!Leave
  <2> QED
    BY <2>1, <2>2 DEF B!Next
<1>5. CASE SubscribeCheck \/ SubscribeJoin \/ SubscribeStartFails \/ SubscribeStarts
  BY <1>1, <1>5 DEF SubscribeCheck, Reap, SubscribeJoin, SubscribeStartFails, SubscribeStarts
<1>6. CASE SubscribePush
  <2>1. arg \in Streamers /\ arg \notin subscribers_ /\ arg \notin todo
    BY <1>6 DEF SubscribePush, HubInv, HeldInv, FanoutInv, SubscribePCs
  <2> PICK t \in Streamers : t = arg
    BY <2>1
  <2>2. received' = [received EXCEPT ![t] = phase]
    BY <1>6, <2>1 DEF SubscribePush, TypeOK
  <2>3. B!Join(t)
    BY <1>6, <2>1, <2>2 DEF SubscribePush, B!Join
  <2> QED
    BY <2>3 DEF B!Next
<1>7. CASE UnsubscribeOff \/ UnsubscribeKeep \/ UnsubscribeJoin
  BY <1>1, <1>7 DEF UnsubscribeOff, JoinWithout, UnsubscribeKeep, UnsubscribeJoin
<1>8. CASE DestructorOff \/ DestructorJoin
  BY <1>1, <1>8 DEF DestructorOff, DestructorJoin
<1>9. CASE PumpLoop \/ ReadDelivers \/ ReadReturns \/ OnNalUnlock
  BY <1>1, <1>9 DEF PumpLoop, LoopTest, ReadDelivers, ReadReturns, OnNalUnlock
<1>10. CASE OnNalLock
  <2>1. todo = {} /\ phase' = 1 - phase /\ last' = last /\ todo' = subscribers_
    BY <1>10 DEF OnNalLock, MutexFree, HubInv, FanoutInv
  <2>2. received' = [s \in Streamers |->
                       IF s \in subscribers_ THEN 1 - phase ELSE received[s]]
    BY <2>1
  <2>3. B!Distribute
    BY <1>10, <2>1, <2>2 DEF OnNalLock, MutexFree, B!Distribute
  <2> QED
    BY <2>3 DEF B!Next
<1>11. CASE \E s \in Streamers : OnNalSend(s)
  <2> PICK t \in Streamers : OnNalSend(t)
    BY <1>11
  <2>1. received' = received
    BY DEF OnNalSend, Remaining, TypeOK
  <2>2. UNCHANGED <<subscribers_, phase>>
    BY DEF OnNalSend, Remaining
  <2> QED
    BY <2>1, <2>2 DEF B!vars
<1>12. CASE PumpStop \/ PumpClear
  BY <1>1, <1>12 DEF PumpStop, SourceStopped, PumpClear
<1>13. CASE Exited \/ UNCHANGED vars
  BY <1>1, <1>13 DEF Exited, vars
<1> QED
  BY <1>2, <1>3, <1>4, <1>5, <1>6, <1>7, <1>8, <1>9, <1>10, <1>11, <1>12, <1>13
  DEF Next, EpollStep, EpollLock, PumpStep

\* The hub, with its threads and its lock, implements an atomic broadcast:
\* who is subscribed gets every NAL unit, who is not gets none.
THEOREM Refinement == Spec => ImplementsBroadcast
<1>1. Init => B!Init
  BY DEF Init, B!Init
<1>2. TypeOK /\ HubInv /\ [Next]_vars => [B!Next]_(B!vars)
  BY BroadcastStep
<1> QED
  BY <1>1, <1>2, HubInvariant, PTL DEF Spec, ImplementsBroadcast, B!Spec
==============================================================================
