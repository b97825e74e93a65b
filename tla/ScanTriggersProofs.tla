-------------------------- MODULE ScanTriggersProofs --------------------------
(***************************************************************************)
(* Proofs, for any number of requests, ticks and faults, of the safety     *)
(* properties of ScanTriggers.                                             *)
(***************************************************************************)
EXTENDS ScanTriggers, TLAPS

(* A goroutine is past Lock and not yet past Unlock exactly while the mutex  *)
(* is its own.                                                               *)
THEOREM TriggersTypeCorrect == Spec => []TypeOK
<1>1. Init => TypeOK
  <2> SUFFICES ASSUME Init PROVE TypeOK
    OBVIOUS
  <2>1. \A c \in Caller : pc[c] = "new" /\ scanMu # c
    BY CallerAssumption DEF Init
  <2> QED
    BY <2>1 DEF Init, TypeOK, Scanning
<1>2. TypeOK /\ [Next]_vars => TypeOK'
  <2> SUFFICES ASSUME TypeOK, [Next]_vars PROVE TypeOK'
    OBVIOUS
  <2> USE CallerAssumption DEF TypeOK, Scanning
  <2>1. ASSUME NEW c \in Caller, AdminScan(c) PROVE TypeOK'
    BY <2>1 DEF AdminScan
  <2>2. ASSUME NEW c \in Caller, RunTask(c) PROVE TypeOK'
    BY <2>2 DEF RunTask
  <2>3. ASSUME NEW c \in Caller, Lock(c) PROVE TypeOK'
    BY <2>3 DEF Lock
  <2>4. ASSUME NEW c \in Caller, ListLibraryPaths(c) PROVE TypeOK'
    BY <2>4 DEF ListLibraryPaths
  <2>5. ASSUME NEW c \in Caller, InsertScanEvent(c) PROVE TypeOK'
    BY <2>5 DEF InsertScanEvent
  <2>6. ASSUME NEW c \in Caller, Walk(c) PROVE TypeOK'
    BY <2>6 DEF Walk
  <2>7. ASSUME NEW c \in Caller, FinishScanEvent(c) PROVE TypeOK'
    BY <2>7 DEF FinishScanEvent
  <2>8. ASSUME NEW c \in Caller, Return(c) PROVE TypeOK'
    <3>1. running' \in BOOLEAN
      BY <2>8, Zenon DEF Return
    <3> QED
      BY <2>8, <3>1 DEF Return
  <2>9. ASSUME NEW c \in Caller, Cancel(c) PROVE TypeOK'
    BY <2>9, FaultAssumption DEF Cancel
  <2>10. ASSUME NEW c \in Caller, StatementError(c) PROVE TypeOK'
    BY <2>10, FaultAssumption DEF StatementError
  <2>11. CASE Crash
    <3>1. lost' \in [Caller -> BOOLEAN]
      BY <2>11, Zenon DEF Crash
    <3>2. pc' \in [Caller -> Scanning \cup {"new", "wait", "done", "dropped", "dead"}]
      BY <2>11 DEF Crash
    <3>3. \A c \in Caller : pc'[c] \notin Scanning /\ scanMu' # c
      BY <2>11 DEF Crash
    <3>4. /\ scanMu' = Nobody /\ running' = FALSE /\ faults' \in Nat
          /\ UNCHANGED <<event, cancelled>>
      BY <2>11 DEF Crash
    <3> QED
      BY <3>1, <3>2, <3>3, <3>4
  <2>12. CASE UNCHANGED vars
    BY <2>12 DEF vars
  <2> QED
    BY <2>1, <2>2, <2>3, <2>4, <2>5, <2>6, <2>7, <2>8, <2>9, <2>10, <2>11,
       <2>12 DEF Next, Step
<1> QED
  BY <1>1, <1>2, PTL DEF Spec

(* No two scans are under way at once, whoever triggered them.               *)
THEOREM ScansAreSerial == Spec => []OneScanAtATime
<1>1. TypeOK => OneScanAtATime
  BY DEF TypeOK, OneScanAtATime
<1> QED
  BY <1>1, TriggersTypeCorrect, PTL

-----------------------------------------------------------------------------
(* The scan_event rows *)

(* What EventSoFar speaks of. *)
eventVars(c) == <<pc[c], event[c], lost[c], cancelled[c]>>

(* A step of another caller leaves the event of c alone.                     *)
LEMMA EventFrame ==
    ASSUME NEW c \in Caller, EventSoFar(c), UNCHANGED eventVars(c)
    PROVE  EventSoFar(c)'
BY DEF EventSoFar, eventVars

(* Every step keeps the events in step with their callers.                   *)
LEMMA EventStep ==
    ASSUME TypeOK, EventsSoFar, [Next]_vars
    PROVE  EventsSoFar'
<1> SUFFICES ASSUME NEW e \in Caller PROVE EventSoFar(e)'
  BY DEF EventsSoFar
<1>0. EventSoFar(e)
  BY DEF EventsSoFar
<1>1. ASSUME NEW c \in Caller, c # e,
             \/ AdminScan(c) \/ RunTask(c) \/ Step(c) \/ Cancel(c)
             \/ StatementError(c)
      PROVE  EventSoFar(e)'
  <2>1. UNCHANGED eventVars(e)
    BY <1>1 DEF TypeOK, eventVars, AdminScan, RunTask, Step, Lock,
       ListLibraryPaths, InsertScanEvent, Walk, FinishScanEvent, Return, Cancel,
       StatementError
  <2> QED
    BY <1>0, <2>1, EventFrame
<1>2. CASE AdminScan(e) \/ RunTask(e) \/ Lock(e)
  BY <1>2 DEF TypeOK, EventSoFar, AdminScan, RunTask, Lock
<1>3. CASE ListLibraryPaths(e)
  BY <1>3 DEF TypeOK, EventSoFar, ListLibraryPaths
<1>4. CASE InsertScanEvent(e)
  BY <1>4 DEF TypeOK, EventSoFar, InsertScanEvent
<1>5. CASE Walk(e)
  BY <1>0, <1>5 DEF TypeOK, EventSoFar, Walk
<1>6. CASE FinishScanEvent(e)
  BY <1>0, <1>6 DEF TypeOK, EventSoFar, FinishScanEvent
<1>7. CASE Return(e)
  BY <1>0, <1>7 DEF TypeOK, EventSoFar, Return
<1>8. CASE Cancel(e) \/ StatementError(e)
  BY <1>8 DEF TypeOK, EventSoFar, Cancel, StatementError
<1>9. CASE Crash
  <2>1. CASE Active(e)
    BY <1>9, <2>1 DEF TypeOK, EventSoFar, Crash, Active
  <2>2. CASE ~Active(e)
    <3>1. /\ pc'[e] = pc[e] /\ event'[e] = event[e]
          /\ cancelled'[e] = cancelled[e] /\ (~lost'[e] => ~lost[e])
      BY <1>9, <2>2 DEF Crash, Active
    <3> QED
      BY <1>0, <3>1 DEF EventSoFar
  <2> QED
    BY <2>1, <2>2
<1>10. CASE UNCHANGED vars
  BY <1>0, <1>10, EventFrame DEF vars, eventVars
<1> QED
  BY <1>1, <1>2, <1>3, <1>4, <1>5, <1>6, <1>7, <1>8, <1>9, <1>10 DEF Next, Step

(* A scan that met no fault has finished its event when runScan returns,     *)
(* also when the walk failed.                                                *)
THEOREM EventsAreFinished == Spec => []EventsFinish
<1>1. Init => EventsSoFar
  BY DEF Init, EventsSoFar, EventSoFar
<1>2. TypeOK /\ EventsSoFar /\ [Next]_vars => EventsSoFar'
  BY EventStep
<1>3. EventsSoFar => EventsFinish
  BY DEF EventsSoFar, EventSoFar, EventsFinish
<1> QED
  BY <1>1, <1>2, <1>3, TriggersTypeCorrect, PTL DEF Spec

-----------------------------------------------------------------------------
(* The flag of the task *)

TickInv == OneTick /\ RunningIsTick

(* A step that moves no tick in or out of runScan leaves the flag right.     *)
LEMMA TickFrame ==
    ASSUME TickInv, running' = running,
           \A t \in Tick : Active(t)' <=> Active(t)
    PROVE  TickInv'
BY DEF TickInv, OneTick, RunningIsTick

(* Every step keeps the flag with the one tick that is under way.            *)
LEMMA TickStep ==
    ASSUME TypeOK, TickInv, [Next]_vars
    PROVE  TickInv'
<1>1. ASSUME NEW c \in Caller, AdminScan(c) PROVE TickInv'
  <2>1. \A t \in Tick : t # c
    BY <1>1, CallerAssumption DEF AdminScan
  <2> QED
    BY <1>1, <2>1, TickFrame DEF AdminScan, TypeOK, Active, Caller
<1>2. ASSUME NEW c \in Caller, RunTask(c) PROVE TickInv'
  <2>1. CASE running
    BY <1>2, <2>1, TickFrame DEF RunTask, TypeOK, Active, Scanning, Caller
  <2>2. CASE ~running
    <3>1. \A t \in Tick : Active(t)' <=> t = c
      BY <1>2, <2>2 DEF RunTask, TypeOK, TickInv, RunningIsTick, Active, Caller
    <3> QED
      BY <1>2, <3>1 DEF RunTask, TickInv, OneTick, RunningIsTick
  <2> QED
    BY <2>1, <2>2
<1>3. ASSUME NEW c \in Caller,
             \/ Lock(c) \/ ListLibraryPaths(c) \/ InsertScanEvent(c) \/ Walk(c)
             \/ FinishScanEvent(c) \/ Cancel(c) \/ StatementError(c)
      PROVE  TickInv'
  <2>1. running' = running /\ \A t \in Tick : Active(t)' <=> Active(t)
    BY <1>3 DEF TypeOK, Active, Scanning, Caller, Lock, ListLibraryPaths,
       InsertScanEvent, Walk, FinishScanEvent, Cancel, StatementError
  <2> QED
    BY <2>1, TickFrame
<1>4. ASSUME NEW c \in Caller, Return(c) PROVE TickInv'
  <2>1. CASE c \in Tick
    <3>1. Active(c) /\ ~Active(c)'
      BY <1>4 DEF Return, TypeOK, Active, Scanning
    <3>2. \A t \in Tick : t # c => (Active(t)' <=> Active(t))
      BY <1>4 DEF Return, TypeOK, Active, Caller
    <3>3. \A t \in Tick : ~Active(t)'
      BY <2>1, <3>1, <3>2 DEF TickInv, OneTick
    <3>4. ~running'
      BY <1>4, <2>1 DEF Return
    <3> QED
      BY <3>3, <3>4 DEF TickInv, OneTick, RunningIsTick
  <2>2. CASE c \notin Tick
    <3>1. running' = running
      BY <1>4, <2>2 DEF Return, TypeOK
    <3>2. \A t \in Tick : Active(t)' <=> Active(t)
      BY <1>4, <2>2 DEF Return, TypeOK, Active, Caller
    <3> QED
      BY <3>1, <3>2, TickFrame
  <2> QED
    BY <2>1, <2>2
<1>5. CASE Crash
  <2>1. \A t \in Tick : ~Active(t)'
    BY <1>5 DEF Crash, Active, Scanning, Caller
  <2> QED
    BY <1>5, <2>1 DEF Crash, TickInv, OneTick, RunningIsTick
<1>6. CASE UNCHANGED vars
  BY <1>6, TickFrame DEF vars, Active
<1> QED
  BY <1>1, <1>2, <1>3, <1>4, <1>5, <1>6 DEF Next, Step

(* The task has at most one run of its own under way.                        *)
THEOREM TicksAreSingle == Spec => []OneTick
<1>1. Init => TickInv
  BY DEF Init, TickInv, OneTick, RunningIsTick, Active, Scanning, Caller
<1>2. TypeOK /\ TickInv /\ [Next]_vars => TickInv'
  BY TickStep
<1>3. TickInv => OneTick
  BY DEF TickInv
<1> QED
  BY <1>1, <1>2, <1>3, TriggersTypeCorrect, PTL DEF Spec
=============================================================================
