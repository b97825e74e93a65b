----------------------------- MODULE ScanTriggers -----------------------------
(***************************************************************************)
(* Who scans when: admin requests and ticks of the library_scan task call  *)
(* the same runScan, which serializes them on scanMu and records each run  *)
(* in a scan_event row.  The walks themselves are in LibraryScan; here a   *)
(* walk takes a while and succeeds or fails.                               *)
(*                                                                         *)
(* A caller runs runScan under its own context.  That of a tick the host   *)
(* may cancel at any time: from then on every statement issued with it     *)
(* fails, the one that would finish the scan_event included.  Waiting for  *)
(* scanMu does not look at the context.  That of an admin request is never *)
(* cancelled: Handle drops the one of its call and makes a request of its  *)
(* own.                                                                    *)
(***************************************************************************)
EXTENDS Naturals

CONSTANTS
    Admin,      \* POST /admin/scan requests
    Tick,       \* Run requests of the library_scan task
    Nobody,     \* no caller
    MaxFaults   \* bound: cancellations, failed statements, crashes

Caller == Admin \cup Tick

ASSUME CallerAssumption == Admin \cap Tick = {} /\ Nobody \notin Caller
ASSUME FaultAssumption == MaxFaults \in Nat

VARIABLES
    pc,         \* where the goroutine of the caller is
    scanMu,     \* the caller holding the mutex
    running,    \* Tasks.running
    event,      \* event[c]: the scan_event row inserted by c
    cancelled,  \* the context of c is done
    faults,
    \* history, read by the properties only
    lost        \* a statement of c failed, or it died

vars == <<pc, scanMu, running, event, cancelled, faults, lost>>

Scanning == {"list", "insert", "walk", "finish", "fail", "unlock"}

TypeOK ==
    /\ pc \in [Caller -> Scanning \cup {"new", "wait", "done", "dropped", "dead"}]
    /\ scanMu \in Caller \cup {Nobody} /\ running \in BOOLEAN
    /\ \A c \in Caller : pc[c] \in Scanning <=> scanMu = c
    /\ event \in [Caller -> {"none", "open", "finished"}]
    /\ cancelled \in [Caller -> BOOLEAN] /\ faults \in Nat
    /\ lost \in [Caller -> BOOLEAN]

Init ==
    /\ pc = [c \in Caller |-> "new"]
    /\ scanMu = Nobody /\ running = FALSE
    /\ event = [c \in Caller |-> "none"]
    /\ cancelled = [c \in Caller |-> FALSE] /\ faults = 0
    /\ lost = [c \in Caller |-> FALSE]

-----------------------------------------------------------------------------
(* Arrivals *)

(* handleAdminScan calls Scan with the context of the request Handle made. *)
AdminScan(c) ==
    /\ c \in Admin /\ pc[c] = "new"
    /\ pc' = [pc EXCEPT ![c] = "wait"]
    /\ UNCHANGED <<scanMu, running, event, cancelled, faults, lost>>

(* Run: the compare-and-swap of running, or the trigger is dropped. *)
RunTask(c) ==
    /\ c \in Tick /\ pc[c] = "new"
    /\ pc' = [pc EXCEPT ![c] = IF running THEN "dropped" ELSE "wait"]
    /\ running' = TRUE
    /\ UNCHANGED <<scanMu, event, cancelled, faults, lost>>

-----------------------------------------------------------------------------
(* runScan *)

(* Mutant: no mutex. *)
Lock_None(c) ==
    /\ pc[c] = "wait"
    /\ scanMu' = c
    /\ pc' = [pc EXCEPT ![c] = "list"]
    /\ UNCHANGED <<running, event, cancelled, faults, lost>>

Lock(c) ==
    /\ pc[c] = "wait" /\ scanMu = Nobody
    /\ scanMu' = c
    /\ pc' = [pc EXCEPT ![c] = "list"]
    /\ UNCHANGED <<running, event, cancelled, faults, lost>>

(* ListLibraryPaths; its error ends the scan before there is an event. *)
ListLibraryPaths(c) ==
    /\ pc[c] = "list"
    /\ pc' = [pc EXCEPT ![c] = IF cancelled[c] THEN "unlock" ELSE "insert"]
    /\ UNCHANGED <<scanMu, running, event, cancelled, faults, lost>>

(* The error of InsertScanEvent is ignored: the scan goes on with id 0. *)
InsertScanEvent(c) ==
    /\ pc[c] = "insert"
    /\ pc' = [pc EXCEPT ![c] = "walk"]
    /\ event' = [event EXCEPT ![c] = IF cancelled[c] THEN "none" ELSE "open"]
    /\ UNCHANGED <<scanMu, running, cancelled, faults, lost>>

(* All walks end well; or one fails, as it does under a cancelled context.   *)
Walk(c) ==
    /\ pc[c] = "walk"
    /\ \/ ~cancelled[c] /\ pc' = [pc EXCEPT ![c] = "finish"]
       \/ pc' = [pc EXCEPT ![c] = "fail"]
    /\ UNCHANGED <<scanMu, running, event, cancelled, faults, lost>>

(* Mutant: an error return without FinishScanEvent. *)
FinishScanEvent_OnSuccess(c) ==
    /\ pc[c] \in {"finish", "fail"}
    /\ event' = [event EXCEPT ![c] =
                   IF @ = "open" /\ ~cancelled[c] /\ pc[c] = "finish"
                   THEN "finished" ELSE @]
    /\ pc' = [pc EXCEPT ![c] = "unlock"]
    /\ UNCHANGED <<scanMu, running, cancelled, faults, lost>>

(* With the counts, and with the error text of a failed walk: the context is *)
(* the caller's, and the statement's own error is ignored.                   *)
FinishScanEvent(c) ==
    /\ pc[c] \in {"finish", "fail"}
    /\ event' = [event EXCEPT ![c] =
                   IF @ = "open" /\ ~cancelled[c] THEN "finished" ELSE @]
    /\ pc' = [pc EXCEPT ![c] = "unlock"]
    /\ UNCHANGED <<scanMu, running, cancelled, faults, lost>>

(* Mutant: an early return does not clear running. *)
Return_KeepRunning(c) ==
    /\ pc[c] = "unlock"
    /\ pc' = [pc EXCEPT ![c] = "done"]
    /\ scanMu' = Nobody
    /\ running' = (running /\ (c \notin Tick \/ event[c] = "none"))
    /\ UNCHANGED <<event, cancelled, faults, lost>>

(* Mutant: an early return that does not unlock. *)
Return_NoUnlock(c) ==
    /\ pc[c] = "unlock"
    /\ pc' = [pc EXCEPT ![c] = "done"]
    /\ scanMu' = IF event[c] = "none" THEN scanMu ELSE Nobody
    /\ running' = (running /\ c \notin Tick)
    /\ UNCHANGED <<event, cancelled, faults, lost>>

(* After the inline drain and the eviction: the deferred Unlock, and for a   *)
(* tick the deferred running.Store(false).                                   *)
Return(c) ==
    /\ pc[c] = "unlock"
    /\ pc' = [pc EXCEPT ![c] = "done"]
    /\ scanMu' = Nobody
    /\ running' = (running /\ c \notin Tick)
    /\ UNCHANGED <<event, cancelled, faults, lost>>

-----------------------------------------------------------------------------
(* Faults *)

(* The host cancels the task. *)
Cancel(c) ==
    /\ c \in Tick
    /\ faults < MaxFaults /\ pc[c] \in Scanning \cup {"wait"} /\ ~cancelled[c]
    /\ faults' = faults + 1
    /\ cancelled' = [cancelled EXCEPT ![c] = TRUE]
    /\ UNCHANGED <<pc, scanMu, running, event, lost>>

(* ListLibraryPaths fails, or there is no store yet: runScan returns.        *)
(* InsertScanEvent or FinishScanEvent fails: both errors are ignored.        *)
StatementError(c) ==
    /\ faults < MaxFaults
    /\ faults' = faults + 1
    /\ \/ /\ pc[c] = "list"
          /\ pc' = [pc EXCEPT ![c] = "unlock"]
       \/ /\ pc[c] = "insert"
          /\ pc' = [pc EXCEPT ![c] = "walk"]
       \/ /\ pc[c] \in {"finish", "fail"}
          /\ pc' = [pc EXCEPT ![c] = "unlock"]
    /\ lost' = [lost EXCEPT ![c] = TRUE]
    /\ UNCHANGED <<scanMu, running, event, cancelled>>

(* The plugin process dies and is started again. *)
Crash ==
    LET active == {c \in Caller : pc[c] \in Scanning \cup {"wait"}}
    IN  /\ faults < MaxFaults
        /\ faults' = faults + 1
        /\ pc' = [c \in Caller |-> IF c \in active THEN "dead" ELSE pc[c]]
        /\ lost' = [c \in Caller |-> lost[c] \/ c \in active]
        /\ scanMu' = Nobody /\ running' = FALSE
        /\ UNCHANGED <<event, cancelled>>

-----------------------------------------------------------------------------

Step(c) ==
    \/ Lock(c) \/ ListLibraryPaths(c) \/ InsertScanEvent(c)
    \/ Walk(c) \/ FinishScanEvent(c) \/ Return(c)

Next ==
    \/ \E c \in Caller : AdminScan(c) \/ RunTask(c) \/ Step(c)
    \/ \E c \in Caller : Cancel(c) \/ StatementError(c)
    \/ Crash

Spec == Init /\ [][Next]_vars

(* A walk ends, a goroutine is scheduled, and the mutex starves nobody.      *)
FairSpec == Spec /\ \A c \in Caller : WF_vars(Step(c))

-----------------------------------------------------------------------------
(* Properties *)

(* Never two scans under way, whoever triggered them: at most one open       *)
(* scan_event belongs to a live scan (main.go: scanMu).                      *)
OneScanAtATime ==
    \A c, d \in Caller :
        event[c] = "open" /\ event[d] = "open"
          /\ pc[c] \in Scanning /\ pc[d] \in Scanning => c = d

(* Every scan_event is finished by the time runScan returned, with its error *)
(* if there was one, unless its context was cancelled or a statement failed. *)
EventsFinish ==
    \A c \in Caller :
        pc[c] = "done" /\ ~lost[c] /\ ~cancelled[c] => event[c] = "finished"

(* The task never has two runs of its own under way, the ones that wait for  *)
(* the mutex included, although scans of the operator come and go between    *)
(* (tasks.go: running).                                                      *)
Active(c) == pc[c] \in Scanning \cup {"wait"}
OneTick == \A s, t \in Tick : Active(s) /\ Active(t) => s = t

(* Every trigger that is not dropped is answered, and while one scan holds   *)
(* the mutex nobody waits for it forever.                                    *)
EveryTriggerAnswered ==
    \A c \in Caller : pc[c] = "wait" ~> pc[c] \in {"done", "dead"}

(* A tick that set running clears it again: the task is not dropped forever. *)
RunningClears == running ~> ~running

-----------------------------------------------------------------------------
(* Inductive strengthenings of the invariants above.                         *)

(* The flag is the tick's that is under way.                                 *)
RunningIsTick == running <=> \E t \in Tick : Active(t)

(* The scan_event of a caller that met no fault, by where the caller is.     *)
EventSoFar(c) ==
    ~lost[c] /\ ~cancelled[c] =>
        /\ pc[c] \in {"walk", "finish", "fail"} => event[c] = "open"
        /\ pc[c] \in {"unlock", "done"} => event[c] = "finished"
EventsSoFar == \A c \in Caller : EventSoFar(c)
=============================================================================
