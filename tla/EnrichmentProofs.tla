--------------------------- MODULE EnrichmentProofs ---------------------------
(***************************************************************************)
(* Proofs, for any set of books and any limits, of the safety properties   *)
(* of Enrichment.                                                          *)
(***************************************************************************)
EXTENDS Enrichment, TLAPS

(* A re-arm leaves the job columns and the history typed.                    *)
LEMMA ArmType ==
    ASSUME TypeOK, NEW S, Arm(S)
    PROVE  /\ status' \in [Book -> Status]
           /\ attempts' \in [Book -> Nat] /\ runAfter' \in [Book -> Int]
           /\ disturbed' \in [Book -> BOOLEAN] /\ faulted' \in [Book -> BOOLEAN]
           /\ owed' \in [Book -> BOOLEAN] /\ fails' \in [Book -> Nat]
<1>1. disturbed' \in [Book -> BOOLEAN] /\ owed' \in [Book -> BOOLEAN]
  BY Zenon DEF TypeOK, Arm, AtWork
<1>2. status' \in [Book -> Status] /\ faulted' \in [Book -> BOOLEAN]
  BY Zenon DEF TypeOK, Arm, Status
<1>3. attempts' \in [Book -> Nat] /\ runAfter' \in [Book -> Int]
      /\ fails' \in [Book -> Nat]
  BY DEF TypeOK, Arm
<1> QED
  BY <1>1, <1>2, <1>3

(* Type correctness of the queue, the rows and the drains' variables; a      *)
(* drain has a job exactly while it is at work.                              *)
THEOREM TypeCorrect == Spec => []TypeOK
<1>1. Init => TypeOK
  BY BookAssumption DEF Init, TypeOK, Status, WorkPc, Drain
<1>2. TypeOK /\ [Next]_vars => TypeOK'
  <2> SUFFICES ASSUME TypeOK, [Next]_vars PROVE TypeOK'
    OBVIOUS
  <2> USE BookAssumption DEF TypeOK, Status, WorkPc, rowVars, jobVars,
          drainVars, histVars
  <2>1. ASSUME NEW b \in Book, Upsert(b) PROVE TypeOK'
    <3>1. raced' \in [Book -> BOOLEAN]
      BY <2>1, Zenon DEF Upsert
    <3> QED
      BY <2>1, <3>1 DEF Upsert
  <2>2. ASSUME NEW b \in Book, Enqueue(b) PROVE TypeOK'
    BY <2>2, ArmType DEF Enqueue
  <2>3. ASSUME NEW b \in Book, EnqueueLost(b) PROVE TypeOK'
    BY <2>3 DEF EnqueueLost
  <2>4. ASSUME NEW b \in Book, SoftDelete(b) PROVE TypeOK'
    BY <2>4 DEF SoftDelete
  <2>5. CASE BulkEnqueueBackfill
    BY <2>5, ArmType DEF BulkEnqueueBackfill
  <2>6. ASSUME NEW S \in SUBSET Book, DeleteLibraryPath(S) PROVE TypeOK'
    <3>1. disturbed' \in [Book -> BOOLEAN] /\ owed' \in [Book -> BOOLEAN]
      BY <2>6, Zenon DEF DeleteLibraryPath, AtWork
    <3>2. status' \in [Book -> Status]
      BY <2>6, Zenon DEF DeleteLibraryPath
    <3>3. row' \in [Book -> {"absent", "live", "deleted"}]
      BY <2>6, Zenon DEF DeleteLibraryPath
    <3>4. attempts' \in [Book -> Nat] /\ runAfter' \in [Book -> Int]
      BY <2>6 DEF DeleteLibraryPath
    <3>5. /\ adminOps' \in Nat
          /\ UNCHANGED <<ver, tags, drainVars, scan, faults, faulted, raced, fails>>
      BY <2>6 DEF DeleteLibraryPath
    <3> QED
      BY <3>1, <3>2, <3>3, <3>4, <3>5
  <2>7. ASSUME NEW d \in Drain, StartDrain(d) PROVE TypeOK'
    BY <2>7 DEF StartDrain
  <2>8. ASSUME NEW d \in Drain, ClaimNext(d) PROVE TypeOK'
    <3> PICK b \in Book :
          /\ attempts' = [attempts EXCEPT ![b] = attempts[b] + 1]
          /\ runAfter' = [runAfter EXCEPT ![b] = Lease]
          /\ cur' = [cur EXCEPT ![d] = b]
          /\ curAttempts' = [curAttempts EXCEPT ![d] = attempts[b] + 1]
          /\ owed' = [owed EXCEPT ![b] = FALSE]
      BY <2>8 DEF ClaimNext
    <3> QED
      BY <2>8, LeaseAssumption DEF ClaimNext
  <2>9. ASSUME NEW d \in Drain, QueueEmpty(d) PROVE TypeOK'
    BY <2>9 DEF QueueEmpty
  <2>10. ASSUME NEW d \in Drain, Load(d) PROVE TypeOK'
    <3>1. cur[d] \in Book
      BY <2>10 DEF Load
    <3>2. CASE row[cur[d]] = "absent"
      BY <2>10, <3>2 DEF Load
    <3>3. CASE row[cur[d]] # "absent"
      <4>1. /\ pc' = [pc EXCEPT ![d] = "fetch"]
            /\ UNCHANGED <<rowVars, jobVars, cur, curAttempts, held, scan,
                           adminOps, faults, histVars>>
        BY <2>10, <3>3 DEF Load
      <4>2. loaded' \in [Drain -> Nat]
        <5>1. loaded' = [loaded EXCEPT ![d] = tags[cur[d]]]
          BY <2>10, <3>3, Zenon DEF Load
        <5>2. tags[cur[d]] \in Nat
          BY <3>1
        <5> QED
          BY <5>1, <5>2
      <4>3. pc' \in [Drain -> WorkPc \cup {"idle", "claim"}]
        BY <4>1
      <4>4. \A e \in Drain : pc'[e] \in WorkPc <=> cur'[e] \in Book
        BY <3>1, <4>1
      <4> QED
        BY <4>1, <4>2, <4>3, <4>4
    <3> QED
      BY <3>2, <3>3
  <2>11. ASSUME NEW d \in Drain, UpdateAudiobookMetadata(d) PROVE TypeOK'
    BY <2>11 DEF UpdateAudiobookMetadata
  <2>12. ASSUME NEW d \in Drain, Fetch(d) PROVE TypeOK'
    BY <2>12 DEF Fetch
  <2>13. ASSUME NEW d \in Drain, MarkCompleted(d) PROVE TypeOK'
    BY <2>13 DEF MarkCompleted, Leave
  <2>14. ASSUME NEW d \in Drain, MarkFailed(d) PROVE TypeOK'
    <3>1. ~(curAttempts[d] >= MaxAttempts) => Backoff(curAttempts[d]) \in Nat
      BY BackoffAssumption, AttemptsAssumption
    <3> QED
      BY <2>14, <3>1 DEF MarkFailed, Leave
  <2>15. ASSUME NEW d \in Drain, MarkLost(d) PROVE TypeOK'
    BY <2>15 DEF MarkLost, Leave
  <2>16. ASSUME NEW d \in Drain, Abandon(d) PROVE TypeOK'
    BY <2>16 DEF Abandon, Leave
  <2>17. ASSUME NEW d \in Drain, StopDrain(d) PROVE TypeOK'
    BY <2>17 DEF StopDrain
  <2>18. CASE Crash
    <3>1. faulted' \in [Book -> BOOLEAN]
      BY <2>18, Zenon DEF Crash, AtWork
    <3> QED
      BY <2>18, <3>1 DEF Crash
  <2>19. CASE Tick
    BY <2>19 DEF Tick
  <2>20. CASE UNCHANGED vars
    BY <2>20 DEF vars
  <2> QED
    BY <2>1, <2>2, <2>3, <2>4, <2>5, <2>6, <2>7, <2>8, <2>9, <2>10, <2>11,
       <2>12, <2>13, <2>14, <2>15, <2>16, <2>17, <2>18, <2>19, <2>20
       DEF Next, DrainStep
<1> QED
  BY <1>1, <1>2, PTL DEF Spec

-----------------------------------------------------------------------------
(* The lease *)

LeaseInv == LeaseHeld /\ SingleProcessor /\ OwedIsFree

(* What LeaseInv speaks of. *)
leaseVars == <<status, runAfter, cur, held, disturbed, owed>>

(* A step that leaves these variables alone keeps LeaseInv.                  *)
LEMMA LeaseFrame ==
    ASSUME LeaseInv, UNCHANGED leaseVars
    PROVE  LeaseInv'
BY DEF LeaseInv, LeaseHeld, SingleProcessor, OwedIsFree, AtWork, Working, leaseVars

(* A re-arm or a deletion of the jobs S notes which of them have a drain at  *)
(* work and frees the others.                                                *)
LEMMA LeaseRearm ==
    ASSUME TypeOK, LeaseInv, NEW S, UNCHANGED <<cur, held>>,
           \A b \in Book :
              IF b \in S
              THEN /\ disturbed'[b] = AtWork(b)
                   /\ owed'[b] => status'[b] = "pending"
              ELSE /\ status'[b] = status[b] /\ runAfter'[b] = runAfter[b]
                   /\ disturbed'[b] = disturbed[b] /\ owed'[b] = owed[b]
    PROVE  LeaseInv'
<1>1. ASSUME NEW b \in Book, b \in S, ~disturbed'[b]
      PROVE  \A d \in Drain : cur'[d] # b
  BY <1>1 DEF AtWork, Working
<1>2. LeaseHeld'
  <2>1. ASSUME NEW d \in Drain, NEW b \in Book, cur'[d] = b, ~disturbed'[b]
        PROVE  status'[b] = "pending" /\ runAfter'[b] = Lease - held'[d]
    <3>1. b \notin S
      BY <1>1, <2>1
    <3> QED
      BY <2>1, <3>1 DEF LeaseInv, LeaseHeld, Working
  <2> QED
    BY <2>1 DEF LeaseInv, LeaseHeld, Working
<1>3. SingleProcessor'
  BY <1>1 DEF LeaseInv, SingleProcessor, Working
<1>4. OwedIsFree'
  BY <1>1 DEF LeaseInv, OwedIsFree, AtWork, Working
<1> QED
  BY <1>2, <1>3, <1>4 DEF LeaseInv

(* So does the re-arm of Enqueue and of BulkEnqueueBackfill.                 *)
LEMMA LeaseArm ==
    ASSUME TypeOK, LeaseInv, NEW S, Arm(S), UNCHANGED <<cur, held>>
    PROVE  LeaseInv'
<1>1. \A b \in Book :
         IF b \in S
         THEN disturbed'[b] = AtWork(b) /\ (owed'[b] => status'[b] = "pending")
         ELSE /\ status'[b] = status[b] /\ runAfter'[b] = runAfter[b]
              /\ disturbed'[b] = disturbed[b] /\ owed'[b] = owed[b]
  BY Zenon DEF Arm
<1> QED
  BY <1>1, LeaseRearm

(* A drain that drops its job without touching the queue keeps LeaseInv.     *)
LEMMA LeaseDrop ==
    ASSUME TypeOK, LeaseInv, UNCHANGED <<status, runAfter, disturbed, owed>>,
           \A d \in Drain : \/ cur'[d] = cur[d] /\ held'[d] = held[d]
                            \/ cur'[d] = NoBook /\ held'[d] = 0
    PROVE  LeaseInv'
<1>1. \A d \in Drain, b \in Book : cur'[d] = b => cur[d] = b /\ held'[d] = held[d]
  BY BookAssumption
<1>2. LeaseHeld'
  BY <1>1, LeaseAssumption DEF LeaseInv, LeaseHeld, Working
<1>3. SingleProcessor'
  BY <1>1 DEF LeaseInv, SingleProcessor, Working
<1>4. OwedIsFree'
  BY <1>1 DEF LeaseInv, OwedIsFree, AtWork, Working
<1> QED
  BY <1>2, <1>3, <1>4 DEF LeaseInv

(* A drain that settles or reschedules its own job keeps LeaseInv: nobody    *)
(* else holds that job, and it is not owed a run.                            *)
LEMMA LeaseMark ==
    ASSUME TypeOK, LeaseInv, UNCHANGED <<disturbed, owed>>,
           NEW d \in Drain, cur[d] \in Book,
           cur' = [cur EXCEPT ![d] = NoBook], held' = [held EXCEPT ![d] = 0],
           \A b \in Book : b # cur[d] =>
               status'[b] = status[b] /\ runAfter'[b] = runAfter[b]
    PROVE  LeaseInv'
<1>1. \A e \in Drain, b \in Book :
          cur'[e] = b => e # d /\ cur[e] = b /\ held'[e] = held[e]
  BY BookAssumption DEF TypeOK
<1>2. LeaseHeld'
  <2>1. ASSUME NEW e \in Drain, NEW b \in Book, cur'[e] = b, ~disturbed'[b]
        PROVE  status'[b] = "pending" /\ runAfter'[b] = Lease - held'[e]
    <3>1. b # cur[d]
      BY <1>1, <2>1 DEF LeaseInv, SingleProcessor, Working
    <3> QED
      BY <1>1, <2>1, <3>1 DEF LeaseInv, LeaseHeld, Working
  <2>2. \A e \in Drain : held'[e] <= MaxProcess
    BY LeaseAssumption DEF TypeOK, LeaseInv, LeaseHeld
  <2> QED
    BY <2>1, <2>2 DEF LeaseHeld, Working
<1>3. SingleProcessor'
  BY <1>1 DEF LeaseInv, SingleProcessor, Working
<1>4. OwedIsFree'
  <2>1. ASSUME NEW b \in Book, owed'[b], ~disturbed'[b]
        PROVE  status'[b] = "pending" /\ ~(AtWork(b))'
    <3>1. b # cur[d]
      BY <2>1 DEF LeaseInv, OwedIsFree, AtWork, Working
    <3> QED
      BY <1>1, <2>1, <3>1 DEF LeaseInv, OwedIsFree, AtWork, Working
  <2> QED
    BY <2>1 DEF OwedIsFree
<1> QED
  BY <1>2, <1>3, <1>4 DEF LeaseInv

(* Claiming: a job that is due has run out of every lease on it, so no other *)
(* drain is at work on it.                                                   *)
LEMMA LeaseClaim ==
    ASSUME TypeOK, LeaseInv, NEW d \in Drain, ClaimNext(d)
    PROVE  LeaseInv'
<1> PICK b \in Book :
      /\ Front(b)
      /\ runAfter' = [runAfter EXCEPT ![b] = Lease]
      /\ cur' = [cur EXCEPT ![d] = b]
      /\ owed' = [owed EXCEPT ![b] = FALSE]
  BY DEF ClaimNext
<1>1. /\ held' = [held EXCEPT ![d] = 0]
      /\ UNCHANGED <<status, disturbed>>
      /\ status[b] = "pending" /\ runAfter[b] <= 0
  BY DEF ClaimNext, Front, Ready
<1>2. ~disturbed[b] => \A e \in Drain : cur[e] # b
  BY <1>1, LeaseAssumption DEF TypeOK, LeaseInv, LeaseHeld, Working
<1>3. LeaseHeld'
  <2>1. ASSUME NEW e \in Drain, NEW c \in Book, cur'[e] = c, ~disturbed'[c]
        PROVE  status'[c] = "pending" /\ runAfter'[c] = Lease - held'[e]
    <3>1. CASE e = d
      BY <1>1, <2>1, <3>1, LeaseAssumption DEF TypeOK
    <3>2. CASE e # d
      <4>1. cur[e] = c /\ ~disturbed[c] /\ c # b
        BY <1>1, <1>2, <2>1, <3>2 DEF TypeOK
      <4> QED
        BY <1>1, <3>2, <4>1 DEF TypeOK, LeaseInv, LeaseHeld, Working
    <3> QED
      BY <3>1, <3>2
  <2>2. \A e \in Drain : held'[e] <= MaxProcess
    BY <1>1, LeaseAssumption DEF TypeOK, LeaseInv, LeaseHeld
  <2> QED
    BY <2>1, <2>2 DEF LeaseHeld, Working
<1>4. SingleProcessor'
  BY <1>1, <1>2 DEF TypeOK, LeaseInv, SingleProcessor, Working
<1>5. OwedIsFree'
  <2>1. ASSUME NEW c \in Book, owed'[c], ~disturbed'[c]
        PROVE  status'[c] = "pending" /\ ~(AtWork(c))'
    <3>1. c # b /\ owed[c] /\ ~disturbed[c]
      BY <1>1, <2>1 DEF TypeOK
    <3> QED
      BY <1>1, <3>1 DEF TypeOK, LeaseInv, OwedIsFree, AtWork, Working
  <2> QED
    BY <2>1 DEF OwedIsFree
<1> QED
  BY <1>3, <1>4, <1>5 DEF LeaseInv

(* A minute: every lease in force shrinks as its drain ages.                 *)
LEMMA LeaseTick ==
    ASSUME TypeOK, LeaseInv, Tick
    PROVE  LeaseInv'
<1>1. UNCHANGED <<status, cur, disturbed, owed>>
  BY DEF Tick, histVars
<1>2. LeaseHeld'
  <2>1. ASSUME NEW e \in Drain, NEW c \in Book, cur[e] = c, ~disturbed[c]
        PROVE  status[c] = "pending" /\ runAfter'[c] = Lease - held'[e]
    <3>1. pc[e] \in WorkPc /\ held[e] < MaxProcess
      BY <2>1 DEF TypeOK, Tick
    <3>2. status[c] = "pending" /\ runAfter[c] = Lease - held[e]
      BY <2>1 DEF LeaseInv, LeaseHeld, Working
    <3>3. runAfter[c] > -MaxAge
      BY <3>1, <3>2, LeaseAssumption, BoundAssumption DEF TypeOK
    <3>4. runAfter'[c] = runAfter[c] - 1 /\ held'[e] = held[e] + 1
      BY <3>1, <3>2, <3>3 DEF Tick
    <3> QED
      BY <3>2, <3>4, LeaseAssumption DEF TypeOK
  <2>2. \A e \in Drain : held'[e] <= MaxProcess
    BY LeaseAssumption DEF TypeOK, LeaseInv, LeaseHeld, Tick
  <2> QED
    BY <1>1, <2>1, <2>2 DEF LeaseHeld, Working
<1>3. SingleProcessor' /\ OwedIsFree'
  BY <1>1 DEF LeaseInv, SingleProcessor, OwedIsFree, AtWork, Working
<1> QED
  BY <1>2, <1>3 DEF LeaseInv

(* Every step keeps LeaseInv. *)
LEMMA LeaseStep ==
    ASSUME TypeOK, LeaseInv, [Next]_vars
    PROVE  LeaseInv'
<1> USE DEF rowVars, jobVars, drainVars, histVars
<1>1. ASSUME NEW b \in Book, Upsert(b) \/ EnqueueLost(b) \/ SoftDelete(b)
      PROVE  LeaseInv'
  BY <1>1, LeaseFrame DEF Upsert, EnqueueLost, SoftDelete, leaseVars
<1>2. ASSUME NEW b \in Book, Enqueue(b) PROVE LeaseInv'
  <2>1. Arm({}) \/ Arm({b})
    BY <1>2 DEF Enqueue
  <2> QED
    BY <1>2, <2>1, LeaseArm DEF Enqueue
<1>3. CASE BulkEnqueueBackfill
  BY <1>3, LeaseArm DEF BulkEnqueueBackfill
<1>4. ASSUME NEW S \in SUBSET Book, DeleteLibraryPath(S) PROVE LeaseInv'
  <2>1. \A b \in Book :
           IF b \in S
           THEN disturbed'[b] = AtWork(b) /\ (owed'[b] => status'[b] = "pending")
           ELSE /\ status'[b] = status[b] /\ runAfter'[b] = runAfter[b]
                /\ disturbed'[b] = disturbed[b] /\ owed'[b] = owed[b]
    BY <1>4, Zenon DEF DeleteLibraryPath
  <2> QED
    BY <1>4, <2>1, LeaseRearm DEF DeleteLibraryPath
<1>5. ASSUME NEW d \in Drain,
             \/ StartDrain(d) \/ QueueEmpty(d) \/ Load(d)
             \/ UpdateAudiobookMetadata(d) \/ Fetch(d) \/ StopDrain(d)
      PROVE  LeaseInv'
  BY <1>5, LeaseFrame DEF StartDrain, QueueEmpty, Load,
     UpdateAudiobookMetadata, Fetch, StopDrain, leaseVars
<1>6. ASSUME NEW d \in Drain, ClaimNext(d) PROVE LeaseInv'
  BY <1>6, LeaseClaim
<1>7. ASSUME NEW d \in Drain, MarkCompleted(d) \/ MarkFailed(d) PROVE LeaseInv'
  <2>1. cur[d] \in Book
    BY <1>7 DEF TypeOK, WorkPc, MarkCompleted, MarkFailed
  <2>2. CASE MarkCompleted(d)
    BY <2>1, <2>2, LeaseMark DEF MarkCompleted, Leave
  <2>3. CASE MarkFailed(d)
    BY <2>1, <2>3, LeaseMark DEF MarkFailed, Leave
  <2> QED
    BY <1>7, <2>2, <2>3
<1>8. ASSUME NEW d \in Drain, MarkLost(d) \/ Abandon(d) PROVE LeaseInv'
  BY <1>8, LeaseDrop DEF MarkLost, Abandon, Leave, TypeOK
<1>9. CASE Crash
  BY <1>9, LeaseDrop DEF Crash
<1>10. CASE Tick
  BY <1>10, LeaseTick
<1>11. CASE UNCHANGED vars
  BY <1>11, LeaseFrame DEF vars, leaseVars
<1> QED
  BY <1>1, <1>2, <1>3, <1>4, <1>5, <1>6, <1>7, <1>8, <1>9, <1>10, <1>11
     DEF Next, DrainStep

(* LeaseInv is an invariant of the queue. *)
THEOREM LeaseInvariant == Spec => []LeaseInv
<1>1. Init => LeaseInv
  BY BookAssumption, LeaseAssumption
     DEF Init, LeaseInv, LeaseHeld, SingleProcessor, OwedIsFree, AtWork, Working
<1>2. TypeOK /\ LeaseInv /\ [Next]_vars => LeaseInv'
  BY LeaseStep
<1> QED
  BY <1>1, <1>2, TypeCorrect, PTL DEF Spec

(* The lease keeps two drains off one job (queue.go: ClaimNext), whatever    *)
(* the number of books, the limits and the faults.                           *)
THEOREM LeaseKeepsDrainsApart == Spec => []SingleProcessor
<1>1. LeaseInv => SingleProcessor
  BY DEF LeaseInv
<1> QED
  BY <1>1, LeaseInvariant, PTL

(* A re-arm stays in force until it is claimed.                              *)
THEOREM ReArmsStay == Spec => []NoLostReArm
<1>1. LeaseInv => NoLostReArm
  BY DEF LeaseInv, OwedIsFree, NoLostReArm
<1> QED
  BY <1>1, LeaseInvariant, PTL

(* A settled job is settled for good (queue.go: ClaimNext selects pending    *)
(* jobs only, and MarkCompleted and MarkFailed touch a claimed one only).    *)
THEOREM SettledStays == Spec => SettledIsFinal
<1> DEFINE Final(b) == status[b] \in {"completed", "failed"} /\ ~disturbed[b] =>
                           status'[b] \in {status[b], "none"} \/ owed'[b]
<1>1. ASSUME TypeOK, LeaseInv, Next, NEW b \in Book,
             status[b] \in {"completed", "failed"}, ~disturbed[b]
      PROVE  status'[b] \in {status[b], "none"} \/ owed'[b]
  <2> USE DEF rowVars, jobVars, drainVars, histVars
  <2>1. ASSUME NEW S, Arm(S) PROVE status'[b] = status[b] \/ owed'[b]
    BY <2>1, Zenon DEF Arm
  <2>2. ASSUME NEW c \in Book,
               Upsert(c) \/ Enqueue(c) \/ EnqueueLost(c) \/ SoftDelete(c)
        PROVE  status'[b] = status[b] \/ owed'[b]
    BY <2>1, <2>2 DEF Upsert, Enqueue, EnqueueLost, SoftDelete
  <2>3. CASE BulkEnqueueBackfill
    BY <2>1, <2>3 DEF BulkEnqueueBackfill
  <2>4. ASSUME NEW S, DeleteLibraryPath(S) PROVE status'[b] \in {status[b], "none"}
    BY <2>4 DEF DeleteLibraryPath
  <2>5. ASSUME NEW d \in Drain,
               MarkCompleted(d) \/ MarkFailed(d)
        PROVE  status'[b] = status[b]
    <3>1. cur[d] # b
      BY <1>1 DEF LeaseInv, LeaseHeld, Working
    <3> QED
      BY <2>5, <3>1 DEF MarkCompleted, MarkFailed
  <2>6. ASSUME NEW d \in Drain,
               \/ StartDrain(d) \/ ClaimNext(d) \/ QueueEmpty(d) \/ Load(d)
               \/ UpdateAudiobookMetadata(d) \/ Fetch(d)
               \/ MarkLost(d) \/ Abandon(d) \/ StopDrain(d)
        PROVE  status'[b] = status[b]
    BY <2>6 DEF StartDrain, ClaimNext, QueueEmpty, Load,
       UpdateAudiobookMetadata, Fetch, MarkLost, Abandon, StopDrain
  <2>7. CASE Crash \/ Tick
    BY <2>7 DEF Crash, Tick
  <2> QED
    BY <1>1, <2>2, <2>3, <2>4, <2>5, <2>6, <2>7 DEF Next, DrainStep
<1>2. TypeOK /\ LeaseInv /\ [Next]_vars => [\A b \in Book : Final(b)]_vars
  BY <1>1
<1> QED
  BY <1>2, TypeCorrect, LeaseInvariant, PTL DEF Spec, SettledIsFinal

-----------------------------------------------------------------------------
(* The tags of a row *)

TagsInv == TagsFollowIngest /\ FetchIsFresh

(* What TagsInv speaks of. *)
tagVars == <<row, ver, tags, raced>>

(* A step that leaves rows and ingests alone, and moves no drain into its    *)
(* fetch, keeps TagsInv.                                                     *)
LEMMA TagsFrame ==
    ASSUME TagsInv, UNCHANGED tagVars,
           \A d \in Drain : pc'[d] = "fetch" =>
               pc[d] = "fetch" /\ cur'[d] = cur[d] /\ loaded'[d] = loaded[d]
    PROVE  TagsInv'
BY DEF TagsInv, TagsFollowIngest, FetchIsFresh, Working, tagVars

(* Every step keeps TagsInv. *)
LEMMA TagsStep ==
    ASSUME TypeOK, TagsInv, [Next]_vars
    PROVE  TagsInv'
<1> USE DEF rowVars, jobVars, drainVars, histVars
<1>1. ASSUME NEW b \in Book, Upsert(b) PROVE TagsInv'
  <2>1. /\ row' = [row EXCEPT ![b] = "live"] /\ ver' = [ver EXCEPT ![b] = ver[b] + 1]
        /\ tags' = [tags EXCEPT ![b] = ver[b] + 1]
        /\ UNCHANGED <<pc, cur, loaded>>
    BY <1>1 DEF Upsert
  <2>2. \A c \in Book : c # b => raced'[c] = raced[c]
    BY <1>1, Zenon DEF Upsert, TypeOK
  <2>3. ~raced'[b] => \A d \in Drain : ~(pc[d] = "fetch" /\ cur[d] = b)
    BY <1>1 DEF Upsert, Working, TypeOK
  <2>4. TagsFollowIngest'
    BY <2>1, <2>2 DEF TypeOK, TagsInv, TagsFollowIngest
  <2>5. FetchIsFresh'
    BY <2>1, <2>2, <2>3 DEF TypeOK, TagsInv, FetchIsFresh, Working
  <2> QED
    BY <2>4, <2>5 DEF TagsInv
<1>2. ASSUME NEW b \in Book, Enqueue(b) \/ EnqueueLost(b) PROVE TagsInv'
  BY <1>2, TagsFrame DEF Enqueue, EnqueueLost, tagVars
<1>3. ASSUME NEW b \in Book, SoftDelete(b) PROVE TagsInv'
  BY <1>3 DEF SoftDelete, TypeOK, TagsInv, TagsFollowIngest, FetchIsFresh, Working
<1>4. CASE BulkEnqueueBackfill
  BY <1>4, TagsFrame DEF BulkEnqueueBackfill, tagVars
<1>5. ASSUME NEW S, DeleteLibraryPath(S) PROVE TagsInv'
  <2>1. /\ \A b \in Book : row'[b] # "absent" => row[b] # "absent"
        /\ UNCHANGED <<ver, tags, raced, pc, cur, loaded>>
    BY <1>5 DEF DeleteLibraryPath
  <2> QED
    BY <2>1 DEF TagsInv, TagsFollowIngest, FetchIsFresh, Working
<1>6. ASSUME NEW d \in Drain,
             StartDrain(d) \/ ClaimNext(d) \/ QueueEmpty(d) \/ StopDrain(d)
      PROVE  TagsInv'
  BY <1>6, TagsFrame DEF StartDrain, ClaimNext, QueueEmpty, StopDrain, tagVars, TypeOK
<1>7. ASSUME NEW d \in Drain, Load(d) PROVE TagsInv'
  <2>1. cur[d] \in Book /\ UNCHANGED <<row, ver, tags, raced, cur>>
    BY <1>7 DEF Load, TypeOK, WorkPc
  <2>2. CASE row[cur[d]] = "absent"
    BY <1>7, <2>2, TagsFrame DEF Load, TypeOK, tagVars
  <2>3. CASE row[cur[d]] # "absent"
    <3>1. /\ pc' = [pc EXCEPT ![d] = "fetch"]
          /\ loaded' = [loaded EXCEPT ![d] = tags[cur[d]]]
      BY <1>7, <2>3, Zenon DEF Load
    <3>2. ~raced[cur[d]] => tags[cur[d]] = ver[cur[d]]
      BY <2>1, <2>3 DEF TagsInv, TagsFollowIngest
    <3>3. FetchIsFresh'
      BY <2>1, <3>1, <3>2 DEF TypeOK, TagsInv, FetchIsFresh, Working
    <3> QED
      BY <2>1, <3>3 DEF TagsInv, TagsFollowIngest
  <2> QED
    BY <2>2, <2>3
<1>8. ASSUME NEW d \in Drain, UpdateAudiobookMetadata(d) PROVE TagsInv'
  <2>1. /\ pc[d] = "fetch" /\ cur[d] \in Book
        /\ pc' = [pc EXCEPT ![d] = "done"]
        /\ UNCHANGED <<row, ver, raced, cur, loaded>>
    BY <1>8 DEF UpdateAudiobookMetadata, TypeOK, WorkPc
  <2>2. \A b \in Book : tags'[b] = IF b = cur[d] /\ row[b] # "absent"
                                   THEN loaded[d] ELSE tags[b]
    BY <1>8 DEF UpdateAudiobookMetadata
  <2>3. ~raced[cur[d]] => loaded[d] = ver[cur[d]]
    BY <2>1 DEF TagsInv, FetchIsFresh, Working
  <2>4. TagsFollowIngest'
    BY <2>1, <2>2, <2>3 DEF TagsInv, TagsFollowIngest
  <2>5. FetchIsFresh'
    BY <2>1 DEF TypeOK, TagsInv, FetchIsFresh, Working
  <2> QED
    BY <2>4, <2>5 DEF TagsInv
<1>9. ASSUME NEW d \in Drain, Fetch(d) PROVE TagsInv'
  BY <1>9, TagsFrame DEF Fetch, tagVars, TypeOK
<1>10. ASSUME NEW d \in Drain,
              MarkCompleted(d) \/ MarkFailed(d) \/ MarkLost(d) \/ Abandon(d)
       PROVE  TagsInv'
  <2>1. /\ UNCHANGED <<row, ver, tags, raced>>
        /\ \E next \in {"claim", "idle"} : Leave(d, next)
    BY <1>10 DEF MarkCompleted, MarkFailed, MarkLost, Abandon
  <2> QED
    BY <2>1, TagsFrame DEF Leave, tagVars, TypeOK
<1>11. CASE Crash
  BY <1>11, TagsFrame DEF Crash, tagVars
<1>12. CASE Tick
  BY <1>12, TagsFrame DEF Tick, tagVars
<1>13. CASE UNCHANGED vars
  BY <1>13, TagsFrame DEF vars, tagVars
<1> QED
  BY <1>1, <1>2, <1>3, <1>4, <1>5, <1>6, <1>7, <1>8, <1>9, <1>10, <1>11,
     <1>12, <1>13 DEF Next, DrainStep

(* Without an ingest inside a drain's load-to-write window, a row shows what *)
(* was last ingested.                                                        *)
THEOREM TagsStayFresh == Spec => []TagsFollowIngest
<1>1. Init => TagsInv
  BY BookAssumption DEF Init, TagsInv, TagsFollowIngest, FetchIsFresh, Working
<1>2. TypeOK /\ TagsInv /\ [Next]_vars => TagsInv'
  BY TagsStep
<1>3. TagsInv => TagsFollowIngest
  BY DEF TagsInv
<1> QED
  BY <1>1, <1>2, <1>3, TypeCorrect, PTL DEF Spec

-----------------------------------------------------------------------------
(* The retry budget *)

BudgetInv == \A b \in Book : BudgetOf(b)

(* A step that leaves the job and the drains at work on it alone keeps its   *)
(* budget.                                                                   *)
LEMMA BudgetFrame ==
    ASSUME NEW b \in Book, BudgetOf(b),
           status'[b] = status[b], attempts'[b] = attempts[b],
           fails'[b] = fails[b], disturbed'[b] = disturbed[b],
           ~faulted'[b] => ~faulted[b],
           ~faulted'[b] => \A d \in Drain :
               /\ cur'[d] = b <=> cur[d] = b
               /\ cur'[d] = b => curAttempts'[d] = curAttempts[d]
    PROVE  BudgetOf(b)'
BY DEF BudgetOf, AtWork, Working

(* A re-arm starts a new budget; a deletion ends it. *)
LEMMA BudgetRearm ==
    ASSUME TypeOK, NEW b \in Book, UNCHANGED cur, disturbed'[b] = AtWork(b),
           \/ status'[b] = "none"
           \/ status'[b] = "pending" /\ attempts'[b] = 0 /\ fails'[b] = 0
    PROVE  BudgetOf(b)'
<1>1. ~disturbed'[b] => \A d \in Drain : cur'[d] # b
  BY DEF AtWork, Working
<1> QED
  BY <1>1, AttemptsAssumption DEF BudgetOf, AtWork, Working

(* So does the re-arm of Enqueue and of BulkEnqueueBackfill.                 *)
LEMMA BudgetArm ==
    ASSUME TypeOK, BudgetInv, NEW S, Arm(S), UNCHANGED <<cur, curAttempts>>
    PROVE  BudgetInv'
<1> SUFFICES ASSUME NEW b \in Book PROVE BudgetOf(b)'
  BY DEF BudgetInv
<1>1. CASE b \in S
  <2>1. /\ disturbed'[b] = AtWork(b)
        /\ status'[b] = "pending" /\ attempts'[b] = 0 /\ fails'[b] = 0
    BY <1>1, Zenon DEF Arm
  <2> QED
    BY <2>1, BudgetRearm
<1>2. CASE b \notin S
  <2>1. /\ status'[b] = status[b] /\ attempts'[b] = attempts[b]
        /\ fails'[b] = fails[b] /\ disturbed'[b] = disturbed[b]
        /\ faulted'[b] = faulted[b]
    BY <1>2, Zenon DEF Arm
  <2> QED
    BY <2>1, BudgetFrame DEF BudgetInv
<1> QED
  BY <1>1, <1>2

(* A drain that settles or reschedules its job moves that job's budget only. *)
LEMMA BudgetMark ==
    ASSUME TypeOK, LeaseInv, BudgetInv, NEW d \in Drain,
           MarkCompleted(d) \/ MarkFailed(d)
    PROVE  BudgetInv'
<1> SUFFICES ASSUME NEW b \in Book PROVE BudgetOf(b)'
  BY DEF BudgetInv
<1> USE DEF rowVars, jobVars, drainVars, histVars
<1>1. /\ cur[d] \in Book
      /\ cur' = [cur EXCEPT ![d] = NoBook]
      /\ curAttempts' = [curAttempts EXCEPT ![d] = 0]
      /\ UNCHANGED <<attempts, disturbed, faulted>>
  BY DEF MarkCompleted, MarkFailed, Leave, TypeOK, WorkPc
<1>2. CASE b # cur[d]
  <2>1. status'[b] = status[b] /\ fails'[b] = fails[b]
    BY <1>2 DEF MarkCompleted, MarkFailed
  <2>2. \A e \in Drain : /\ cur'[e] = b <=> cur[e] = b
                         /\ cur'[e] = b => curAttempts'[e] = curAttempts[e]
    BY <1>1, <1>2, BookAssumption DEF TypeOK
  <2> QED
    BY <1>1, <2>1, <2>2, BudgetFrame DEF BudgetInv
<1>3. CASE b = cur[d]
  <2> SUFFICES ASSUME ~disturbed[b], ~faulted[b] PROVE BudgetOf(b)'
    BY <1>1 DEF BudgetOf
  <2>1. \A e \in Drain : cur'[e] # b
    BY <1>1, <1>3, BookAssumption DEF TypeOK, LeaseInv, SingleProcessor, Working
  <2>2. /\ status[b] = "pending"
        /\ curAttempts[d] = fails[b] + 1 /\ attempts[b] = fails[b] + 1
        /\ fails[b] < MaxAttempts
    BY <1>3 DEF LeaseInv, LeaseHeld, BudgetInv, BudgetOf, Working
  <2>3. CASE MarkCompleted(d)
    <3>1. status'[b] = "completed"
      BY <1>3, <2>2, <2>3 DEF MarkCompleted
    <3> QED
      BY <2>1, <3>1 DEF BudgetOf, Working
  <2>4. CASE MarkFailed(d)
    <3>1. /\ fails'[b] = fails[b] + 1
          /\ status'[b] = IF curAttempts[d] >= MaxAttempts THEN "failed" ELSE "pending"
      BY <1>3, <2>2, <2>4 DEF MarkFailed
    <3>2. CASE curAttempts[d] >= MaxAttempts
      BY <2>1, <2>2, <3>1, <3>2, AttemptsAssumption DEF BudgetOf, Working, TypeOK
    <3>3. CASE ~(curAttempts[d] >= MaxAttempts)
      BY <1>1, <2>1, <2>2, <3>1, <3>3, AttemptsAssumption
         DEF BudgetOf, Working, TypeOK
    <3> QED
      BY <3>2, <3>3
  <2> QED
    BY <2>3, <2>4
<1> QED
  BY <1>2, <1>3

(* Claiming counts one attempt ahead of the failures. *)
LEMMA BudgetClaim ==
    ASSUME TypeOK, LeaseInv, BudgetInv, NEW d \in Drain, ClaimNext(d)
    PROVE  BudgetInv'
<1> PICK b \in Book :
      /\ Front(b)
      /\ attempts' = [attempts EXCEPT ![b] = attempts[b] + 1]
      /\ cur' = [cur EXCEPT ![d] = b]
      /\ curAttempts' = [curAttempts EXCEPT ![d] = attempts[b] + 1]
  BY DEF ClaimNext
<1>1. /\ UNCHANGED <<status, disturbed, faulted, fails>>
      /\ status[b] = "pending" /\ runAfter[b] <= 0
      /\ cur[d] \notin Book
  BY DEF ClaimNext, Front, Ready, TypeOK, WorkPc
<1>2. ~disturbed[b] => \A e \in Drain : cur[e] # b
  BY <1>1, LeaseAssumption DEF TypeOK, LeaseInv, LeaseHeld, Working
<1> SUFFICES ASSUME NEW c \in Book PROVE BudgetOf(c)'
  BY DEF BudgetInv
<1>3. CASE c # b
  BY <1>1, <1>3, BudgetFrame DEF TypeOK, BudgetInv
<1>4. CASE c = b
  <2> SUFFICES ASSUME ~disturbed[b], ~faulted[b] PROVE BudgetOf(b)'
    BY <1>1, <1>4 DEF BudgetOf
  <2>1. attempts[b] = fails[b] /\ fails[b] < MaxAttempts
    BY <1>1, <1>2 DEF BudgetInv, BudgetOf, AtWork, Working
  <2>2. \A e \in Drain : cur'[e] = b => e = d
    BY <1>2 DEF TypeOK
  <2>3. (AtWork(b))'
    BY DEF AtWork, Working, TypeOK
  <2> QED
    BY <1>1, <2>1, <2>2, <2>3 DEF BudgetOf, Working, TypeOK
<1> QED
  BY <1>3, <1>4

(* Every step keeps BudgetInv. *)
LEMMA BudgetStep ==
    ASSUME TypeOK, LeaseInv, BudgetInv, [Next]_vars
    PROVE  BudgetInv'
<1> USE DEF rowVars, jobVars, drainVars, histVars
<1>1. ASSUME UNCHANGED <<status, attempts, fails, disturbed, faulted, cur, curAttempts>>
      PROVE  BudgetInv'
  BY <1>1, BudgetFrame DEF BudgetInv
<1>2. ASSUME NEW b \in Book, Upsert(b) \/ EnqueueLost(b) \/ SoftDelete(b)
      PROVE  BudgetInv'
  BY <1>1, <1>2 DEF Upsert, EnqueueLost, SoftDelete
<1>3. ASSUME NEW b \in Book, Enqueue(b) PROVE BudgetInv'
  <2>1. Arm({}) \/ Arm({b})
    BY <1>3 DEF Enqueue
  <2> QED
    BY <1>3, <2>1, BudgetArm DEF Enqueue
<1>4. CASE BulkEnqueueBackfill
  BY <1>4, BudgetArm DEF BulkEnqueueBackfill
<1>5. ASSUME NEW S, DeleteLibraryPath(S) PROVE BudgetInv'
  <2> SUFFICES ASSUME NEW b \in Book PROVE BudgetOf(b)'
    BY DEF BudgetInv
  <2>1. UNCHANGED <<cur, curAttempts, fails, faulted>>
    BY <1>5 DEF DeleteLibraryPath
  <2>2. CASE b \in S
    <3>1. status'[b] = "none" /\ disturbed'[b] = AtWork(b)
      BY <1>5, <2>2, Zenon DEF DeleteLibraryPath
    <3> QED
      BY <2>1, <3>1, BudgetRearm
  <2>3. CASE b \notin S
    <3>1. /\ status'[b] = status[b] /\ disturbed'[b] = disturbed[b]
          /\ attempts'[b] = attempts[b]
      BY <1>5, <2>3, Zenon DEF DeleteLibraryPath
    <3> QED
      BY <2>1, <3>1, BudgetFrame DEF BudgetInv
  <2> QED
    BY <2>2, <2>3
<1>6. ASSUME NEW d \in Drain,
             \/ StartDrain(d) \/ QueueEmpty(d) \/ Load(d)
             \/ UpdateAudiobookMetadata(d) \/ Fetch(d) \/ StopDrain(d)
      PROVE  BudgetInv'
  BY <1>1, <1>6 DEF StartDrain, QueueEmpty, Load, UpdateAudiobookMetadata,
     Fetch, StopDrain
<1>7. ASSUME NEW d \in Drain, ClaimNext(d) PROVE BudgetInv'
  BY <1>7, BudgetClaim
<1>8. ASSUME NEW d \in Drain, MarkCompleted(d) \/ MarkFailed(d) PROVE BudgetInv'
  BY <1>8, BudgetMark
<1>9. ASSUME NEW d \in Drain, MarkLost(d) \/ Abandon(d) PROVE BudgetInv'
  <2> SUFFICES ASSUME NEW b \in Book PROVE BudgetOf(b)'
    BY DEF BudgetInv
  <2>1. /\ cur[d] \in Book
        /\ cur' = [cur EXCEPT ![d] = NoBook]
        /\ curAttempts' = [curAttempts EXCEPT ![d] = 0]
        /\ faulted' = [faulted EXCEPT ![cur[d]] = TRUE]
        /\ UNCHANGED <<status, attempts, fails, disturbed>>
    BY <1>9 DEF MarkLost, Abandon, Leave, TypeOK, WorkPc
  <2>2. CASE b = cur[d]
    BY <2>1, <2>2 DEF TypeOK, BudgetOf
  <2>3. CASE b # cur[d]
    BY <2>1, <2>3, BudgetFrame, BookAssumption DEF TypeOK, BudgetInv
  <2> QED
    BY <2>2, <2>3
<1>10. CASE Crash
  <2> SUFFICES ASSUME NEW b \in Book, ~faulted'[b] PROVE BudgetOf(b)'
    BY DEF BudgetInv, BudgetOf
  <2>1. ~faulted[b] /\ \A d \in Drain : cur[d] # b
    BY <1>10 DEF Crash, AtWork, Working
  <2>2. /\ UNCHANGED <<status, attempts, fails, disturbed>>
        /\ \A d \in Drain : cur'[d] = NoBook
    BY <1>10 DEF Crash
  <2> QED
    BY <2>1, <2>2, BudgetFrame, BookAssumption DEF BudgetInv
<1>11. CASE Tick
  BY <1>1, <1>11 DEF Tick
<1>12. CASE UNCHANGED vars
  BY <1>1, <1>12 DEF vars
<1> QED
  BY <1>2, <1>3, <1>4, <1>5, <1>6, <1>7, <1>8, <1>9, <1>10, <1>11, <1>12
     DEF Next, DrainStep

LEMMA BudgetInvariant == Spec => []BudgetInv
<1>1. Init => BudgetInv
  BY BookAssumption DEF Init, BudgetInv, BudgetOf, AtWork, Working
<1>2. TypeOK /\ LeaseInv /\ BudgetInv /\ [Next]_vars => BudgetInv'
  BY BudgetStep
<1> QED
  BY <1>1, <1>2, TypeCorrect, LeaseInvariant, PTL DEF Spec

(* Five failures, no more and no less, for every job no drain lost and no    *)
(* re-arm met under a drain.                                                 *)
THEOREM RetryBudgetKept == Spec => []RetryBudget
<1>1. BudgetInv => RetryBudget
  BY DEF BudgetInv, BudgetOf, RetryBudget
<1> QED
  BY <1>1, BudgetInvariant, PTL

-----------------------------------------------------------------------------
(* Attempts and failures *)

CoverOf(b) ==
    ~disturbed[b] /\ status[b] = "pending" =>
        /\ fails[b] <= attempts[b]
        /\ \A d \in Drain : cur[d] = b =>
              fails[b] < curAttempts[d] /\ curAttempts[d] <= attempts[b]

(* A job left alone, whatever drains drop it, keeps its part.                *)
LEMMA CoverFrame ==
    ASSUME NEW b \in Book, CoverOf(b),
           status'[b] = status[b], attempts'[b] = attempts[b],
           fails'[b] = fails[b], disturbed'[b] = disturbed[b],
           \A d \in Drain : cur'[d] = b => cur[d] = b /\ curAttempts'[d] = curAttempts[d]
    PROVE  CoverOf(b)'
BY DEF CoverOf

(* A job that starts over has no failures, and no drain unless disturbed.    *)
LEMMA CoverReset ==
    ASSUME TypeOK', NEW b \in Book, disturbed'[b] = AtWork(b), UNCHANGED cur,
           fails'[b] = 0 \/ status'[b] # "pending"
    PROVE  CoverOf(b)'
<1>1. ~disturbed'[b] => \A d \in Drain : cur'[d] # b
  BY DEF AtWork, Working
<1>2. attempts'[b] \in Nat
  BY DEF TypeOK
<1> QED
  BY <1>1, <1>2 DEF CoverOf

LEMMA CoverArm ==
    ASSUME TypeOK', AttemptsCover, NEW S, Arm(S), UNCHANGED <<cur, curAttempts>>
    PROVE  \A b \in Book : CoverOf(b)'
<1> SUFFICES ASSUME NEW b \in Book PROVE CoverOf(b)'
  OBVIOUS
<1>1. CASE b \in S
  <2>1. fails'[b] = 0 /\ disturbed'[b] = AtWork(b)
    BY <1>1, Zenon DEF Arm
  <2> QED
    BY <2>1, CoverReset
<1>2. CASE b \notin S
  <2>1. /\ status'[b] = status[b] /\ attempts'[b] = attempts[b]
        /\ fails'[b] = fails[b] /\ disturbed'[b] = disturbed[b]
    BY <1>2, Zenon DEF Arm
  <2> QED
    BY <2>1, CoverFrame DEF AttemptsCover, CoverOf, Working
<1> QED
  BY <1>1, <1>2

(* Every step keeps the failures within the attempts.                        *)
LEMMA CoverStep ==
    ASSUME TypeOK, TypeOK', LeaseInv, AttemptsCover, [Next]_vars
    PROVE  AttemptsCover'
<1> USE DEF rowVars, jobVars, drainVars, histVars
<1> SUFFICES \A b \in Book : CoverOf(b)'
  BY DEF AttemptsCover, CoverOf, Working
<1>a. \A b \in Book : CoverOf(b)
  BY DEF AttemptsCover, CoverOf, Working
<1>1. ASSUME UNCHANGED <<status, attempts, fails, disturbed, cur, curAttempts>>
      PROVE  \A b \in Book : CoverOf(b)'
  BY <1>a, <1>1, CoverFrame
<1>2. CASE \/ \E b \in Book : Upsert(b) \/ EnqueueLost(b) \/ SoftDelete(b)
           \/ \E d \in Drain : \/ StartDrain(d) \/ QueueEmpty(d) \/ Load(d)
                               \/ UpdateAudiobookMetadata(d) \/ Fetch(d) \/ StopDrain(d)
           \/ Tick \/ UNCHANGED vars
  <2>1. UNCHANGED <<status, attempts, fails, disturbed, cur, curAttempts>>
    BY <1>2 DEF Upsert, EnqueueLost, SoftDelete, StartDrain, QueueEmpty, Load,
       UpdateAudiobookMetadata, Fetch, StopDrain, Tick, vars
  <2> QED
    BY <1>1, <2>1
<1>3. ASSUME NEW b \in Book, Enqueue(b) PROVE \A c \in Book : CoverOf(c)'
  <2>1. Arm({}) \/ Arm({b})
    BY <1>3 DEF Enqueue
  <2> QED
    BY <1>3, <2>1, CoverArm DEF Enqueue
<1>4. CASE BulkEnqueueBackfill
  BY <1>4, CoverArm DEF BulkEnqueueBackfill
<1>5. ASSUME NEW S, DeleteLibraryPath(S), NEW b \in Book PROVE CoverOf(b)'
  <2>1. UNCHANGED <<cur, curAttempts, fails>>
    BY <1>5 DEF DeleteLibraryPath
  <2>2. CASE b \in S
    <3>1. status'[b] = "none" /\ disturbed'[b] = AtWork(b)
      BY <1>5, <2>2, Zenon DEF DeleteLibraryPath
    <3> QED
      BY <2>1, <3>1, CoverReset
  <2>3. CASE b \notin S
    <3>1. /\ status'[b] = status[b] /\ disturbed'[b] = disturbed[b]
          /\ attempts'[b] = attempts[b]
      BY <1>5, <2>3, Zenon DEF DeleteLibraryPath
    <3> QED
      BY <1>a, <2>1, <3>1, CoverFrame
  <2> QED
    BY <2>2, <2>3
<1>6. ASSUME NEW d \in Drain, ClaimNext(d), NEW c \in Book PROVE CoverOf(c)'
  <2> PICK b \in Book :
        /\ Front(b)
        /\ attempts' = [attempts EXCEPT ![b] = attempts[b] + 1]
        /\ cur' = [cur EXCEPT ![d] = b]
        /\ curAttempts' = [curAttempts EXCEPT ![d] = attempts[b] + 1]
    BY <1>6 DEF ClaimNext
  <2>1. UNCHANGED <<status, disturbed, fails>> /\ status[b] = "pending" /\ runAfter[b] <= 0
    BY <1>6 DEF ClaimNext, Front, Ready
  <2>2. ~disturbed[b] => \A e \in Drain : cur[e] # b
    BY <2>1, LeaseAssumption DEF TypeOK, LeaseInv, LeaseHeld, Working
  <2>3. CASE c # b
    BY <1>a, <2>1, <2>3, CoverFrame DEF TypeOK
  <2>4. CASE c = b
    BY <1>a, <2>1, <2>2, <2>4 DEF CoverOf, TypeOK
  <2> QED
    BY <2>3, <2>4
<1>7. ASSUME NEW d \in Drain, MarkCompleted(d) \/ MarkFailed(d), NEW b \in Book
      PROVE  CoverOf(b)'
  <2>1. /\ cur[d] \in Book /\ cur' = [cur EXCEPT ![d] = NoBook]
        /\ curAttempts' = [curAttempts EXCEPT ![d] = 0]
        /\ UNCHANGED <<attempts, disturbed>>
    BY <1>7 DEF MarkCompleted, MarkFailed, Leave, TypeOK, WorkPc
  <2>2. \A e \in Drain : cur'[e] = b =>
            e # d /\ cur[e] = b /\ curAttempts'[e] = curAttempts[e]
    BY <2>1, BookAssumption DEF TypeOK
  <2>3. CASE b # cur[d]
    <3>1. status'[b] = status[b] /\ fails'[b] = fails[b]
      BY <1>7, <2>3 DEF MarkCompleted, MarkFailed
    <3> QED
      BY <1>a, <2>1, <2>2, <3>1, CoverFrame
  <2>4. CASE b = cur[d]
    <3> SUFFICES ASSUME ~disturbed[b], status'[b] = "pending" PROVE CoverOf(b)'
      BY <2>1 DEF CoverOf
    <3>1. status[b] = "pending" /\ \A e \in Drain : cur'[e] # b
      BY <2>2, <2>4 DEF LeaseInv, LeaseHeld, SingleProcessor, Working
    <3>2. fails'[b] \in {fails[b], fails[b] + 1}
      BY <1>7 DEF MarkCompleted, MarkFailed
    <3>3. fails[b] < curAttempts[d] /\ curAttempts[d] <= attempts[b]
      BY <1>a, <2>4, <3>1 DEF CoverOf
    <3> QED
      BY <2>1, <3>1, <3>2, <3>3 DEF CoverOf, TypeOK
  <2> QED
    BY <2>3, <2>4
<1>8. ASSUME NEW d \in Drain, MarkLost(d) \/ Abandon(d), NEW b \in Book PROVE CoverOf(b)'
  <2>1. /\ cur' = [cur EXCEPT ![d] = NoBook]
        /\ curAttempts' = [curAttempts EXCEPT ![d] = 0]
        /\ UNCHANGED <<status, attempts, fails, disturbed>>
    BY <1>8 DEF MarkLost, Abandon, Leave
  <2>2. \A e \in Drain : cur'[e] = b => cur[e] = b /\ curAttempts'[e] = curAttempts[e]
    BY <2>1, BookAssumption DEF TypeOK
  <2> QED
    BY <1>a, <2>1, <2>2, CoverFrame
<1>9. ASSUME Crash, NEW b \in Book PROVE CoverOf(b)'
  <2>1. UNCHANGED <<status, attempts, fails, disturbed>> /\ \A d \in Drain : cur'[d] # b
    BY <1>9, BookAssumption DEF Crash
  <2> QED
    BY <1>a, <2>1, CoverFrame
<1> QED
  BY <1>2, <1>3, <1>4, <1>5, <1>6, <1>7, <1>8, <1>9 DEF Next, DrainStep

LEMMA CoverHolds == Spec => []AttemptsCover
<1>1. Init => AttemptsCover
  BY DEF Init, AttemptsCover
<1>2. TypeOK /\ TypeOK' /\ LeaseInv /\ AttemptsCover /\ [Next]_vars => AttemptsCover'
  BY CoverStep
<1> QED
  BY <1>1, <1>2, TypeCorrect, LeaseInvariant, PTL DEF Spec

-----------------------------------------------------------------------------
(* Refinement of JobQueue *)

(* The job of b as JobQueue sees it: Phase(b) and ...                        *)
Owner(b) == IF disturbed[b] THEN {} ELSE {d \in Drain : Working(d, b)}
Failures(b) == IF Counts(b) THEN fails[b] ELSE 0
Lossy(b) == Counts(b) /\ faulted[b]

SameOwner(b) == Owner(b)' = Owner(b)
SameBudget(b) == Failures(b)' = Failures(b) /\ Lossy(b)' = Lossy(b)
Same(b) == Phase(b)' = Phase(b) /\ SameOwner(b) /\ SameBudget(b)

LEMMA QueueStutters ==
    ASSUME \A b \in Book : Same(b)
    PROVE  UNCHANGED Queue!vars
BY DEF Queue!vars, Same, SameOwner, SameBudget, Owner, Failures, Lossy

LEMMA QueueTakes ==
    ASSUME NEW b \in Book, NEW d \in Drain, \A c \in Book \ {b} : Same(c),
           Phase(b) = "waiting", Phase(b)' = "taken", Owner(b)' = {d}, SameBudget(b)
    PROVE  Queue!Next
<1>1. Queue!Take(b, d)
  BY DEF Queue!Take, Same, SameOwner, SameBudget, Owner, Failures, Lossy
<1> QED
  BY <1>1 DEF Queue!Next

LEMMA QueueCompletes ==
    ASSUME NEW b \in Book, \A c \in Book \ {b} : Same(c),
           Phase(b) = "taken", Phase(b)' = "completed", Owner(b)' = {}, SameBudget(b)
    PROVE  Queue!Next
<1>1. Queue!Complete(b)
  BY DEF Queue!Complete, Queue!PutBack, Same, SameOwner, SameBudget, Owner, Failures, Lossy
<1> QED
  BY <1>1 DEF Queue!Next

LEMMA QueueFails ==
    ASSUME NEW b \in Book, \A c \in Book \ {b} : Same(c),
           Phase(b) = "taken", Owner(b)' = {},
           Failures(b)' = Failures(b) + 1, Lossy(b)' = Lossy(b),
           \/ Phase(b)' = "waiting" /\ Failures(b) + 1 < MaxAttempts
           \/ Phase(b)' = "failed" /\ (Failures(b) + 1 = MaxAttempts \/ Lossy(b))
    PROVE  Queue!Next
<1>1. Queue!Fail(b)
  BY DEF Queue!Fail, Queue!PutBack, Same, SameOwner, SameBudget, Owner, Failures, Lossy
<1> QED
  BY <1>1 DEF Queue!Next

LEMMA QueueLoses ==
    ASSUME NEW S \in SUBSET Book,
           \A b \in Book \ S : Same(b),
           \A b \in S : /\ Phase(b) = "taken" /\ Phase(b)' = "waiting"
                        /\ Owner(b)' = {} /\ Lossy(b)' = TRUE
                        /\ Failures(b)' = Failures(b)
    PROVE  Queue!Next
<1>1. Queue!Lose(S)
  BY DEF Queue!Lose, Same, SameOwner, SameBudget, Owner, Failures, Lossy
<1> QED
  BY <1>1 DEF Queue!Next

(* A job starts over in phase to, or is loose because a drain has it.        *)
StartsOver(b, to) ==
    /\ Phase(b)' = IF AtWork(b) THEN "loose" ELSE to
    /\ Owner(b)' = {} /\ Failures(b)' = 0 /\ Lossy(b)' = FALSE

LEMMA QueueResets ==
    ASSUME TypeOK, NEW S \in SUBSET Book, NEW to \in {"waiting", "none"},
           \A b \in Book \ S : Same(b), \A b \in S : StartsOver(b, to)
    PROVE  Queue!Next
<1> DEFINE busy == {b \in S : disturbed[b] /\ AtWork(b)}
<1>1. busy \in SUBSET {b \in S : Phase(b) = "loose"}
  BY DEF Phase
<1>2. ASSUME NEW b \in S
      PROVE  Phase(b)' = IF Phase(b) = "taken" \/ b \in busy THEN "loose" ELSE to
  <2>1. Phase(b) = "taken" <=> ~disturbed[b] /\ AtWork(b)
    BY <1>2 DEF Phase, TypeOK, Status
  <2> QED
    BY <1>2, <2>1 DEF StartsOver
<1> DEFINE ph == [b \in Book |-> Phase(b)]
<1>3. ph' = [b \in Book |-> IF b \notin S THEN ph[b]
                           ELSE IF ph[b] = "taken" \/ b \in busy THEN "loose" ELSE to]
  BY <1>2 DEF Same
<1>4. busy \in SUBSET {b \in S : ph[b] = "loose"}
  BY <1>1
<1>5. Queue!Reset(S, to)
  <2>1. \E bs \in SUBSET {b \in S : ph[b] = "loose"} :
           ph' = [b \in Book |-> IF b \notin S THEN ph[b]
                                ELSE IF ph[b] = "taken" \/ b \in bs THEN "loose" ELSE to]
    BY <1>3, <1>4
  <2> HIDE DEF ph, busy
  <2>2. /\ [b \in Book |-> Owner(b)]' = [b \in Book |-> IF b \in S THEN {} ELSE Owner(b)]
        /\ [b \in Book |-> Failures(b)]' = [b \in Book |-> IF b \in S THEN 0 ELSE Failures(b)]
    BY DEF Same, SameOwner, SameBudget, StartsOver
  <2>3. [b \in Book |-> Lossy(b)]' = [b \in Book |-> IF b \in S THEN FALSE ELSE Lossy(b)]
    BY DEF Same, SameBudget, StartsOver
  <2> QED
    BY <2>1, <2>2, <2>3 DEF ph, Queue!Reset, Owner, Failures, Lossy
<1> QED
  BY <1>5 DEF Queue!Next, Queue!Arm, Queue!Remove

(* A job whose row and drains are left alone looks the same.                 *)
LEMMA SameFrame ==
    ASSUME NEW b \in Book, status'[b] = status[b], disturbed'[b] = disturbed[b],
           fails'[b] = fails[b], faulted'[b] = faulted[b],
           \A d \in Drain : cur'[d] = b <=> cur[d] = b
    PROVE  Same(b)
<1>1. (AtWork(b))' <=> AtWork(b)
  BY DEF AtWork, Working
<1>2. Phase(b)' = Phase(b)
  BY <1>1 DEF Phase
<1>3. SameOwner(b)
  BY DEF SameOwner, Owner, Working
<1>4. SameBudget(b)
  BY DEF SameBudget, Failures, Lossy, Counts
<1> QED
  BY <1>2, <1>3, <1>4 DEF Same

(* A loose job looks the same whatever drains do.                            *)
LEMMA SameLoose ==
    ASSUME NEW b \in Book, disturbed[b], disturbed'[b]
    PROVE  Same(b)
BY DEF Same, SameOwner, SameBudget, Phase, Owner, Failures, Lossy, Counts

(* A re-arm or a deletion makes a job start over.                            *)
LEMMA ResetStartsOver ==
    ASSUME NEW b \in Book, UNCHANGED cur, disturbed'[b] = AtWork(b),
           \/ status'[b] = "pending" /\ fails'[b] = 0 /\ faulted'[b] = FALSE
           \/ status'[b] = "none"
    PROVE  StartsOver(b, IF status'[b] = "pending" THEN "waiting" ELSE "none")
<1>1. (AtWork(b))' <=> AtWork(b)
  BY DEF AtWork, Working
<1>2. Phase(b)' = IF AtWork(b) THEN "loose"
                  ELSE IF status'[b] = "pending" THEN "waiting" ELSE "none"
  BY <1>1 DEF Phase
<1>3. Owner(b)' = {}
  BY DEF Owner, AtWork, Working
<1>4. Failures(b)' = 0
  BY DEF Failures, Counts
<1>5. Lossy(b)' = FALSE
  BY DEF Lossy, Counts
<1> QED
  BY <1>2, <1>3, <1>4, <1>5 DEF StartsOver

LEMMA ArmIsReset ==
    ASSUME TypeOK, NEW S \in SUBSET Book, Arm(S), UNCHANGED cur
    PROVE  Queue!Next
<1>1. ASSUME NEW b \in S PROVE StartsOver(b, "waiting")
  <2>1. /\ status'[b] = "pending" /\ fails'[b] = 0 /\ faulted'[b] = FALSE
        /\ disturbed'[b] = AtWork(b)
    BY <1>1, Zenon DEF Arm
  <2> QED
    BY <2>1, ResetStartsOver
<1>2. ASSUME NEW b \in Book \ S PROVE Same(b)
  <2>1. /\ status'[b] = status[b] /\ fails'[b] = fails[b]
        /\ faulted'[b] = faulted[b] /\ disturbed'[b] = disturbed[b]
    BY <1>2, Zenon DEF Arm
  <2> QED
    BY <2>1, SameFrame
<1> QED
  BY <1>1, <1>2, QueueResets

(* What a drain at work on an undisturbed job knows: it is the only one, and *)
(* the job is pending.                                                       *)
LEMMA HeldIsTaken ==
    ASSUME TypeOK, LeaseInv, NEW d \in Drain, cur[d] \in Book, ~disturbed[cur[d]]
    PROVE  /\ Phase(cur[d]) = "taken" /\ status[cur[d]] = "pending"
           /\ Failures(cur[d]) = fails[cur[d]] /\ Lossy(cur[d]) = faulted[cur[d]]
           /\ \A e \in Drain : cur[e] = cur[d] => e = d
<1>1. AtWork(cur[d]) /\ status[cur[d]] = "pending"
  BY DEF AtWork, Working, LeaseInv, LeaseHeld
<1>2. faulted[cur[d]] \in BOOLEAN
  BY DEF TypeOK
<1> QED
  BY <1>1, <1>2 DEF Phase, Failures, Lossy, Counts, LeaseInv, SingleProcessor, Working

(* A drain that leaves its job moves that job only.                          *)
LEMMA LeaveMovesOne ==
    ASSUME TypeOK, LeaseInv, NEW d \in Drain, cur[d] \in Book,
           cur' = [cur EXCEPT ![d] = NoBook]
    PROVE  /\ \A e \in Drain, b \in Book : b # cur[d] => (cur'[e] = b <=> cur[e] = b)
           /\ ~disturbed[cur[d]] => \A e \in Drain : cur'[e] # cur[d]
BY BookAssumption DEF TypeOK, LeaseInv, SingleProcessor, Working

(* A job nobody is at work on, after a step.                                 *)
LEMMA FreePhase ==
    ASSUME NEW b \in Book, ~disturbed'[b], \A e \in Drain : cur'[e] # b, status'[b] # "none",
           faulted'[b] \in BOOLEAN
    PROVE  /\ Phase(b)' = IF status'[b] = "pending" THEN "waiting" ELSE status'[b]
           /\ Owner(b)' = {} /\ Failures(b)' = fails'[b] /\ Lossy(b)' = faulted'[b]
<1>1. ~(AtWork(b))'
  BY DEF AtWork, Working
<1>2. Phase(b)' = IF status'[b] = "pending" THEN "waiting" ELSE status'[b]
  BY <1>1 DEF Phase
<1>3. Owner(b)' = {}
  BY DEF Owner, Working
<1> QED
  BY <1>2, <1>3 DEF Failures, Lossy, Counts

(* Every step of rows, leases and drains is one of the queue, or none.       *)
LEMMA QueueStep ==
    ASSUME TypeOK, TypeOK', LeaseInv, BudgetInv, AttemptsCover, [Next]_vars
    PROVE  [Queue!Next]_(Queue!vars)
<1> USE DEF rowVars, jobVars, drainVars, histVars
<1>1. CASE \/ \E b \in Book : Upsert(b) \/ EnqueueLost(b) \/ SoftDelete(b)
           \/ \E d \in Drain : \/ StartDrain(d) \/ QueueEmpty(d) \/ Load(d)
                               \/ UpdateAudiobookMetadata(d) \/ Fetch(d) \/ StopDrain(d)
           \/ Tick \/ UNCHANGED vars
  <2>1. UNCHANGED <<status, fails, faulted, disturbed, cur>>
    BY <1>1 DEF Upsert, EnqueueLost, SoftDelete, StartDrain, QueueEmpty, Load,
       UpdateAudiobookMetadata, Fetch, StopDrain, Tick, vars
  <2> QED
    BY <2>1, SameFrame, QueueStutters
<1>2. ASSUME NEW b \in Book, Enqueue(b) PROVE Queue!Next
  <2>1. (Arm({}) \/ Arm({b})) /\ UNCHANGED cur
    BY <1>2 DEF Enqueue
  <2> QED
    BY <2>1, ArmIsReset
<1>3. CASE BulkEnqueueBackfill
  <2>1. Arm({b \in Book : row[b] = "live"}) /\ UNCHANGED cur
    BY <1>3 DEF BulkEnqueueBackfill
  <2> QED
    BY <2>1, ArmIsReset
<1>4. ASSUME NEW S \in SUBSET Book, DeleteLibraryPath(S) PROVE Queue!Next
  <2>0. UNCHANGED <<cur, faulted, fails>>
    BY <1>4 DEF DeleteLibraryPath
  <2>1. ASSUME NEW b \in S PROVE StartsOver(b, "none")
    <3>1. status'[b] = "none" /\ disturbed'[b] = AtWork(b)
      BY <1>4, <2>1, Zenon DEF DeleteLibraryPath
    <3> QED
      BY <2>0, <3>1, ResetStartsOver
  <2>2. ASSUME NEW b \in Book \ S PROVE Same(b)
    <3>1. status'[b] = status[b] /\ disturbed'[b] = disturbed[b]
      BY <1>4, <2>2, Zenon DEF DeleteLibraryPath
    <3> QED
      BY <2>0, <3>1, SameFrame
  <2> QED
    BY <2>1, <2>2, QueueResets
<1>5. ASSUME NEW d \in Drain, ClaimNext(d) PROVE [Queue!Next]_(Queue!vars)
  <2> PICK b \in Book : Front(b) /\ cur' = [cur EXCEPT ![d] = b]
    BY <1>5 DEF ClaimNext
  <2>1. /\ UNCHANGED <<status, disturbed, faulted, fails>>
        /\ status[b] = "pending" /\ runAfter[b] <= 0 /\ cur[d] \notin Book
    BY <1>5 DEF ClaimNext, Front, Ready, TypeOK, WorkPc
  <2>2. ASSUME NEW c \in Book \ {b} PROVE Same(c)
    <3>1. \A e \in Drain : cur'[e] = c <=> cur[e] = c
      BY <2>1, <2>2 DEF TypeOK
    <3> QED
      BY <2>1, <3>1, SameFrame
  <2>3. CASE disturbed[b]
    BY <2>1, <2>2, <2>3, SameLoose, QueueStutters
  <2>4. CASE ~disturbed[b]
    <3>1. \A e \in Drain : cur[e] # b
      BY <2>1, <2>4, LeaseAssumption DEF TypeOK, LeaseInv, LeaseHeld, Working
    <3>2. \A e \in Drain : cur'[e] = b <=> e = d
      BY <3>1 DEF TypeOK
    <3>3. Phase(b) = "waiting"
      BY <2>1, <2>4, <3>1 DEF Phase, AtWork, Working
    <3>4. Phase(b)' = "taken"
      BY <2>1, <2>4, <3>2 DEF Phase, AtWork, Working
    <3>5. Owner(b)' = {d}
      BY <2>1, <2>4, <3>2 DEF Owner, Working
    <3>6. SameBudget(b)
      BY <2>1 DEF SameBudget, Failures, Lossy, Counts
    <3> QED
      BY <2>2, <3>3, <3>4, <3>5, <3>6, QueueTakes
  <2> QED
    BY <2>3, <2>4
<1>6. ASSUME NEW d \in Drain, MarkCompleted(d) PROVE [Queue!Next]_(Queue!vars)
  <2> PICK b \in Book : cur[d] = b
    BY <1>6 DEF MarkCompleted, TypeOK, WorkPc
  <2>1. cur' = [cur EXCEPT ![d] = NoBook]
        /\ UNCHANGED <<disturbed, faulted, fails>>
    BY <1>6 DEF MarkCompleted, Leave, TypeOK, WorkPc
  <2>2. \A c \in Book : status'[c] = IF c = b /\ status[c] # "none"
                                     THEN "completed" ELSE status[c]
    BY <1>6 DEF MarkCompleted
  <2>3. ASSUME NEW c \in Book \ {b} PROVE Same(c)
    <3>1. \A e \in Drain : cur'[e] = c <=> cur[e] = c
      BY <2>1, <2>3, LeaveMovesOne
    <3>2. /\ c \in Book /\ status'[c] = status[c] /\ disturbed'[c] = disturbed[c]
          /\ fails'[c] = fails[c] /\ faulted'[c] = faulted[c]
      BY <2>1, <2>2, <2>3
    <3> QED
      BY <3>1, <3>2, SameFrame
  <2>4. CASE disturbed[b]
    BY <2>1, <2>3, <2>4, SameLoose, QueueStutters
  <2>5. CASE ~disturbed[b]
    <3>1. /\ Phase(b) = "taken" /\ status[b] = "pending"
          /\ Failures(b) = fails[b] /\ Lossy(b) = faulted[b]
      BY <2>1, <2>5, HeldIsTaken
    <3>2. status'[b] = "completed" /\ \A e \in Drain : cur'[e] # b
      BY <2>1, <2>2, <2>5, <3>1, LeaveMovesOne
    <3>3. faulted'[b] \in BOOLEAN
      BY <2>1 DEF TypeOK
    <3>4. /\ Phase(b)' = "completed" /\ Owner(b)' = {}
          /\ Failures(b)' = fails'[b] /\ Lossy(b)' = faulted'[b]
      BY <2>1, <2>5, <3>2, <3>3, FreePhase
    <3> QED
      BY <2>1, <2>3, <3>1, <3>4, QueueCompletes DEF SameBudget
  <2> QED
    BY <2>4, <2>5
<1>7. ASSUME NEW d \in Drain, MarkFailed(d) PROVE [Queue!Next]_(Queue!vars)
  <2> PICK b \in Book : cur[d] = b
    BY <1>7 DEF MarkFailed, TypeOK, WorkPc
  <2> DEFINE last == curAttempts[d] >= MaxAttempts
  <2>1. cur' = [cur EXCEPT ![d] = NoBook]
        /\ UNCHANGED <<disturbed, faulted>>
    BY <1>7 DEF MarkFailed, Leave, TypeOK, WorkPc
  <2>2. \A c \in Book :
           /\ status'[c] = IF c = b /\ status[c] # "none" /\ last
                           THEN "failed" ELSE status[c]
           /\ fails'[c] = IF c = b /\ status[c] # "none" THEN fails[c] + 1 ELSE fails[c]
    BY <1>7 DEF MarkFailed
  <2>3. ASSUME NEW c \in Book \ {b} PROVE Same(c)
    <3>1. \A e \in Drain : cur'[e] = c <=> cur[e] = c
      BY <2>1, <2>3, LeaveMovesOne
    <3>2. /\ c \in Book /\ status'[c] = status[c] /\ disturbed'[c] = disturbed[c]
          /\ fails'[c] = fails[c] /\ faulted'[c] = faulted[c]
      BY <2>1, <2>2, <2>3
    <3> QED
      BY <3>1, <3>2, SameFrame
  <2>4. CASE disturbed[b]
    BY <2>1, <2>3, <2>4, SameLoose, QueueStutters
  <2>5. CASE ~disturbed[b]
    <3>1. /\ Phase(b) = "taken" /\ status[b] = "pending"
          /\ Failures(b) = fails[b] /\ Lossy(b) = faulted[b]
      BY <2>1, <2>5, HeldIsTaken
    <3>2. /\ status'[b] = IF last THEN "failed" ELSE "pending"
          /\ fails'[b] = fails[b] + 1 /\ \A e \in Drain : cur'[e] # b
      BY <2>1, <2>2, <2>5, <3>1, LeaveMovesOne
    <3>3. faulted'[b] \in BOOLEAN
      BY <2>1 DEF TypeOK
    <3>4. /\ Phase(b)' = IF last THEN "failed" ELSE "waiting"
          /\ Owner(b)' = {} /\ Failures(b)' = fails'[b] /\ Lossy(b)' = faulted'[b]
      BY <2>1, <2>5, <3>2, <3>3, FreePhase
    <3>5. fails[b] < curAttempts[d]
      BY <2>1, <2>5, <3>1 DEF AttemptsCover, Working
    <3>6. ~faulted[b] => curAttempts[d] = fails[b] + 1 /\ fails[b] < MaxAttempts
      BY <2>1, <2>5, <3>1 DEF BudgetInv, BudgetOf, Working
    <3>7. fails[b] \in Nat /\ curAttempts[d] \in Nat
      BY <2>1 DEF TypeOK
    <3>8. CASE last
      <4>1. Failures(b) + 1 = MaxAttempts \/ faulted[b]
        BY <3>1, <3>6, <3>7, <3>8, AttemptsAssumption
      <4>2. Failures(b)' = Failures(b) + 1 /\ Lossy(b)' = Lossy(b) /\ Phase(b)' = "failed"
        BY <2>1, <3>1, <3>2, <3>4, <3>8
      <4>3. Failures(b) + 1 = MaxAttempts \/ Lossy(b)
        BY <3>1, <4>1
      <4> QED
        BY <2>1, <2>3, <3>1, <3>4, <4>2, <4>3, QueueFails
    <3>9. CASE ~last
      <4>1. Failures(b) + 1 < MaxAttempts
        BY <3>1, <3>5, <3>7, <3>9, AttemptsAssumption
      <4>2. Failures(b)' = Failures(b) + 1 /\ Lossy(b)' = Lossy(b) /\ Phase(b)' = "waiting"
        BY <2>1, <3>1, <3>2, <3>4, <3>9
      <4> QED
        BY <2>1, <2>3, <3>1, <3>4, <4>1, <4>2, QueueFails
    <3> QED
      BY <3>8, <3>9
  <2> QED
    BY <2>4, <2>5
<1>8. ASSUME NEW d \in Drain, MarkLost(d) \/ Abandon(d) PROVE [Queue!Next]_(Queue!vars)
  <2> PICK b \in Book : cur[d] = b
    BY <1>8 DEF MarkLost, Abandon, TypeOK, WorkPc
  <2>1. /\ cur' = [cur EXCEPT ![d] = NoBook]
        /\ UNCHANGED <<status, disturbed, fails>>
        /\ faulted' = [faulted EXCEPT ![b] = TRUE]
    BY <1>8 DEF MarkLost, Abandon, Leave, TypeOK, WorkPc
  <2>2. faulted'[b] = TRUE /\ \A c \in Book \ {b} : faulted'[c] = faulted[c]
    BY <2>1 DEF TypeOK
  <2>3. ASSUME NEW c \in Book \ {b} PROVE Same(c)
    <3>1. \A e \in Drain : cur'[e] = c <=> cur[e] = c
      BY <2>1, <2>3, LeaveMovesOne
    <3>2. /\ c \in Book /\ status'[c] = status[c] /\ disturbed'[c] = disturbed[c]
          /\ fails'[c] = fails[c] /\ faulted'[c] = faulted[c]
      BY <2>1, <2>2, <2>3
    <3> QED
      BY <3>1, <3>2, SameFrame
  <2>4. CASE disturbed[b]
    BY <2>1, <2>3, <2>4, SameLoose, QueueStutters
  <2>5. CASE ~disturbed[b]
    <3>1. Phase(b) = "taken" /\ status[b] = "pending" /\ Failures(b) = fails[b]
      BY <2>1, <2>5, HeldIsTaken
    <3>2. \A e \in Drain : cur'[e] # b
      BY <2>1, <2>5, LeaveMovesOne
    <3>3. /\ Phase(b)' = "waiting" /\ Owner(b)' = {}
          /\ Failures(b)' = Failures(b) /\ Lossy(b)' = TRUE
      BY <2>1, <2>2, <2>5, <3>1, <3>2, FreePhase
    <3> QED
      BY <2>1, <2>3, <3>1, <3>3, QueueLoses, {b} \in SUBSET Book
  <2> QED
    BY <2>4, <2>5
<1>9. CASE Crash
  <2> DEFINE S == {b \in Book : ~disturbed[b] /\ AtWork(b)}
  <2>1. UNCHANGED <<status, disturbed, fails>>
    BY <1>9 DEF Crash
  <2>2. \A d \in Drain, b \in Book : cur'[d] # b
    BY <1>9, BookAssumption DEF Crash
  <2>3. faulted' = [b \in Book |-> faulted[b] \/ AtWork(b)]
    BY <1>9 DEF Crash
  <2>4. ASSUME NEW b \in Book \ S PROVE Same(b)
    <3>1. CASE disturbed[b]
      BY <2>1, <2>4, <3>1, SameLoose
    <3>2. CASE ~disturbed[b]
      <4>1. ~AtWork(b)
        BY <2>4, <3>2
      <4>2. faulted'[b] = faulted[b]
        BY <2>3, <2>4, <4>1 DEF TypeOK
      <4>3. \A e \in Drain : cur'[e] = b <=> cur[e] = b
        BY <2>2, <2>4, <4>1 DEF AtWork, Working
      <4> QED
        BY <2>1, <2>4, <4>2, <4>3, SameFrame
    <3> QED
      BY <3>1, <3>2
  <2>5. ASSUME NEW b \in S
        PROVE  /\ Phase(b) = "taken" /\ Phase(b)' = "waiting" /\ Owner(b)' = {}
               /\ Lossy(b)' = TRUE /\ Failures(b)' = Failures(b)
    <3>1. PICK d \in Drain : cur[d] = b
      BY <2>5 DEF AtWork, Working
    <3>2. Phase(b) = "taken" /\ status[b] = "pending" /\ Failures(b) = fails[b]
      BY <2>5, <3>1, HeldIsTaken
    <3>3. faulted'[b] = TRUE
      BY <2>3, <2>5
    <3> QED
      BY <2>1, <2>2, <2>5, <3>2, <3>3, FreePhase
  <2> QED
    BY <2>4, <2>5, QueueLoses
<1> QED
  BY <1>1, <1>2, <1>3, <1>4, <1>5, <1>6, <1>7, <1>8, <1>9 DEF Next, DrainStep

(* IsQueue: rows, leases and drains implement JobQueue, for any number of    *)
(* books, any limits and any faults.                                         *)
THEOREM ImplementsQueue == Spec => IsQueue
<1>1. Init => Queue!Init
  <2> SUFFICES ASSUME Init PROVE Queue!Init
    OBVIOUS
  <2>1. \A b \in Book : /\ disturbed[b] = FALSE /\ status[b] = "none"
                        /\ \A d \in Drain : cur[d] # b
    BY BookAssumption DEF Init
  <2>2. \A b \in Book : Phase(b) = "none"
    BY <2>1 DEF Phase, AtWork, Working
  <2>3. \A b \in Book : Owner(b) = {} /\ Failures(b) = 0
    BY <2>1 DEF Owner, Failures, Counts, Working
  <2>4. \A b \in Book : Lossy(b) = FALSE
    BY <2>1 DEF Lossy, Counts
  <2> QED
    BY <2>2, <2>3, <2>4 DEF Queue!Init, Owner, Failures, Lossy
<1>2. TypeOK /\ TypeOK' /\ LeaseInv /\ BudgetInv /\ AttemptsCover /\ [Next]_vars
          => [Queue!Next]_(Queue!vars)
  BY QueueStep
<1> QED
  BY <1>1, <1>2, TypeCorrect, LeaseInvariant, BudgetInvariant, CoverHolds, PTL
     DEF Spec, IsQueue, Queue!Spec
=============================================================================
