------------------------------ MODULE Enrichment ------------------------------
(***************************************************************************)
(* The metadata enrichment queue and its workers.                          *)
(*                                                                         *)
(* metadata_enrichment_job is a Postgres table with one row per audiobook. *)
(* The scanner arms a job after it has (re)ingested a file, the operator   *)
(* re-arms all of them with a backfill, and drains (the cron task and the  *)
(* inline drain at the end of a scan) claim jobs, process them against the *)
(* upstream source and mark them completed or failed.                      *)
(*                                                                         *)
(* Every SQL statement or transaction is one step; between two of them any *)
(* other actor may run.  Time is kept relative to now(): runAfter[b] is    *)
(* run_after - now() in minutes, so a job is due when runAfter[b] <= 0.    *)
(* The columns last_error, finished_at and enqueued_at are written but     *)
(* never read by the code and are left out.                                *)
(***************************************************************************)
EXTENDS Integers

(* The drain of the metadata_enrichment_worker task (at most one: the        *)
(* scheduler drops a trigger while draining is set) and the one runScan runs *)
(* under scanMu when scan_inline_enrich is on.                               *)
Drain == {"cron", "inline"}

CONSTANTS
    Book,         \* audiobook ids; numbers, because ClaimNext orders by id
    NoBook,       \* no audiobook
    MaxAttempts,  \* queue.go: MaxAttempts
    Lease,        \* queue.go: claimLeaseMinutes
    MaxProcess,   \* longest time, in minutes, a drain works on one job
    MaxAge,       \* bound: how far in the past a run_after is told apart
    MaxIngests,   \* bound: contents of one file that are ingested
    MaxAdmin,     \* bound: backfills and library deletions
    MaxFaults     \* bound: crashes, cancellations and failed statements

(* claimLeaseMinutes "must comfortably exceed the worst-case process() time". *)
ASSUME BookAssumption == Book \subseteq Nat /\ NoBook \notin Book
ASSUME AttemptsAssumption == MaxAttempts \in Nat \ {0}
ASSUME LeaseAssumption ==
    MaxProcess \in Nat /\ Lease \in Nat /\ MaxProcess < Lease
ASSUME BoundAssumption ==
    {MaxAge, MaxIngests, MaxAdmin, MaxFaults} \subseteq Nat

(* time.Duration(1<<uint(attempts)) * time.Minute.  That a power of two is a *)
(* number is an assumption because the provers know nothing of ^.            *)
Backoff(n) == 2 ^ n
ASSUME BackoffAssumption == \A n \in 0..MaxAttempts : Backoff(n) \in Nat

VARIABLES
    \* audiobook rows
    row,          \* no row, a live one or a soft-deleted one
    ver,          \* ver[b]: content of the file at the last ingest
    tags,         \* tags[b]: the content the row's title, author, ... stem from
    \* metadata_enrichment_job rows
    status,       \* "none" when there is no row for b
    attempts,
    runAfter,
    \* drains
    pc,           \* where the goroutine of drain d is
    cur,          \* the job it claimed and is at work on
    curAttempts,  \* Job.Attempts of that job
    loaded,       \* the row it loaded, as the content its tags stem from
    held,         \* minutes since the claim
    \* the one running scan: the book it upserted and has not enqueued yet
    scan,
    \* budgets
    adminOps, faults,
    \* history, read by the properties only
    disturbed,    \* the last re-arm of b found a drain at work on it
    faulted,      \* a drain lost b since the last re-arm
    raced,        \* the last ingest of b fell between a drain's load and write
    owed,         \* b was re-armed and no drain has claimed it since
    fails         \* failures recorded for b since the last re-arm

rowVars == <<row, ver, tags>>
jobVars == <<status, attempts, runAfter>>
drainVars == <<pc, cur, curAttempts, loaded, held>>
histVars == <<disturbed, faulted, raced, owed, fails>>
vars == <<rowVars, jobVars, drainVars, scan, adminOps, faults, histVars>>

Status == {"none", "pending", "completed", "failed"}
WorkPc == {"load", "fetch", "done", "error"}

TypeOK ==
    /\ row \in [Book -> {"absent", "live", "deleted"}]
    /\ ver \in [Book -> Nat] /\ tags \in [Book -> Nat]
    /\ status \in [Book -> Status]
    /\ attempts \in [Book -> Nat] /\ runAfter \in [Book -> Int]
    /\ pc \in [Drain -> WorkPc \cup {"idle", "claim"}]
    /\ cur \in [Drain -> Book \cup {NoBook}]
    /\ \A d \in Drain : pc[d] \in WorkPc <=> cur[d] \in Book
    /\ curAttempts \in [Drain -> Nat] /\ loaded \in [Drain -> Nat]
    /\ held \in [Drain -> Nat]
    /\ scan \in Book \cup {NoBook}
    /\ adminOps \in Nat /\ faults \in Nat
    /\ disturbed \in [Book -> BOOLEAN] /\ faulted \in [Book -> BOOLEAN]
    /\ raced \in [Book -> BOOLEAN] /\ owed \in [Book -> BOOLEAN]
    /\ fails \in [Book -> Nat]

Working(d, b) == cur[d] = b
AtWork(b) == \E d \in Drain : Working(d, b)

Init ==
    /\ row = [b \in Book |-> "absent"]
    /\ ver = [b \in Book |-> 0] /\ tags = [b \in Book |-> 0]
    /\ status = [b \in Book |-> "none"]
    /\ attempts = [b \in Book |-> 0] /\ runAfter = [b \in Book |-> 0]
    /\ pc = [d \in Drain |-> "idle"] /\ cur = [d \in Drain |-> NoBook]
    /\ curAttempts = [d \in Drain |-> 0] /\ loaded = [d \in Drain |-> 0]
    /\ held = [d \in Drain |-> 0]
    /\ scan = NoBook /\ adminOps = 0 /\ faults = 0
    /\ disturbed = [b \in Book |-> FALSE] /\ faulted = [b \in Book |-> FALSE]
    /\ raced = [b \in Book |-> FALSE] /\ owed = [b \in Book |-> FALSE]
    /\ fails = [b \in Book |-> 0]

-----------------------------------------------------------------------------
(* Arming jobs *)

(* Mutant: the re-arm resets the counters and forgets the status. *)
Arm_KeepStatus(S) ==
    /\ status' = [b \in Book |-> IF b \in S /\ status[b] = "none"
                                 THEN "pending" ELSE status[b]]
    /\ attempts' = [b \in Book |-> IF b \in S THEN 0 ELSE attempts[b]]
    /\ runAfter' = [b \in Book |-> IF b \in S THEN 0 ELSE runAfter[b]]
    /\ disturbed' = [b \in Book |-> IF b \in S THEN AtWork(b) ELSE disturbed[b]]
    /\ faulted' = [b \in Book |-> IF b \in S THEN FALSE ELSE faulted[b]]
    /\ owed' = [b \in Book |-> IF b \in S THEN TRUE ELSE owed[b]]
    /\ fails' = [b \in Book |-> IF b \in S THEN 0 ELSE fails[b]]

(* INSERT ... ON CONFLICT (audiobook_id) DO UPDATE, for every book of S: a   *)
(* missing row is inserted with the column defaults, an existing one is      *)
(* reset to the same values.                                                 *)
Arm(S) ==
    /\ status' = [b \in Book |-> IF b \in S THEN "pending" ELSE status[b]]
    /\ attempts' = [b \in Book |-> IF b \in S THEN 0 ELSE attempts[b]]
    /\ runAfter' = [b \in Book |-> IF b \in S THEN 0 ELSE runAfter[b]]
    /\ disturbed' = [b \in Book |-> IF b \in S THEN AtWork(b) ELSE disturbed[b]]
    /\ faulted' = [b \in Book |-> IF b \in S THEN FALSE ELSE faulted[b]]
    /\ owed' = [b \in Book |-> IF b \in S THEN TRUE ELSE owed[b]]
    /\ fails' = [b \in Book |-> IF b \in S THEN 0 ELSE fails[b]]

(* Mutant: the upsert of a known path refreshes the signature only. *)
Upsert_KeepTags(b) ==
    /\ scan = NoBook /\ pc["inline"] = "idle" /\ ver[b] < MaxIngests
    /\ scan' = b
    /\ row' = [row EXCEPT ![b] = "live"]
    /\ ver' = [ver EXCEPT ![b] = ver[b] + 1]
    /\ tags' = [tags EXCEPT ![b] = IF row[b] = "absent" THEN ver[b] + 1 ELSE @]
    /\ raced' = [raced EXCEPT
                    ![b] = \E d \in Drain : pc[d] = "fetch" /\ Working(d, b)]
    /\ UNCHANGED <<jobVars, drainVars, adminOps, faults,
                   disturbed, faulted, owed, fails>>

(* Walk upserts the row of a new or changed file: every tag column is        *)
(* overwritten with what was parsed from the file and deleted is cleared.    *)
(* The inline drain runs in the scan's own goroutine, after the walks.       *)
Upsert(b) ==
    /\ scan = NoBook /\ pc["inline"] = "idle" /\ ver[b] < MaxIngests
    /\ scan' = b
    /\ row' = [row EXCEPT ![b] = "live"]
    /\ ver' = [ver EXCEPT ![b] = ver[b] + 1]
    /\ tags' = [tags EXCEPT ![b] = ver[b] + 1]
    /\ raced' = [raced EXCEPT
                    ![b] = \E d \in Drain : pc[d] = "fetch" /\ Working(d, b)]
    /\ UNCHANGED <<jobVars, drainVars, adminOps, faults,
                   disturbed, faulted, owed, fails>>

(* ... and then enqueues it.  When the row is gone (its library was deleted  *)
(* meanwhile) the foreign key makes the insert fail; Walk logs and goes on.  *)
Enqueue(b) ==
    /\ scan = b
    /\ scan' = NoBook
    /\ Arm(IF row[b] = "absent" THEN {} ELSE {b})
    /\ UNCHANGED <<rowVars, drainVars, adminOps, faults, raced>>

(* The insert fails, or the walk is aborted between the two statements.      *)
EnqueueLost(b) ==
    /\ scan = b /\ faults < MaxFaults
    /\ scan' = NoBook
    /\ faults' = faults + 1
    /\ UNCHANGED <<rowVars, jobVars, drainVars, adminOps, histVars>>

(* The sweep of a walk that did not see the file; the job row stays.         *)
SoftDelete(b) ==
    /\ scan = NoBook /\ pc["inline"] = "idle" /\ adminOps < MaxAdmin
    /\ row[b] = "live"
    /\ row' = [row EXCEPT ![b] = "deleted"]
    /\ adminOps' = adminOps + 1
    /\ UNCHANGED <<ver, tags, jobVars, drainVars, scan, faults, histVars>>

(* POST /admin/metadata/backfill: every book that is not soft-deleted.       *)
BulkEnqueueBackfill ==
    /\ adminOps < MaxAdmin
    /\ adminOps' = adminOps + 1
    /\ Arm({b \in Book : row[b] = "live"})
    /\ UNCHANGED <<rowVars, drainVars, scan, faults, raced>>

(* DELETE /admin/library-paths/{id}: ON DELETE CASCADE removes the books S   *)
(* of the library and their jobs.                                            *)
DeleteLibraryPath(S) ==
    /\ adminOps < MaxAdmin
    /\ adminOps' = adminOps + 1
    /\ row' = [b \in Book |-> IF b \in S THEN "absent" ELSE row[b]]
    /\ status' = [b \in Book |-> IF b \in S THEN "none" ELSE status[b]]
    /\ attempts' = [b \in Book |-> IF b \in S THEN 0 ELSE attempts[b]]
    /\ runAfter' = [b \in Book |-> IF b \in S THEN 0 ELSE runAfter[b]]
    /\ disturbed' = [b \in Book |-> IF b \in S THEN AtWork(b) ELSE disturbed[b]]
    /\ owed' = [b \in Book |-> IF b \in S THEN FALSE ELSE owed[b]]
    /\ UNCHANGED <<ver, tags, drainVars, scan, faults, faulted, raced, fails>>

-----------------------------------------------------------------------------
(* Drains *)

(* The scheduler's compare-and-swap of draining succeeds, or runScan reaches *)
(* its inline drain.                                                         *)
StartDrain(d) ==
    /\ pc[d] = "idle"
    /\ d = "inline" => scan = NoBook
    /\ pc' = [pc EXCEPT ![d] = "claim"]
    /\ UNCHANGED <<rowVars, jobVars, cur, curAttempts, loaded, held, scan,
                   adminOps, faults, histVars>>

(* Mutant: a job that used up its attempts is no longer selected. *)
Ready_Capped(b) ==
    status[b] = "pending" /\ runAfter[b] <= 0 /\ attempts[b] < MaxAttempts

Ready(b) == status[b] = "pending" /\ runAfter[b] <= 0

(* ORDER BY run_after, audiobook_id LIMIT 1 *)
Front(b) ==
    /\ Ready(b)
    /\ \A c \in Book : Ready(c) =>
          \/ runAfter[b] < runAfter[c]
          \/ runAfter[b] = runAfter[c] /\ b <= c

(* Drain's loop body ends: the job's variables are gone. *)
Leave(d, next) ==
    /\ pc' = [pc EXCEPT ![d] = next]
    /\ cur' = [cur EXCEPT ![d] = NoBook]
    /\ curAttempts' = [curAttempts EXCEPT ![d] = 0]
    /\ loaded' = [loaded EXCEPT ![d] = 0]
    /\ held' = [held EXCEPT ![d] = 0]

(* Mutants: no lease at all; one that the longest process() outlives. *)
ClaimNext_NoLease(d) ==
    /\ pc[d] = "claim"
    /\ \E b \in Book :
          /\ Front(b)
          /\ attempts' = [attempts EXCEPT ![b] = attempts[b] + 1]
          /\ cur' = [cur EXCEPT ![d] = b]
          /\ curAttempts' = [curAttempts EXCEPT ![d] = attempts[b] + 1]
          /\ owed' = [owed EXCEPT ![b] = FALSE]
    /\ held' = [held EXCEPT ![d] = 0]
    /\ pc' = [pc EXCEPT ![d] = "load"]
    /\ UNCHANGED <<rowVars, status, runAfter, loaded, scan, adminOps, faults,
                   disturbed, faulted, raced, fails>>
ClaimNext_ShortLease(d) ==
    /\ pc[d] = "claim"
    /\ \E b \in Book :
          /\ Front(b)
          /\ attempts' = [attempts EXCEPT ![b] = attempts[b] + 1]
          /\ runAfter' = [runAfter EXCEPT ![b] = MaxProcess]
          /\ cur' = [cur EXCEPT ![d] = b]
          /\ curAttempts' = [curAttempts EXCEPT ![d] = attempts[b] + 1]
          /\ owed' = [owed EXCEPT ![b] = FALSE]
    /\ held' = [held EXCEPT ![d] = 0]
    /\ pc' = [pc EXCEPT ![d] = "load"]
    /\ UNCHANGED <<rowVars, status, loaded, scan, adminOps, faults,
                   disturbed, faulted, raced, fails>>

(* The claim transaction: bump attempts and lease the job. *)
ClaimNext(d) ==
    /\ pc[d] = "claim"
    /\ \E b \in Book :
          /\ Front(b)
          /\ attempts' = [attempts EXCEPT ![b] = attempts[b] + 1]
          /\ runAfter' = [runAfter EXCEPT ![b] = Lease]
          /\ cur' = [cur EXCEPT ![d] = b]
          /\ curAttempts' = [curAttempts EXCEPT ![d] = attempts[b] + 1]
          /\ owed' = [owed EXCEPT ![b] = FALSE]
    /\ held' = [held EXCEPT ![d] = 0]
    /\ pc' = [pc EXCEPT ![d] = "load"]
    /\ UNCHANGED <<rowVars, status, loaded, scan, adminOps, faults,
                   disturbed, faulted, raced, fails>>

(* ErrQueueEmpty ends the drain. *)
QueueEmpty(d) ==
    /\ pc[d] = "claim"
    /\ \A b \in Book : ~Ready(b)
    /\ pc' = [pc EXCEPT ![d] = "idle"]
    /\ UNCHANGED <<rowVars, jobVars, cur, curAttempts, loaded, held, scan,
                   adminOps, faults, histVars>>

(* process, from its LoadAudiobookRow: no row is an error of the job. *)
Load(d) ==
    /\ pc[d] = "load"
    /\ IF row[cur[d]] = "absent"
       THEN /\ pc' = [pc EXCEPT ![d] = "error"]
            /\ UNCHANGED loaded
       ELSE /\ pc' = [pc EXCEPT ![d] = "fetch"]
            /\ loaded' = [loaded EXCEPT ![d] = tags[cur[d]]]
    /\ UNCHANGED <<rowVars, jobVars, cur, curAttempts, held, scan, adminOps,
                   faults, histVars>>

(* The source has a candidate: its fields, and for those it lacks the loaded *)
(* ones, overwrite the whole row.  The UPDATE of a missing row does nothing. *)
UpdateAudiobookMetadata(d) ==
    /\ pc[d] = "fetch"
    /\ pc' = [pc EXCEPT ![d] = "done"]
    /\ tags' = [b \in Book |->
                  IF b = cur[d] /\ row[b] # "absent" THEN loaded[d] ELSE tags[b]]
    /\ UNCHANGED <<row, ver, jobVars, cur, curAttempts, loaded, held, scan,
                   adminOps, faults, histVars>>

(* The source has none, or says not found; or it answers with an error, or   *)
(* the row has nothing to look up by.                                        *)
Fetch(d) ==
    /\ pc[d] = "fetch"
    /\ \E next \in {"done", "error"} : pc' = [pc EXCEPT ![d] = next]
    /\ UNCHANGED <<rowVars, jobVars, cur, curAttempts, loaded, held, scan,
                   adminOps, faults, histVars>>

(* Mutant: a status the table's CHECK does not know. *)
MarkCompleted_BadStatus(d) ==
    /\ pc[d] = "done"
    /\ Leave(d, "claim")
    /\ status' = [b \in Book |->
                    IF b = cur[d] /\ status[b] # "none" THEN "done" ELSE status[b]]
    /\ UNCHANGED <<rowVars, attempts, runAfter, scan, adminOps, faults, histVars>>

MarkCompleted(d) ==
    /\ pc[d] = "done"
    /\ Leave(d, "claim")
    /\ status' = [b \in Book |->
                    IF b = cur[d] /\ status[b] # "none"
                    THEN "completed" ELSE status[b]]
    /\ UNCHANGED <<rowVars, attempts, runAfter, scan, adminOps, faults, histVars>>

(* Mutant: attempts > MaxAttempts instead of >=. *)
MarkFailed_OneMore(d) ==
    /\ pc[d] = "error"
    /\ Leave(d, "claim")
    /\ LET hit(b) == b = cur[d] /\ status[b] # "none"
           last == curAttempts[d] > MaxAttempts
       IN  /\ status' = [b \in Book |->
                           IF hit(b) /\ last THEN "failed" ELSE status[b]]
           /\ runAfter' = [b \in Book |-> IF hit(b) /\ ~last
                             THEN Backoff(curAttempts[d]) ELSE runAfter[b]]
           /\ fails' = [b \in Book |-> IF hit(b) THEN fails[b] + 1 ELSE fails[b]]
    /\ UNCHANGED <<rowVars, attempts, scan, adminOps, faults,
                   disturbed, faulted, raced, owed>>

MarkFailed(d) ==
    /\ pc[d] = "error"
    /\ Leave(d, "claim")
    /\ LET hit(b) == b = cur[d] /\ status[b] # "none"
           last == curAttempts[d] >= MaxAttempts
       IN  /\ status' = [b \in Book |->
                           IF hit(b) /\ last THEN "failed" ELSE status[b]]
           /\ runAfter' = [b \in Book |-> IF hit(b) /\ ~last
                             THEN Backoff(curAttempts[d]) ELSE runAfter[b]]
           /\ fails' = [b \in Book |-> IF hit(b) THEN fails[b] + 1 ELSE fails[b]]
    /\ UNCHANGED <<rowVars, attempts, scan, adminOps, faults,
                   disturbed, faulted, raced, owed>>

-----------------------------------------------------------------------------
(* Faults *)

(* The statement of MarkCompleted or MarkFailed fails: logged, drain goes on.*)
MarkLost(d) ==
    /\ pc[d] \in {"done", "error"} /\ faults < MaxFaults
    /\ faults' = faults + 1
    /\ Leave(d, "claim")
    /\ faulted' = [faulted EXCEPT ![cur[d]] = TRUE]
    /\ UNCHANGED <<rowVars, jobVars, scan, adminOps,
                   disturbed, raced, owed, fails>>

(* process ends in a cancellation or a deadline - of the drain's context, or *)
(* of the 10 s HTTP client, whose timeout is a DeadlineExceeded too: the     *)
(* drain returns and the job is left to its lease.                           *)
Abandon(d) ==
    /\ pc[d] \in {"load", "fetch"} /\ faults < MaxFaults
    /\ faults' = faults + 1
    /\ Leave(d, "idle")
    /\ faulted' = [faulted EXCEPT ![cur[d]] = TRUE]
    /\ UNCHANGED <<rowVars, jobVars, scan, adminOps,
                   disturbed, raced, owed, fails>>

(* The drain's context ends between two jobs, or the claim fails. *)
StopDrain(d) ==
    /\ pc[d] = "claim" /\ faults < MaxFaults
    /\ faults' = faults + 1
    /\ pc' = [pc EXCEPT ![d] = "idle"]
    /\ UNCHANGED <<rowVars, jobVars, cur, curAttempts, loaded, held, scan,
                   adminOps, histVars>>

(* The plugin process dies and is started again. *)
Crash ==
    /\ faults < MaxFaults
    /\ faults' = faults + 1
    /\ pc' = [d \in Drain |-> "idle"] /\ cur' = [d \in Drain |-> NoBook]
    /\ curAttempts' = [d \in Drain |-> 0] /\ loaded' = [d \in Drain |-> 0]
    /\ held' = [d \in Drain |-> 0]
    /\ scan' = NoBook
    /\ faulted' = [b \in Book |-> faulted[b] \/ AtWork(b)]
    /\ UNCHANGED <<rowVars, jobVars, adminOps, disturbed, raced, owed, fails>>

(* A minute passes.  No drain works on one job for more than MaxProcess.     *)
Tick ==
    /\ \A d \in Drain : pc[d] \in WorkPc => held[d] < MaxProcess
    /\ runAfter' = [b \in Book |-> IF status[b] = "pending" /\ runAfter[b] > -MaxAge
                                   THEN runAfter[b] - 1 ELSE runAfter[b]]
    /\ held' = [d \in Drain |-> IF pc[d] \in WorkPc THEN held[d] + 1 ELSE held[d]]
    /\ UNCHANGED <<rowVars, status, attempts, pc, cur, curAttempts, loaded,
                   scan, adminOps, faults, histVars>>

-----------------------------------------------------------------------------

DrainStep(d) ==
    \/ ClaimNext(d) \/ QueueEmpty(d) \/ Load(d)
    \/ UpdateAudiobookMetadata(d) \/ Fetch(d)
    \/ MarkCompleted(d) \/ MarkFailed(d)

Next ==
    \/ \E b \in Book : Upsert(b) \/ Enqueue(b) \/ EnqueueLost(b) \/ SoftDelete(b)
    \/ BulkEnqueueBackfill
    \/ \E S \in (SUBSET Book) \ {{}} : DeleteLibraryPath(S)
    \/ \E d \in Drain : StartDrain(d) \/ DrainStep(d)
    \/ \E d \in Drain : MarkLost(d) \/ Abandon(d) \/ StopDrain(d)
    \/ Crash
    \/ Tick

Spec == Init /\ [][Next]_vars

(* Time passes, the host triggers the worker task every minute (drops are    *)
(* the triggers that find it draining), a running drain is scheduled.        *)
FairSpec ==
    /\ Spec
    /\ WF_vars(Tick)
    /\ WF_vars(StartDrain("cron"))
    /\ \A d \in Drain : WF_vars(DrainStep(d))

-----------------------------------------------------------------------------
(* Properties *)

(* The claim lease works: unless a job was re-armed or deleted under a drain *)
(* at work, it is never in the hands of two drains (queue.go: ClaimNext).    *)
SingleProcessor ==
    \A b \in Book : ~disturbed[b] =>
        \A d, e \in Drain : Working(d, b) /\ Working(e, b) => d = e

(* A job fails for good exactly when MaxAttempts failures were recorded for  *)
(* it, as long as no drain lost it and it was not re-armed under a drain     *)
(* (queue.go: MarkFailed against the attempts ClaimNext counted).            *)
RetryBudget ==
    \A b \in Book : ~disturbed[b] /\ ~faulted[b] =>
        /\ status[b] = "failed" => fails[b] = MaxAttempts
        /\ status[b] = "pending" => fails[b] < MaxAttempts

(* A re-arm that found no drain at work on the job stays in force until a    *)
(* drain claims it (queue.go: Enqueue, metadata.go: BulkEnqueueBackfill).    *)
NoLostReArm ==
    \A b \in Book : owed[b] /\ ~disturbed[b] => status[b] = "pending"

(* What a row shows stems from the last ingest of its file, unless that      *)
(* ingest fell between a drain's LoadAudiobookRow and its write-back.        *)
TagsFollowIngest ==
    \A b \in Book : row[b] # "absent" /\ ~raced[b] => tags[b] = ver[b]

(* A completed or failed job leaves that status only by a re-arm or by the   *)
(* deletion of its library, unless it was re-armed under a drain.            *)
SettledIsFinal ==
    [][\A b \in Book :
          status[b] \in {"completed", "failed"} /\ ~disturbed[b] =>
              status'[b] \in {status[b], "none"} \/ owed'[b]]_vars

(* The rows, leases and drains seen as the queue of JobQueue.                *)
Phase(b) ==
    IF disturbed[b] THEN "loose"
    ELSE IF AtWork(b) THEN "taken"
    ELSE IF status[b] = "pending" THEN "waiting" ELSE status[b]
Counts(b) == ~disturbed[b] /\ status[b] # "none"

Queue == INSTANCE JobQueue WITH
    phase <- [b \in Book |-> Phase(b)],
    owner <- [b \in Book |-> IF disturbed[b] THEN {} ELSE {d \in Drain : Working(d, b)}],
    failures <- [b \in Book |-> IF Counts(b) THEN fails[b] ELSE 0],
    lossy <- [b \in Book |-> Counts(b) /\ faulted[b]]

(* Leases, timestamps and single statements implement JobQueue: a job is in  *)
(* the hands of one drain at a time, only that drain settles it or puts it   *)
(* back, a settled job leaves its status only by being armed or removed, and *)
(* it is given up at the MaxAttempts-th recorded failure (queue.go).         *)
IsQueue == Queue!Spec

(* Every armed job is eventually completed, failed for good or deleted, also *)
(* when its drain crashed or lost it: the lease lapses and the cron claims   *)
(* it again (queue.go: claimLeaseMinutes).                                   *)
Settles ==
    \A b \in Book : status[b] = "pending" ~> status[b] # "pending"

-----------------------------------------------------------------------------
(* Inductive strengthenings of the invariants above.                         *)

(* A drain at work on an undisturbed job is within the lease it took.        *)
LeaseHeld ==
    /\ \A d \in Drain : held[d] <= MaxProcess
    /\ \A d \in Drain, b \in Book : Working(d, b) /\ ~disturbed[b] =>
          status[b] = "pending" /\ runAfter[b] = Lease - held[d]

(* An unclaimed re-arm is pending, and no drain can settle it.               *)
OwedIsFree ==
    \A b \in Book : owed[b] /\ ~disturbed[b] => status[b] = "pending" /\ ~AtWork(b)

(* What a drain loaded is what was last ingested.                            *)
FetchIsFresh ==
    \A d \in Drain, b \in Book :
        pc[d] = "fetch" /\ Working(d, b) /\ ~raced[b] => loaded[d] = ver[b]

(* The retry budget of one job: ClaimNext's count is the recorded failures,  *)
(* plus one while the job is claimed.                                        *)
BudgetOf(b) ==
    ~disturbed[b] /\ ~faulted[b] =>
        /\ status[b] = "failed" => fails[b] = MaxAttempts
        /\ status[b] = "pending" => fails[b] < MaxAttempts
        /\ status[b] = "pending" /\ ~AtWork(b) => attempts[b] = fails[b]
        /\ \A d \in Drain : Working(d, b) =>
              curAttempts[d] = fails[b] + 1 /\ attempts[b] = fails[b] + 1

(* Attempts lost with their drain are counted too: there are never fewer     *)
(* attempts than recorded failures.                                          *)
AttemptsCover ==
    \A b \in Book : ~disturbed[b] /\ status[b] = "pending" =>
        /\ fails[b] <= attempts[b]
        /\ \A d \in Drain : Working(d, b) =>
              fails[b] < curAttempts[d] /\ curAttempts[d] <= attempts[b]

-----------------------------------------------------------------------------
(* What the repository says of the queue and the code does not do.           *)

(* queue.go, Enqueue: an existing row "is reset to pending so a re-enrichment*)
(* runs": no job is settled that was re-armed and not claimed since.         *)
ReenrichmentRuns ==
    \A b \in Book : status[b] \in {"completed", "failed"} => ~owed[b]
=============================================================================
