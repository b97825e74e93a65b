------------------------------ MODULE JobQueue ------------------------------
(***************************************************************************)
(* What metadata_enrichment_job promises to those who use it, without      *)
(* leases, clocks, rows and transactions: a job is armed, taken by one     *)
(* drain at a time, and put back or settled by that drain alone.           *)
(*                                                                         *)
(* The promise ends for a job that is armed or removed while a drain has   *)
(* it: such a job is "loose" until it is armed or removed with no drain at *)
(* work on it.                                                             *)
(***************************************************************************)
EXTENDS Naturals

CONSTANTS
    Book,         \* one job per audiobook
    Drain,        \* those who take jobs
    MaxAttempts   \* failures after which a job is given up

VARIABLES
    phase,        \* phase[b]: none, waiting, taken, completed, failed or loose
    owner,        \* owner[b]: the drains that have it
    failures,     \* failures[b]: recorded since it was armed
    lossy         \* lossy[b]: some drain lost it since it was armed

vars == <<phase, owner, failures, lossy>>

Init ==
    /\ phase = [b \in Book |-> "none"]
    /\ owner = [b \in Book |-> {}]
    /\ failures = [b \in Book |-> 0]
    /\ lossy = [b \in Book |-> FALSE]

(* The jobs of S start over in phase to, except those a drain has.           *)
Reset(S, to) ==
    /\ \E busy \in SUBSET {b \in S : phase[b] = "loose"} :
          phase' = [b \in Book |->
                      IF b \notin S THEN phase[b]
                      ELSE IF phase[b] = "taken" \/ b \in busy THEN "loose"
                      ELSE to]
    /\ owner' = [b \in Book |-> IF b \in S THEN {} ELSE owner[b]]
    /\ failures' = [b \in Book |-> IF b \in S THEN 0 ELSE failures[b]]
    /\ lossy' = [b \in Book |-> IF b \in S THEN FALSE ELSE lossy[b]]

Arm(S) == Reset(S, "waiting")
Remove(S) == Reset(S, "none")

(* Only a waiting job is taken: nobody has it.                               *)
Take(b, d) ==
    /\ phase[b] = "waiting"
    /\ phase' = [phase EXCEPT ![b] = "taken"]
    /\ owner' = [owner EXCEPT ![b] = {d}]
    /\ UNCHANGED <<failures, lossy>>

PutBack(b, to) ==
    /\ phase[b] = "taken"
    /\ phase' = [phase EXCEPT ![b] = to]
    /\ owner' = [owner EXCEPT ![b] = {}]

Complete(b) == PutBack(b, "completed") /\ UNCHANGED <<failures, lossy>>

(* A failure is recorded.  The job is given up at the MaxAttempts-th; one    *)
(* that was lost in between, sooner.                                         *)
Fail(b) ==
    /\ failures' = [failures EXCEPT ![b] = failures[b] + 1]
    /\ UNCHANGED lossy
    /\ \/ PutBack(b, "waiting") /\ failures[b] + 1 < MaxAttempts
       \/ PutBack(b, "failed") /\ (failures[b] + 1 = MaxAttempts \/ lossy[b])

(* Drains die, or go away without a word: their jobs wait again.             *)
Lose(S) ==
    /\ \A b \in S : phase[b] = "taken"
    /\ phase' = [b \in Book |-> IF b \in S THEN "waiting" ELSE phase[b]]
    /\ owner' = [b \in Book |-> IF b \in S THEN {} ELSE owner[b]]
    /\ lossy' = [b \in Book |-> b \in S \/ lossy[b]]
    /\ UNCHANGED failures

Next ==
    \/ \E S \in SUBSET Book : Arm(S) \/ Remove(S) \/ Lose(S)
    \/ \E b \in Book : (\E d \in Drain : Take(b, d)) \/ Complete(b) \/ Fail(b)

Spec == Init /\ [][Next]_vars
=============================================================================
