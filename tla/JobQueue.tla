-------------------------------- MODULE JobQueue --------------------------------
(***************************************************************************)
(* The backtest jobs: requests that enqueue and cancel, and the workers    *)
(* (one in each server process) that claim, execute and finish.            *)
(*                                                                         *)
(* A worker executes a job in the transaction that claimed it: the row is  *)
(* locked from the claim to the commit, other workers skip it, an UPDATE   *)
(* of it waits, and what the worker writes is seen by nobody before the    *)
(* commit.  When the process, its poll loop or its connection ends first,  *)
(* the transaction is rolled back and the job is pending again.            *)
(*                                                                         *)
(* Jobs are numbered in the order of created_at, which claim_next follows  *)
(* (the endpoint leaves the priority at its default).  created_at is when  *)
(* the transaction began, so rows may appear in another order.             *)
(***************************************************************************)
EXTENDS Naturals

CONSTANTS
  Worker,     \* the poll loops
  Call,       \* the requests to cancel, one job each
  MaxJobs,    \* bound: the jobs there may be
  Kind,       \* what may be submitted, of "good", "invalid" and "poison"
  MaxLosses   \* bound: how many transactions are lost from outside

ASSUME JobsAssumption ==
  /\ MaxJobs \in Nat /\ MaxLosses \in Nat
  /\ Kind \subseteq {"good", "invalid", "poison"}

Job == 1..MaxJobs
None == 0

VARIABLES
  status,   \* committed: the status column, "absent" before the INSERT
  kind,     \* what its configuration will do: run, raise, or break the database
  results,  \* committed: how often results of the job were stored
  work,     \* each worker's place in the code, job, and uncommitted writes
  calls,    \* each cancel request's place and job
  losses

vars == <<status, kind, results, work, calls, losses>>

Ended == {"completed", "failed", "cancelled"}
Executing == {"claimed", "prepared", "saved", "failing", "broken", "finished"}
Answers == {"cancelled", "refused", "lost"}

Without(place) == [at |-> place, job |-> None, status |-> "pending", saved |-> 0]
Resting == Without("idle")

Init ==
  /\ status = [j \in Job |-> "absent"]
  /\ kind = [j \in Job |-> "good"]
  /\ results = [j \in Job |-> 0]
  /\ work = [w \in Worker |-> Resting]
  /\ calls = [c \in Call |-> [at |-> "new", job |-> None]]
  /\ losses = 0

(* The rows that a transaction in progress has locked. *)
Locked(j) ==
  \/ \E w \in Worker : work[w].job = j
  \/ \E c \in Call : calls[c].at = "updated" /\ calls[c].job = j

(* Mutation: a plain SELECT, without FOR UPDATE SKIP LOCKED. *)
Claimable_Unlocked == {j \in Job : status[j] = "pending"}

(* What SELECT ... WHERE status = 'pending' ... SKIP LOCKED may return.    *)
Claimable == {j \in Job : status[j] = "pending" /\ ~ Locked(j)}

(* w goes on to a place in the code, with the row as it has written it.    *)
Move(w, place, outcome, n) ==
  work' = [work EXCEPT ![w] = [at |-> place, job |-> @.job, status |-> outcome, saved |-> n]]

At(w, place) == Move(w, place, work[w].status, work[w].saved)

CallAt(c, place) == calls' = [calls EXCEPT ![c] = [at |-> place, job |-> @.job]]

--------------------------------------------------------------------------------
(* The worker. *)

(* Mutation: the claim is committed before the job is executed. *)
Claim_Commits(w) ==
  /\ work[w].at = "idle"
  /\ \E j \in Claimable :
       /\ \A i \in Claimable : j <= i
       /\ work' = [work EXCEPT ![w] =
                     [at |-> "claimed", job |-> j, status |-> "running", saved |-> 0]]
       /\ status' = [status EXCEPT ![j] = "running"]
  /\ UNCHANGED <<kind, results, calls, losses>>

(* claim_next: the oldest claimable job, marked as running.  A poll that   *)
(* finds none changes nothing.                                             *)
Claim(w) ==
  /\ work[w].at = "idle"
  /\ \E j \in Claimable :
       /\ \A i \in Claimable : j <= i
       /\ work' = [work EXCEPT ![w] =
                     [at |-> "claimed", job |-> j, status |-> "running", saved |-> 0]]
  /\ UNCHANGED <<status, kind, results, calls, losses>>

(* Prices, strategies and configuration are there. *)
Prepare(w) ==
  /\ work[w].at = "claimed"
  /\ At(w, "prepared")
  /\ UNCHANGED <<status, kind, results, calls, losses>>

(* No such stock, strategy or job type, or the engine raises. *)
RaiseError(w) ==
  /\ work[w].at \in {"claimed", "prepared"}
  /\ kind[work[w].job] = "invalid"
  /\ At(w, "failing")
  /\ UNCHANGED <<status, kind, results, calls, losses>>

(* Mutation: the results are stored in a transaction of their own. *)
SaveResults_AtOnce(w) ==
  /\ work[w].at = "prepared"
  /\ kind[work[w].job] = "good"
  /\ At(w, "saved")
  /\ results' = [results EXCEPT ![work[w].job] = @ + 1]
  /\ UNCHANGED <<status, kind, calls, losses>>

(* The engine runs; its results are flushed. *)
SaveResults(w) ==
  /\ work[w].at = "prepared"
  /\ kind[work[w].job] = "good"
  /\ Move(w, "saved", work[w].status, work[w].saved + 1)
  /\ UNCHANGED <<status, kind, results, calls, losses>>

(* The INSERT fails (the joined names of eleven strategies are longer than *)
(* strategy_name); the flush rolls the transaction back, with its locks.   *)
BreakTransaction(w) ==
  /\ work[w].at = "prepared"
  /\ kind[work[w].job] = "poison"
  /\ work' = [work EXCEPT ![w] = Without("broken")]
  /\ UNCHANGED <<status, kind, results, calls, losses>>

(* complete. *)
Complete(w) ==
  /\ work[w].at = "saved"
  /\ Move(w, "finished", "completed", work[w].saved)
  /\ UNCHANGED <<status, kind, results, calls, losses>>

(* Mutation: the handler only logs the error. *)
Fail_OnlyLogs(w) ==
  /\ work[w].at = "failing"
  /\ work' = [work EXCEPT ![w] = Resting]
  /\ UNCHANGED <<status, kind, results, calls, losses>>

(* fail, after an error in Python. *)
Fail(w) ==
  /\ work[w].at = "failing"
  /\ Move(w, "finished", "failed", work[w].saved)
  /\ UNCHANGED <<status, kind, results, calls, losses>>

Commit(w) ==
  /\ work[w].at = "finished"
  /\ status' = [status EXCEPT ![work[w].job] = work[w].status]
  /\ results' = [results EXCEPT ![work[w].job] = @ + work[w].saved]
  /\ work' = [work EXCEPT ![w] = Resting]
  /\ UNCHANGED <<kind, calls, losses>>

(* Mutation: the session is not closed, its locks stay. *)
Rollback_KeepsLock(w) == At(w, "idle")

Rollback(w) == work' = [work EXCEPT ![w] = Resting]

(* fail raises as well, the session having no transaction any more; the    *)
(* poll loop logs that, and the session closes.                            *)
FailRaises(w) ==
  /\ work[w].at = "broken"
  /\ Rollback(w)
  /\ UNCHANGED <<status, kind, results, calls, losses>>

(* The server goes down, stop cancels the task, or the connection breaks.  *)
LoseWorker(w) ==
  /\ work[w].at \in Executing
  /\ losses < MaxLosses
  /\ losses' = losses + 1
  /\ Rollback(w)
  /\ UNCHANGED <<status, kind, results, calls>>

--------------------------------------------------------------------------------
(* The requests. *)

(* enqueue_job, committed; one that is lost inserts nothing. *)
Enqueue(j) ==
  /\ status[j] = "absent"
  /\ status' = [status EXCEPT ![j] = "pending"]
  /\ \E k \in Kind : kind' = [kind EXCEPT ![j] = k]
  /\ UNCHANGED <<results, work, calls, losses>>

(* cancel_job sends its UPDATE ... *)
AskCancel(c, j) ==
  /\ calls[c].at = "new"
  /\ status[j] # "absent"
  /\ calls' = [calls EXCEPT ![c] = [at |-> "asked", job |-> j]]
  /\ UNCHANGED <<status, kind, results, work, losses>>

(* Mutation: UPDATE without status = 'pending'. *)
CancelUpdate_AnyStatus(c) ==
  /\ calls[c].at = "asked"
  /\ ~ Locked(calls[c].job)
  /\ CallAt(c, "updated")
  /\ UNCHANGED <<status, kind, results, work, losses>>

(* ... which waits for the row and then looks at its status again. *)
CancelUpdate(c) ==
  /\ calls[c].at = "asked"
  /\ ~ Locked(calls[c].job)
  /\ CallAt(c, IF status[calls[c].job] = "pending" THEN "updated" ELSE "refused")
  /\ UNCHANGED <<status, kind, results, work, losses>>

CancelCommit(c) ==
  /\ calls[c].at = "updated"
  /\ status' = [status EXCEPT ![calls[c].job] = "cancelled"]
  /\ CallAt(c, "cancelled")
  /\ UNCHANGED <<kind, results, work, losses>>

LoseCall(c) ==
  /\ calls[c].at \in {"asked", "updated"}
  /\ losses < MaxLosses
  /\ losses' = losses + 1
  /\ CallAt(c, "lost")
  /\ UNCHANGED <<status, kind, results, work>>

Statement(w) ==
  \/ Claim(w) \/ Prepare(w) \/ RaiseError(w) \/ SaveResults(w) \/ BreakTransaction(w)
  \/ Complete(w) \/ Fail(w) \/ Commit(w) \/ FailRaises(w)

Next ==
  \/ \E w \in Worker : Statement(w) \/ LoseWorker(w)
  \/ \E j \in Job : Enqueue(j)
  \/ \E c \in Call :
       \/ \E j \in Job : AskCancel(c, j)
       \/ CancelUpdate(c) \/ CancelCommit(c) \/ LoseCall(c)

JobSpec == Init /\ [][Next]_vars

(* The poll loops go on, and so do requests; PostgreSQL wakes an UPDATE    *)
(* that waits when the row is released, long before the next poll.         *)
FairJobSpec ==
  /\ JobSpec
  /\ \A w \in Worker : WF_vars(Statement(w))
  /\ \A c \in Call : SF_vars(CancelUpdate(c)) /\ WF_vars(CancelCommit(c))

--------------------------------------------------------------------------------
(* Properties. *)

(* Types; in particular a worker has a job while it executes one, unless   *)
(* the transaction is gone.                                                *)
JobsTypeOK ==
  /\ status \in [Job -> {"absent", "pending", "running"} \cup Ended]
  /\ kind \in [Job -> {"good", "invalid", "poison"}]
  /\ results \in [Job -> Nat]
  /\ work \in [Worker -> [at : {"idle"} \cup Executing, job : Job \cup {None},
                          status : {"pending", "running"} \cup Ended, saved : Nat]]
  /\ \A w \in Worker : work[w].job = None <=> work[w].at \in {"idle", "broken"}
  /\ calls \in [Call -> [at : {"new", "asked", "updated"} \cup Answers, job : Job \cup {None}]]
  /\ \A c \in Call : calls[c].job = None <=> calls[c].at = "new"
  /\ losses \in 0..MaxLosses

(* No job is executed by two workers at once (claim_next: "without         *)
(* contention or double-processing"), nor cancelled while it is executed.  *)
OneHolder ==
  /\ \A w, v \in Worker : work[w].job = work[v].job /\ work[w].job # None => w = v
  /\ \A c \in Call : calls[c].at = "updated" =>
       /\ \A w \in Worker : work[w].job # calls[c].job
       /\ \A d \in Call : calls[d].at = "updated" /\ calls[d].job = calls[c].job => d = c

(* Whatever crashes, a job that has not ended is in somebody's hands or    *)
(* can be claimed: there is no reaper for jobs left "running".             *)
NoJobStranded ==
  \A j \in Job :
    status[j] \in {"absent"} \cup Ended \/ Locked(j) \/ j \in Claimable

(* A cancel answered with success is final: the job never runs to results; *)
(* a refused one was too late, and never leaves a job to run (cancel:      *)
(* "Only jobs in 'pending' status can be cancelled").                      *)
CancelAnswers ==
  \A c \in Call :
    /\ calls[c].at = "cancelled" => status[calls[c].job] = "cancelled"
                                      /\ results[calls[c].job] = 0
    /\ calls[c].at = "refused" => status[calls[c].job] \in Ended

(* Seen from outside, a job ends once and its results appear with its      *)
(* completion, exactly once, however often it was started.                 *)
Board == INSTANCE JobBoard WITH outcome <- status
ImplementsJobBoard == Board!BoardSpec

PoisonWaits == \E i \in Job : kind[i] = "poison" /\ status[i] = "pending"

(* Every job ends, provided that no job breaks its transaction. *)
JobsEndUnlessPoisoned ==
  \A j \in Job : status[j] = "pending" ~> status[j] \in Ended \/ PoisonWaits

(* Every cancel request is answered, even if its job runs for long or is   *)
(* started over and over.                                                  *)
CallsAnswered == \A c \in Call : calls[c].at = "asked" ~> calls[c].at \in Answers

(* Every job that can be executed is (job_worker.py, class docstring:      *)
(* "polls the job queue and executes backtest jobs"): another job that     *)
(* fails is marked as failed, out of its way (fail: "Mark a job as failed  *)
(* with an error message").                                                *)
GoodJobsEnd ==
  \A j \in Job : status[j] = "pending" /\ kind[j] = "good" ~> status[j] \in Ended
================================================================================
