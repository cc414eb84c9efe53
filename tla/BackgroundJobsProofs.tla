-------------------------- MODULE BackgroundJobsProofs --------------------------
(***************************************************************************)
(* The work the server does beside its requests, for any number of         *)
(* processes.  The backtest queue: its safety invariants, and that it      *)
(* implements JobBoard.  The alerts: what a rule says, and how often it    *)
(* sends a message, while evaluations and users change it.                 *)
(***************************************************************************)
EXTENDS JobQueue, Alerts, FifoEngineProofs


(* Whoever holds a job holds one that everybody else still sees pending,   *)
(* and a request to cancel names a job that was there.                     *)
HeldJobsPending ==
  /\ \A w \in Worker : work[w].job # None => status[work[w].job] = "pending"
  /\ \A c \in Call : calls[c].at = "updated" => status[calls[c].job] = "pending"
  /\ \A c \in Call : calls[c].at # "new" => status[calls[c].job] # "absent"

(* What a worker has written so far follows from its place in the code. *)
DraftFollowsCode ==
  \A w \in Worker :
    /\ work[w].at \in {"claimed", "prepared", "failing", "broken"} => work[w].saved = 0
    /\ work[w].at = "saved" => work[w].saved = 1
    /\ work[w].at = "finished" =>
         \/ work[w].status = "completed" /\ work[w].saved = 1
         \/ work[w].status = "failed" /\ work[w].saved = 0

(* Nobody is shown a running job, or results of one that is not completed. *)
CommittedIsWhole ==
  \A j \in Job : status[j] # "running" /\ (status[j] # "completed" => results[j] = 0)

JobInv ==
  JobsTypeOK /\ OneHolder /\ HeldJobsPending /\ DraftFollowsCode /\ CommittedIsWhole
    /\ CancelAnswers

LEMMA InitJobs == Init => JobInv
  <1> SUFFICES ASSUME Init PROVE JobInv
    OBVIOUS
  <1>1. JobsTypeOK
    BY JobsAssumption, SMT DEF Init, JobsTypeOK, Resting, Without, None, Job, Ended, Executing, Answers
  <1>2. OneHolder /\ HeldJobsPending /\ DraftFollowsCode /\ CommittedIsWhole /\ CancelAnswers
    BY SMT DEF Init, OneHolder, HeldJobsPending, DraftFollowsCode, CommittedIsWhole,
               CancelAnswers, Resting, Without, None
  <1> QED
    BY <1>1, <1>2 DEF JobInv

WorkRow == [at : {"idle"} \cup Executing, job : Job \cup {None},
            status : {"pending", "running"} \cup Ended, saved : Nat]

RowHasJob(row) == row.job = None <=> row.at \in {"idle", "broken"}

DraftOK(row) ==
  /\ row.at \in {"claimed", "prepared", "failing", "broken"} => row.saved = 0
  /\ row.at = "saved" => row.saved = 1
  /\ row.at = "finished" =>
       \/ row.status = "completed" /\ row.saved = 1
       \/ row.status = "failed" /\ row.saved = 0

(* A statement that writes nothing visible and keeps the job, or gives it  *)
(* up, keeps the invariant.                                                *)
LEMMA OwnStatementKeeps ==
  ASSUME JobInv, NEW w \in Worker, NEW row \in WorkRow, DraftOK(row),
         RowHasJob(row),
         row.job = work[w].job \/ row.job = None,
         work' = [work EXCEPT ![w] = row],
         losses' \in 0..MaxLosses,
         UNCHANGED <<status, kind, results, calls>>
  PROVE  JobInv'
  <1> USE DEF JobInv
  <1>1. JobsTypeOK'
    BY DEF JobsTypeOK, WorkRow, RowHasJob
  <1>2. OneHolder'
    BY DEF OneHolder, JobsTypeOK
  <1>3. HeldJobsPending'
    BY DEF HeldJobsPending, JobsTypeOK
  <1>4. DraftFollowsCode'
    BY DEF DraftFollowsCode, DraftOK, JobsTypeOK
  <1>5. (CommittedIsWhole /\ CancelAnswers)'
    BY DEF CommittedIsWhole, CancelAnswers
  <1> QED
    BY <1>1, <1>2, <1>3, <1>4, <1>5

LEMMA ClaimKeeps ==
  ASSUME JobInv, NEW w \in Worker, Claim(w)
  PROVE  JobInv'
  <1>1. PICK j \in Claimable : work' = [work EXCEPT ![w] =
          [at |-> "claimed", job |-> j, status |-> "running", saved |-> 0]]
    BY DEF Claim
  <1>2. j \in Job /\ status[j] = "pending" /\ ~ Locked(j)
    BY <1>1 DEF Claimable
  <1>3. j # None
    BY <1>2, JobsAssumption DEF Job, None
  <1>4. UNCHANGED <<status, kind, results, calls, losses>>
    BY DEF Claim
  <1> USE DEF JobInv
  <1>5. JobsTypeOK'
    BY <1>1, <1>2, <1>3, <1>4 DEF JobsTypeOK, Executing
  <1>6. OneHolder'
    BY <1>1, <1>2, <1>3, <1>4 DEF OneHolder, JobsTypeOK, Locked
  <1>7. HeldJobsPending'
    BY <1>1, <1>2, <1>3, <1>4 DEF HeldJobsPending, JobsTypeOK
  <1>8. DraftFollowsCode'
    BY <1>1, <1>4 DEF DraftFollowsCode, JobsTypeOK
  <1>9. (CommittedIsWhole /\ CancelAnswers)'
    BY <1>4 DEF CommittedIsWhole, CancelAnswers
  <1> QED
    BY <1>5, <1>6, <1>7, <1>8, <1>9

LEMMA CommitKeeps ==
  ASSUME JobInv, NEW w \in Worker, Commit(w)
  PROVE  JobInv'
  <1> DEFINE j == work[w].job
  <1> USE DEF JobInv
  <1>1. j \in Job /\ j # None /\ status[j] = "pending" /\ results[j] = 0
    BY DEF Commit, JobsTypeOK, HeldJobsPending, CommittedIsWhole
  <1>2. \/ work[w].status = "completed" /\ work[w].saved = 1
        \/ work[w].status = "failed" /\ work[w].saved = 0
    BY DEF Commit, DraftFollowsCode
  <1>3. /\ status' = [status EXCEPT ![j] = work[w].status]
        /\ results' = [results EXCEPT ![j] = results[j] + work[w].saved]
        /\ work' = [work EXCEPT ![w] = Resting]
        /\ UNCHANGED <<kind, calls, losses>>
    BY <1>1 DEF Commit, JobsTypeOK
  <1> HIDE DEF j
  <1>4. JobsTypeOK'
    BY <1>1, <1>2, <1>3 DEF JobsTypeOK, Resting, Without, Ended
  <1>5. OneHolder'
    BY <1>3 DEF OneHolder, JobsTypeOK, Resting, Without
  <1>6. HeldJobsPending'
    <2>1. \A v \in Worker : v # w => work[v].job # j
      BY <1>1 DEF OneHolder, JobsTypeOK, j
    <2>2. \A c \in Call : calls[c].at = "updated" => calls[c].job # j
      BY DEF OneHolder, j
    <2> QED
      BY <2>1, <2>2, <1>1, <1>2, <1>3 DEF HeldJobsPending, JobsTypeOK, Resting, Without
  <1>7. DraftFollowsCode'
    BY <1>3 DEF DraftFollowsCode, JobsTypeOK, Resting, Without
  <1>8. CommittedIsWhole'
    BY <1>1, <1>2, <1>3 DEF CommittedIsWhole, JobsTypeOK
  <1>9. CancelAnswers'
    BY <1>1, <1>2, <1>3 DEF CancelAnswers, JobsTypeOK, Ended
  <1> QED
    BY <1>4, <1>5, <1>6, <1>7, <1>8, <1>9

LEMMA WorkerKeeps ==
  ASSUME JobInv, NEW w \in Worker, Statement(w) \/ LoseWorker(w)
  PROVE  JobInv'
  <1> DEFINE row == work[w]
  <1>1. /\ row \in WorkRow /\ DraftOK(row) /\ RowHasJob(row)
        /\ losses \in 0..MaxLosses /\ work \in [Worker -> WorkRow]
    BY DEF JobInv, JobsTypeOK, WorkRow, DraftFollowsCode, DraftOK, RowHasJob
  <1>2. CASE Claim(w)
    BY <1>2, ClaimKeeps
  <1>3. CASE Commit(w)
    BY <1>3, CommitKeeps
  <1>4. CASE Prepare(w) \/ RaiseError(w)
    <2>1. PICK place \in {"prepared", "failing"} :
            work' = [work EXCEPT ![w] = [at |-> place, job |-> row.job,
                                         status |-> row.status, saved |-> row.saved]]
      BY <1>4 DEF Prepare, RaiseError, At, Move
    <2> DEFINE new == [at |-> place, job |-> row.job, status |-> row.status, saved |-> row.saved]
    <2>2. row.at \in {"claimed", "prepared"}
      BY <1>4 DEF Prepare, RaiseError
    <2>3. work' = [work EXCEPT ![w] = new]
      BY <1>1, <2>1 DEF WorkRow
    <2>4. new \in WorkRow /\ DraftOK(new) /\ RowHasJob(new)
      BY <1>1, <2>1, <2>2 DEF WorkRow, DraftOK, RowHasJob, Executing
    <2>5. UNCHANGED <<status, kind, results, calls, losses>>
      BY <1>4 DEF Prepare, RaiseError
    <2>6. new.job = work[w].job
      OBVIOUS
    <2> HIDE DEF new, row
    <2> QED
      BY <1>1, <2>3, <2>4, <2>5, <2>6, OwnStatementKeeps
  <1>5. CASE SaveResults(w) \/ Complete(w) \/ Fail(w)
    <2>1. PICK new \in WorkRow :
            /\ work' = [work EXCEPT ![w] = new]
            /\ DraftOK(new) /\ RowHasJob(new) /\ new.job = work[w].job
      <3>1. CASE SaveResults(w)
        <4> DEFINE new == [at |-> "saved", job |-> row.job, status |-> row.status,
                           saved |-> row.saved + 1]
        <4>1. work' = [work EXCEPT ![w] = new] /\ row.at = "prepared"
          BY <3>1 DEF SaveResults, Move
        <4>2. new \in WorkRow /\ DraftOK(new) /\ RowHasJob(new)
          BY <1>1, <4>1 DEF WorkRow, DraftOK, RowHasJob, Executing
        <4> QED
          BY <4>1, <4>2
      <3>2. CASE Complete(w)
        <4> DEFINE new == [at |-> "finished", job |-> row.job, status |-> "completed",
                           saved |-> row.saved]
        <4>1. work' = [work EXCEPT ![w] = new] /\ row.at = "saved"
          BY <3>2 DEF Complete, Move
        <4>2. new \in WorkRow /\ DraftOK(new) /\ RowHasJob(new)
          BY <1>1, <4>1 DEF WorkRow, DraftOK, RowHasJob, Executing, Ended
        <4> QED
          BY <4>1, <4>2
      <3>3. CASE Fail(w)
        <4> DEFINE new == [at |-> "finished", job |-> row.job, status |-> "failed",
                           saved |-> row.saved]
        <4>1. work' = [work EXCEPT ![w] = new] /\ row.at = "failing"
          BY <3>3 DEF Fail, Move
        <4>2. new \in WorkRow /\ DraftOK(new) /\ RowHasJob(new)
          BY <1>1, <4>1 DEF WorkRow, DraftOK, RowHasJob, Executing, Ended
        <4> QED
          BY <4>1, <4>2
      <3> QED
        BY <1>5, <3>1, <3>2, <3>3
    <2>2. UNCHANGED <<status, kind, results, calls, losses>>
      BY <1>5 DEF SaveResults, Complete, Fail
    <2> QED
      BY <1>1, <2>1, <2>2, OwnStatementKeeps
  <1>6. CASE BreakTransaction(w) \/ FailRaises(w) \/ LoseWorker(w)
    <2>1. PICK place \in {"idle", "broken"} :
            work' = [work EXCEPT ![w] = Without(place)] /\ UNCHANGED <<status, kind, results, calls>>
      BY <1>6 DEF BreakTransaction, FailRaises, LoseWorker, Rollback, Resting
    <2>2. losses' \in 0..MaxLosses
      BY <1>1, <1>6, JobsAssumption DEF BreakTransaction, FailRaises, LoseWorker
    <2>3. Without(place) \in WorkRow /\ DraftOK(Without(place)) /\ RowHasJob(Without(place))
            /\ Without(place).job = None
      BY <2>1 DEF Without, WorkRow, DraftOK, RowHasJob, None, Executing
    <2> QED
      BY <2>1, <2>2, <2>3, OwnStatementKeeps
  <1> QED
    BY <1>2, <1>3, <1>4, <1>5, <1>6 DEF Statement

(* The requests. *)
LEMMA EnqueueKeeps ==
  ASSUME JobInv, NEW j \in Job, Enqueue(j)
  PROVE  JobInv'
  <1> USE DEF JobInv
  <1>1. PICK k \in Kind : kind' = [kind EXCEPT ![j] = k]
    BY DEF Enqueue
  <1>2. k \in {"good", "invalid", "poison"}
    BY JobsAssumption
  <1>3. /\ status[j] = "absent" /\ status' = [status EXCEPT ![j] = "pending"]
        /\ UNCHANGED <<results, work, calls, losses>>
    BY DEF Enqueue
  <1>4. JobsTypeOK'
    BY <1>1, <1>2, <1>3 DEF JobsTypeOK
  <1>5. (OneHolder /\ DraftFollowsCode)'
    BY <1>3 DEF OneHolder, DraftFollowsCode
  <1>6. HeldJobsPending'
    BY <1>3 DEF HeldJobsPending, JobsTypeOK
  <1>7. CommittedIsWhole'
    BY <1>3 DEF CommittedIsWhole, JobsTypeOK
  <1>8. CancelAnswers'
    BY <1>3 DEF CancelAnswers, JobsTypeOK, Ended
  <1> QED
    BY <1>4, <1>5, <1>6, <1>7, <1>8

LEMMA CallKeeps ==
  ASSUME JobInv, NEW c \in Call,
         \/ \E j \in Job : AskCancel(c, j)
         \/ CancelUpdate(c) \/ CancelCommit(c) \/ LoseCall(c)
  PROVE  JobInv'
  <1> USE DEF JobInv
  <1>1. CASE \E j \in Job : AskCancel(c, j)
    <2>1. PICK j \in Job : AskCancel(c, j)
      BY <1>1
    <2>2. j # None
      BY JobsAssumption DEF Job, None
    <2>3. JobsTypeOK'
      BY <2>1, <2>2 DEF AskCancel, JobsTypeOK
    <2>4. (OneHolder /\ HeldJobsPending /\ DraftFollowsCode /\ CommittedIsWhole)'
      BY <2>1 DEF AskCancel, OneHolder, HeldJobsPending, DraftFollowsCode, CommittedIsWhole,
                  JobsTypeOK
    <2>5. CancelAnswers'
      BY <2>1 DEF AskCancel, CancelAnswers, JobsTypeOK
    <2> QED
      BY <2>3, <2>4, <2>5
  <1>2. CASE CancelUpdate(c)
    <2> DEFINE j == calls[c].job
    <2>1. /\ j \in Job /\ j # None /\ ~ Locked(j) /\ calls[c].at = "asked"
          /\ UNCHANGED <<status, kind, results, work, losses>>
      BY <1>2 DEF CancelUpdate, JobsTypeOK
    <2>2. \/ status[j] = "pending" /\ CallAt(c, "updated")
          \/ status[j] # "pending" /\ CallAt(c, "refused")
      BY <1>2 DEF CancelUpdate
    <2>3. status[j] # "pending" => status[j] \in Ended
      BY <1>2, <2>1 DEF CancelUpdate, JobsTypeOK, CommittedIsWhole, HeldJobsPending
    <2> HIDE DEF j
    <2>4. JobsTypeOK'
      BY <2>1, <2>2 DEF CallAt, JobsTypeOK, Answers, j
    <2>5. OneHolder'
      BY <2>1, <2>2, SMTT(30) DEF CallAt, JobsTypeOK, OneHolder, Locked, j
    <2>6. HeldJobsPending'
      <3>1. PICK place \in {"updated", "refused"} :
              /\ calls' = [calls EXCEPT ![c] = [at |-> place, job |-> j]]
              /\ place = "updated" => status[j] = "pending"
        BY <2>2 DEF CallAt, j
      <3>2. /\ status[j] # "absent"
            /\ calls'[c].at = place /\ calls'[c].job = j
            /\ \A d \in Call : d # c => calls'[d] = calls[d]
        BY <2>1, <3>1 DEF JobsTypeOK, HeldJobsPending, j
      <3> QED
        BY <2>1, <3>1, <3>2 DEF HeldJobsPending
    <2>7. (DraftFollowsCode /\ CommittedIsWhole)'
      BY <2>1 DEF DraftFollowsCode, CommittedIsWhole
    <2>8. CancelAnswers'
      BY <2>1, <2>2, <2>3 DEF CallAt, JobsTypeOK, CancelAnswers, j
    <2> QED
      BY <2>4, <2>5, <2>6, <2>7, <2>8
  <1>3. CASE CancelCommit(c)
    <2> DEFINE j == calls[c].job
    <2>1. /\ j \in Job /\ j # None /\ status[j] = "pending" /\ results[j] = 0
          /\ calls[c].at = "updated"
      BY <1>3 DEF CancelCommit, JobsTypeOK, HeldJobsPending, CommittedIsWhole
    <2>2. /\ status' = [status EXCEPT ![j] = "cancelled"] /\ CallAt(c, "cancelled")
          /\ UNCHANGED <<kind, results, work, losses>>
      BY <1>3 DEF CancelCommit
    <2>3. \A w \in Worker : work[w].job # j
      BY <2>1 DEF OneHolder
    <2>4. \A d \in Call : d # c /\ calls[d].at = "updated" => calls[d].job # j
      BY <2>1 DEF OneHolder
    <2> HIDE DEF j
    <2>5. JobsTypeOK'
      BY <2>1, <2>2 DEF CallAt, JobsTypeOK, Answers, Ended, j
    <2>6. (OneHolder /\ DraftFollowsCode)'
      BY <2>2 DEF CallAt, JobsTypeOK, OneHolder, DraftFollowsCode
    <2>7. HeldJobsPending'
      BY <2>1, <2>2, <2>3, <2>4 DEF CallAt, JobsTypeOK, HeldJobsPending
    <2>8. CommittedIsWhole'
      BY <2>1, <2>2 DEF CommittedIsWhole, JobsTypeOK
    <2>9. CancelAnswers'
      BY <2>1, <2>2 DEF CallAt, JobsTypeOK, CancelAnswers, Ended, j
    <2> QED
      BY <2>5, <2>6, <2>7, <2>8, <2>9
  <1>4. CASE LoseCall(c)
    <2>1. /\ CallAt(c, "lost") /\ losses' \in 0..MaxLosses /\ calls[c].at # "new"
          /\ UNCHANGED <<status, kind, results, work>>
      BY <1>4, JobsAssumption DEF LoseCall, JobsTypeOK
    <2>2. JobsTypeOK'
      BY <2>1 DEF CallAt, JobsTypeOK, Answers
    <2>3. (OneHolder /\ HeldJobsPending /\ DraftFollowsCode /\ CommittedIsWhole)'
      BY <2>1 DEF CallAt, JobsTypeOK, OneHolder, HeldJobsPending, DraftFollowsCode,
                  CommittedIsWhole
    <2>4. CancelAnswers'
      BY <2>1 DEF CallAt, JobsTypeOK, CancelAnswers
    <2> QED
      BY <2>2, <2>3, <2>4
  <1> QED
    BY <1>1, <1>2, <1>3, <1>4

LEMMA JobsStep == JobInv /\ [Next]_vars => JobInv'
  <1> SUFFICES ASSUME JobInv, [Next]_vars PROVE JobInv'
    OBVIOUS
  <1>1. CASE UNCHANGED vars
    BY <1>1 DEF vars, JobInv, JobsTypeOK, OneHolder, HeldJobsPending, DraftFollowsCode,
                CommittedIsWhole, CancelAnswers
  <1>2. CASE \E w \in Worker : Statement(w) \/ LoseWorker(w)
    BY <1>2, WorkerKeeps
  <1>3. CASE \E j \in Job : Enqueue(j)
    BY <1>3, EnqueueKeeps
  <1>4. CASE \E c \in Call :
               \/ \E j \in Job : AskCancel(c, j)
               \/ CancelUpdate(c) \/ CancelCommit(c) \/ LoseCall(c)
    BY <1>4, CallKeeps
  <1> QED
    BY <1>1, <1>2, <1>3, <1>4 DEF Next

LEMMA JobsInvariant == JobSpec => []JobInv
  BY InitJobs, JobsStep, PTL DEF JobSpec

(* The tables, workers and requests keep their types (job_queue.py,        *)
(* job_worker.py), for any number of each.                                 *)
THEOREM JobsTypes == JobSpec => []JobsTypeOK
  <1>1. JobInv => JobsTypeOK
    BY DEF JobInv
  <1> QED
    BY <1>1, JobsInvariant, PTL

(* Any number of workers may poll: no job is ever in the hands of two, or  *)
(* cancelled in the hands of one (claim_next, cancel).                     *)
THEOREM JobsHaveOneHolder == JobSpec => []OneHolder
  <1>1. JobInv => OneHolder
    BY DEF JobInv
  <1> QED
    BY <1>1, JobsInvariant, PTL

(* However often workers and connections are lost, no job is left in a     *)
(* state that no poll will find: _poll_loop commits the claim together     *)
(* with the outcome, or not at all.                                        *)
THEOREM JobsNeverStranded == JobSpec => []NoJobStranded
  <1>1. JobInv => NoJobStranded
    BY DEF JobInv, JobsTypeOK, CommittedIsWhole, NoJobStranded, Claimable
  <1> QED
    BY <1>1, JobsInvariant, PTL

(* The answer to a cancel request stays true for ever (cancel).            *)
THEOREM CancelAnswersStand == JobSpec => []CancelAnswers
  <1>1. JobInv => CancelAnswers
    BY DEF JobInv
  <1> QED
    BY <1>1, JobsInvariant, PTL

LEMMA BoardInit == Init => Board!InitBoard
  BY DEF Init, Board!InitBoard

(* Only three steps are seen on the board; each is a move of it. *)
LEMMA BoardStep == JobInv /\ [Next]_vars => [Board!BoardNext]_(Board!boardVars)
  <1> SUFFICES ASSUME JobInv, Next
               PROVE  Board!BoardNext \/ UNCHANGED <<status, results>>
    BY DEF vars, Board!boardVars
  <1>1. CASE \E w \in Worker : Commit(w)
    <2>1. PICK w \in Worker : Commit(w)
      BY <1>1
    <2> DEFINE j == work[w].job
               how == work[w].status
    <2>2. j \in Job /\ status[j] = "pending" /\ results[j] = 0
      BY <2>1 DEF Commit, JobInv, JobsTypeOK, HeldJobsPending, CommittedIsWhole
    <2>3. \/ how = "completed" /\ work[w].saved = 1
          \/ how = "failed" /\ work[w].saved = 0
      BY <2>1 DEF Commit, JobInv, DraftFollowsCode
    <2>4. /\ status' = [status EXCEPT ![j] = how]
          /\ results' = [results EXCEPT ![j] = IF how = "completed" THEN 1 ELSE 0]
      <3>1. /\ status' = [status EXCEPT ![j] = how]
            /\ results' = [results EXCEPT ![j] = results[j] + work[w].saved]
        BY <2>1 DEF Commit
      <3>2. results[j] + work[w].saved = IF how = "completed" THEN 1 ELSE 0
        BY <2>2, <2>3
      <3> QED
        BY <3>1, <3>2
    <2>5. Board!End(j, how) /\ how \in {"completed", "failed", "cancelled"}
      BY <2>2, <2>3, <2>4 DEF Board!End
    <2> QED
      BY <2>2, <2>5 DEF Board!BoardNext
  <1>2. CASE \E j \in Job : Enqueue(j)
    BY <1>2 DEF Enqueue, Board!BoardNext, Board!Submit
  <1>3. CASE \E c \in Call : CancelCommit(c)
    <2>1. PICK c \in Call : CancelCommit(c)
      BY <1>3
    <2> DEFINE j == calls[c].job
    <2>2. /\ j \in Job /\ status[j] = "pending" /\ results[j] = 0
          /\ results \in [Job -> Nat]
      BY <2>1 DEF CancelCommit, JobInv, JobsTypeOK, HeldJobsPending, CommittedIsWhole
    <2>3. /\ status' = [status EXCEPT ![j] = "cancelled"]
          /\ results' = [results EXCEPT ![j] = 0]
      BY <2>1, <2>2 DEF CancelCommit
    <2>4. Board!End(j, "cancelled")
      BY <2>2, <2>3 DEF Board!End
    <2> QED
      BY <2>2, <2>4 DEF Board!BoardNext
  <1>4. CASE \E w \in Worker : \/ Claim(w) \/ Prepare(w) \/ RaiseError(w) \/ SaveResults(w)
                               \/ BreakTransaction(w) \/ Complete(w) \/ Fail(w)
                               \/ FailRaises(w) \/ LoseWorker(w)
    BY <1>4 DEF Claim, Prepare, RaiseError, SaveResults, BreakTransaction, Complete, Fail,
                FailRaises, LoseWorker
  <1>5. CASE \E c \in Call : \/ \E j \in Job : AskCancel(c, j)
                             \/ CancelUpdate(c) \/ LoseCall(c)
    BY <1>5 DEF AskCancel, CancelUpdate, LoseCall
  <1> QED
    BY <1>1, <1>2, <1>3, <1>4, <1>5 DEF Next, Statement

(* Workers, locks, retries and losses together show what JobBoard          *)
(* promises: every job ends at most once, with its results if and only if  *)
(* it completed (_poll_loop, _execute_job, complete, fail, cancel).        *)
THEOREM JobsImplementBoard == JobSpec => ImplementsJobBoard
  BY JobsInvariant, BoardInit, BoardStep, PTL DEF JobSpec, ImplementsJobBoard, Board!BoardSpec

--------------------------------------------------------------------------------
(* The alerts. *)

Columns == {"users", "rules", "hits", "seen", "wrote", "sent"}

TxnSound(c) ==
  /\ pc[c] \in IF c \in Scheduler THEN {"idle", "user", "rule", "mark"}
                                  ELSE {"idle", "edit", "rule", "mark"}
  /\ DOMAIN txn[c] = Columns
  /\ txn[c].users \subseteq User /\ txn[c].rules \subseteq Rule /\ txn[c].sent \subseteq Rule
  /\ DOMAIN txn[c].seen \subseteq Rule /\ \A r \in DOMAIN txn[c].seen : txn[c].seen[r] \in Kept
  /\ DOMAIN txn[c].wrote \subseteq Rule /\ \A r \in DOMAIN txn[c].wrote : txn[c].wrote[r] \in Kept
  /\ pc[c] = "idle" => txn[c] = NoTxn
  /\ pc[c] \in {"user", "edit"} <=> pc[c] # "idle" /\ txn[c].rules = {}
  /\ pc[c] \in {"rule", "mark"} => txn[c].rules \subseteq DOMAIN txn[c].seen
  /\ pc[c] = "mark" => NextRule(c) \in txn[c].hits
  /\ c \in Client => txn[c].wrote = <<>>

(* A run that has anything to do with a rule is done listing its user's,   *)
(* and has it in hand or written, not both.                                *)
ListedOnce(c) ==
  /\ \A r \in txn[c].rules \cup DOMAIN txn[c].wrote \cup txn[c].sent :
       OwnerOf[r] \notin txn[c].users
  /\ txn[c].rules \cap DOMAIN txn[c].wrote = {}

(* Rows are locked by one transaction at most, and not deleted under it.   *)
RowsLocked ==
  /\ \A c, d \in Connection :
       c # d => DOMAIN txn[c].wrote \cap DOMAIN txn[d].wrote = {}
  /\ \A c \in Connection : \A r \in DOMAIN txn[c].wrote : ruleStatus[r] \in Kept
  /\ \A c \in Connection : \A r \in txn[c].rules : ruleStatus[r] # "new"

AlertsSound ==
  /\ ruleStatus \in [Rule -> Kept \cup {"new", "gone"}]
  /\ DOMAIN intent = Rule /\ credit \in [Rule -> Int]
  /\ DOMAIN pc = Connection /\ DOMAIN txn = Connection
  /\ \A c \in Connection : TxnSound(c) /\ ListedOnce(c)
  /\ RowsLocked

(* What the user of r will stand for.                                      *)
Meant(r, value) == value = intent[r] \/ (value = "TRIGGERED" /\ r \in told)

(* Not only the committed status is meant, but also what an evaluation     *)
(* has read, written or is about to write.                                 *)
WordInv ==
  \A r \in Rule \ crossed :
    /\ Meant(r, ruleStatus[r])
    /\ \A c \in Connection :
         /\ r \in txn[c].rules => Meant(r, txn[c].seen[r])
         /\ r \in DOMAIN txn[c].wrote => Meant(r, txn[c].wrote[r])
         /\ pc[c] = "mark" /\ r = NextRule(c) => r \in told

(* The message of r is out, and the row is not yet written.                *)
ToldNow(c, r) == pc[c] = "mark" /\ r = NextRule(c)

(* Whoever may still send a message of r has credit for it, or it is out   *)
(* and comes back with a rollback.                                         *)
CreditInv ==
  \A r \in Rule \ met :
    /\ \A c, d \in Connection : Evaluating(c, r) /\ Evaluating(d, r) => c = d
    /\ credit[r] >= 0
    /\ ruleStatus[r] = "ACTIVE" => credit[r] >= 1 \/ \E c \in Connection : r \in txn[c].sent
    /\ \A c \in Connection :
         /\ r \in txn[c].rules /\ ~ ToldNow(c, r) => credit[r] >= 1
         /\ r \in DOMAIN txn[c].wrote /\ txn[c].wrote[r] = "ACTIVE" => credit[r] >= 1
         /\ r \in txn[c].sent => \/ r \in DOMAIN txn[c].wrote /\ txn[c].wrote[r] = "TRIGGERED"
                                 \/ ToldNow(c, r)
                                 \/ ruleStatus[r] = "gone"

AlertsInv == AlertsSound /\ WordInv /\ CreditInv

--------------------------------------------------------------------------------
(* What a connection does next is one of the rules it has in hand. *)
LEMMA NextRuleInHand ==
  ASSUME NEW c, txn[c].rules \subseteq Rule, txn[c].rules # {}
  PROVE  NextRule(c) \in txn[c].rules
<1> DEFINE T == txn[c].rules
<1>1. T \in SUBSET Nat /\ T # {}
  BY AlertsAssumption
<1>2. \E n \in T : \A m \in T : n <= m
  <2> HIDE DEF T
  <2> QED BY <1>1, LeastNat
<1> QED BY <1>2 DEF NextRule

LEMMA NextRuleSame ==
  ASSUME NEW c, txn'[c].rules = txn[c].rules
  PROVE  NextRule(c)' = NextRule(c)
BY DEF NextRule

(* One connection moves: it is at label l with transaction t afterwards. *)
Moved(c, l, t) ==
  /\ DOMAIN pc' = Connection /\ DOMAIN txn' = Connection
  /\ pc'[c] = l /\ txn'[c] = t
  /\ \A d \in Connection \ {c} :
       pc'[d] = pc[d] /\ txn'[d] = txn[d] /\ NextRule(d)' = NextRule(d)

LEMMA OneMoves ==
  ASSUME AlertsSound, NEW c \in Connection, NEW l, NEW t, Goto(c, l), Becomes(c, t)
  PROVE  Moved(c, l, t)
<1>1. /\ DOMAIN pc' = Connection /\ DOMAIN txn' = Connection
      /\ pc'[c] = l /\ txn'[c] = t
      /\ \A d \in Connection \ {c} : pc'[d] = pc[d] /\ txn'[d] = txn[d]
  BY DEF AlertsSound, Goto, Becomes
<1>2. ASSUME NEW d \in Connection \ {c} PROVE NextRule(d)' = NextRule(d)
  BY <1>1, NextRuleSame
<1> QED BY <1>1, <1>2 DEF Moved

LEMMA TxnFields ==
  ASSUME NEW users, NEW rules, NEW hits, NEW seen, NEW wrote, NEW sent
  PROVE  LET t == Txn(users, rules, hits, seen, wrote, sent)
         IN  /\ DOMAIN t = Columns
             /\ t.users = users /\ t.rules = rules /\ t.hits = hits
             /\ t.seen = seen /\ t.wrote = wrote /\ t.sent = sent
BY DEF Txn, Columns

LEMMA NoTxnFields ==
  /\ DOMAIN NoTxn = Columns
  /\ NoTxn.users = {} /\ NoTxn.rules = {} /\ NoTxn.hits = {} /\ NoTxn.sent = {}
  /\ DOMAIN NoTxn.seen = {} /\ DOMAIN NoTxn.wrote = {} /\ NoTxn.wrote = <<>>
<1>1. DOMAIN <<>> = {}
  OBVIOUS
<1> QED BY <1>1 DEF NoTxn, Txn, Columns

LEMMA PutFields ==
  ASSUME NEW f, NEW x, NEW v
  PROVE  /\ DOMAIN Put(f, x, v) = DOMAIN f \cup {x}
         /\ Put(f, x, v)[x] = v
         /\ \A y \in DOMAIN f \ {x} : Put(f, x, v)[y] = f[y]
BY DEF Put

(* An edit looks at one row. *)
LEMMA PutAlone ==
  ASSUME NEW x, NEW v
  PROVE  DOMAIN Put(<<>>, x, v) = {x} /\ Put(<<>>, x, v)[x] = v
<1>1. DOMAIN <<>> \cup {x} = {x}
  OBVIOUS
<1> QED BY <1>1 DEF Put

(* What soundness asks of one step, when one connection moves. *)
LEMMA SoundMoves ==
  ASSUME AlertsSound, NEW c \in Connection, NEW l, NEW t, Moved(c, l, t),
         ruleStatus' \in [Rule -> Kept \cup {"new", "gone"}],
         DOMAIN intent' = Rule, credit' \in [Rule -> Int],
         TxnSound(c)', ListedOnce(c)',
         \A d \in Connection \ {c} : DOMAIN t.wrote \cap DOMAIN txn[d].wrote = {},
         \A r \in Rule : ruleStatus[r] # "new" => ruleStatus'[r] # "new",
         \A r \in t.rules : ruleStatus'[r] # "new",
         \A r \in DOMAIN t.wrote : ruleStatus'[r] \in Kept,
         \A d \in Connection \ {c} : \A r \in DOMAIN txn[d].wrote : ruleStatus'[r] \in Kept
  PROVE  AlertsSound'
<1>1. ASSUME NEW d \in Connection \ {c} PROVE TxnSound(d)' /\ ListedOnce(d)'
  <2>1. pc'[d] = pc[d] /\ txn'[d] = txn[d] /\ NextRule(d)' = NextRule(d)
    BY DEF Moved
  <2>2. TxnSound(d) /\ ListedOnce(d)
    BY DEF AlertsSound
  <2>3. TxnSound(d)'
    BY <2>1, <2>2 DEF TxnSound
  <2>4. ListedOnce(d)'
    BY <2>1, <2>2 DEF ListedOnce
  <2> QED BY <2>3, <2>4
<1>2. \A d \in Connection : TxnSound(d)' /\ ListedOnce(d)'
  BY <1>1
<1>3. \A d \in Connection : txn'[d] = IF d = c THEN t ELSE txn[d]
  BY DEF Moved
<1>4. RowsLocked'
  <2>1. ASSUME NEW a \in Connection, NEW b \in Connection, a # b
        PROVE  DOMAIN txn'[a].wrote \cap DOMAIN txn'[b].wrote = {}
    <3>1. DOMAIN txn[a].wrote \cap DOMAIN txn[b].wrote = {}
      BY <2>1 DEF AlertsSound, RowsLocked
    <3>2. CASE a = c
      BY <1>3, <2>1, <3>2
    <3>3. CASE b = c
      BY <1>3, <2>1, <3>3
    <3>4. CASE a # c /\ b # c
      BY <1>3, <3>1, <3>4
    <3> QED BY <3>2, <3>3, <3>4
  <2>2. ASSUME NEW d \in Connection, NEW r \in DOMAIN txn'[d].wrote
        PROVE  ruleStatus'[r] \in Kept
    BY <1>3, <2>2
  <2>3. ASSUME NEW d \in Connection, NEW r \in txn'[d].rules
        PROVE  ruleStatus'[r] # "new"
    <3>1. CASE d = c
      BY <1>3, <2>3, <3>1
    <3>2. CASE d # c
      <4>1. r \in txn[d].rules
        BY <1>3, <2>3, <3>2
      <4>2. r \in Rule /\ ruleStatus[r] # "new"
        BY <4>1 DEF AlertsSound, RowsLocked, TxnSound
      <4> QED BY <4>2
    <3> QED BY <3>1, <3>2
  <2> QED BY <2>1, <2>2, <2>3 DEF RowsLocked
<1> QED BY <1>2, <1>4 DEF AlertsSound, Moved

(* What a user stands for after the step, of a value from before it. *)
MeantNext(r, value) == value = intent'[r] \/ (value = "TRIGGERED" /\ r \in told')

(* What a user stands for, when an evaluation takes a step. *)
LEMMA WordMoves ==
  ASSUME AlertsSound, WordInv, NEW c \in Connection, NEW l, NEW t, Moved(c, l, t),
         intent' = intent, told \subseteq told', crossed' = crossed,
         \A r \in Rule \ crossed : MeantNext(r, ruleStatus'[r]),
         \A r \in t.rules \ crossed : MeantNext(r, t.seen[r]),
         \A r \in DOMAIN t.wrote \ crossed : MeantNext(r, t.wrote[r]),
         l = "mark" => NextRule(c)' \in told' \cup crossed
  PROVE  WordInv'
<1>1. ASSUME NEW r \in Rule \ crossed, NEW d \in Connection
      PROVE  /\ r \in txn'[d].rules => Meant(r, txn[d].seen[r])'
             /\ r \in DOMAIN txn'[d].wrote => Meant(r, txn[d].wrote[r])'
             /\ pc'[d] = "mark" /\ r = NextRule(d)' => r \in told'
  <2>1. CASE d = c
    <3>1. txn'[d] = t /\ pc'[d] = l
      BY <2>1 DEF Moved
    <3> QED BY <1>1, <2>1, <3>1 DEF Meant, MeantNext
  <2>2. CASE d # c
    <3>1. txn'[d] = txn[d] /\ pc'[d] = pc[d] /\ NextRule(d)' = NextRule(d)
      BY <2>2 DEF Moved
    <3>2. /\ r \in txn[d].rules => Meant(r, txn[d].seen[r])
          /\ r \in DOMAIN txn[d].wrote => Meant(r, txn[d].wrote[r])
          /\ pc[d] = "mark" /\ r = NextRule(d) => r \in told
      BY <1>1 DEF WordInv
    <3> QED BY <3>1, <3>2 DEF Meant, MeantNext
  <2> QED BY <2>1, <2>2
<1> QED BY <1>1 DEF WordInv, Meant, MeantNext

(* Whose claims on the credit of a rule a step has to answer. *)
LEMMA CreditMoves ==
  ASSUME AlertsSound, CreditInv, NEW c \in Connection, NEW l, NEW t, Moved(c, l, t),
         met \subseteq met',
         \A q \in Rule : ruleStatus[q] = "gone" => ruleStatus'[q] = "gone",
         credit' \in [Rule -> Int],
         \A q \in Rule \ met' : credit'[q] >= 0,
         \A q \in Rule \ met' : q \in t.rules \cup DOMAIN t.wrote =>
           \A d \in Connection \ {c} : ~ Evaluating(d, q),
         \A q \in Rule \ met' :
           q \in t.rules /\ ~ (l = "mark" /\ q = NextRule(c)') => credit'[q] >= 1,
         \A q \in Rule \ met' :
           q \in DOMAIN t.wrote /\ t.wrote[q] = "ACTIVE" => credit'[q] >= 1,
         \A q \in Rule \ met' : q \in t.sent =>
           \/ q \in DOMAIN t.wrote /\ t.wrote[q] = "TRIGGERED"
           \/ l = "mark" /\ q = NextRule(c)'
           \/ ruleStatus'[q] = "gone",
         \A q \in Rule \ met' : \A d \in Connection \ {c} :
           Evaluating(d, q) => credit'[q] >= credit[q],
         \A q \in Rule \ met' : ruleStatus'[q] = "ACTIVE" =>
           \/ credit'[q] >= 1
           \/ q \in t.sent
           \/ \E d \in Connection \ {c} : q \in txn[d].sent
  PROVE  CreditInv'
<1> SUFFICES ASSUME NEW r \in Rule \ met'
             PROVE  /\ \A a, b \in Connection :
                         Evaluating(a, r)' /\ Evaluating(b, r)' => a = b
                    /\ ruleStatus'[r] = "ACTIVE" =>
                         credit'[r] >= 1 \/ \E d \in Connection : r \in txn'[d].sent
                    /\ \A d \in Connection :
                         /\ r \in txn'[d].rules /\ ~ ToldNow(d, r)' => credit'[r] >= 1
                         /\ r \in DOMAIN txn'[d].wrote /\ txn'[d].wrote[r] = "ACTIVE" =>
                              credit'[r] >= 1
                         /\ r \in txn'[d].sent =>
                              \/ r \in DOMAIN txn'[d].wrote /\ txn'[d].wrote[r] = "TRIGGERED"
                              \/ ToldNow(d, r)'
                              \/ ruleStatus'[r] = "gone"
  BY DEF CreditInv
<1>1. /\ txn'[c] = t /\ pc'[c] = l
      /\ \A d \in Connection \ {c} :
           txn'[d] = txn[d] /\ pc'[d] = pc[d] /\ NextRule(d)' = NextRule(d)
  BY DEF Moved
<1>2. r \in Rule \ met /\ credit[r] \in Int /\ credit'[r] \in Int
  BY DEF AlertsSound
<1>3. \A a \in Connection \ {c} : Evaluating(a, r)' <=> Evaluating(a, r)
  BY <1>1 DEF Evaluating
<1>4. Evaluating(c, r)' <=> r \in t.rules \cup DOMAIN t.wrote
  BY <1>1 DEF Evaluating
<1>5. ASSUME NEW a \in Connection, NEW b \in Connection, Evaluating(a, r)', Evaluating(b, r)'
      PROVE  a = b
  <2>1. CASE a = c \/ b = c
    BY <1>3, <1>4, <1>5, <2>1
  <2>2. CASE a # c /\ b # c
    BY <1>2, <1>3, <1>5, <2>2 DEF CreditInv
  <2> QED BY <2>1, <2>2
<1>6. ruleStatus'[r] = "ACTIVE" =>
        credit'[r] >= 1 \/ \E d \in Connection : r \in txn'[d].sent
  BY <1>1
<1>7. ASSUME NEW d \in Connection
      PROVE  /\ r \in txn'[d].rules /\ ~ ToldNow(d, r)' => credit'[r] >= 1
             /\ r \in DOMAIN txn'[d].wrote /\ txn'[d].wrote[r] = "ACTIVE" => credit'[r] >= 1
             /\ r \in txn'[d].sent =>
                  \/ r \in DOMAIN txn'[d].wrote /\ txn'[d].wrote[r] = "TRIGGERED"
                  \/ ToldNow(d, r)'
                  \/ ruleStatus'[r] = "gone"
  <2>1. CASE d = c
    BY <1>1, <2>1 DEF ToldNow
  <2>2. CASE d # c
    <3>1. ToldNow(d, r)' <=> ToldNow(d, r)
      BY <1>1, <2>2 DEF ToldNow
    <3>2. /\ r \in txn[d].rules /\ ~ ToldNow(d, r) => credit[r] >= 1
          /\ r \in DOMAIN txn[d].wrote /\ txn[d].wrote[r] = "ACTIVE" => credit[r] >= 1
          /\ r \in txn[d].sent =>
               \/ r \in DOMAIN txn[d].wrote /\ txn[d].wrote[r] = "TRIGGERED"
               \/ ToldNow(d, r)
               \/ ruleStatus[r] = "gone"
      BY <1>2 DEF CreditInv
    <3>3. r \in txn[d].rules \cup DOMAIN txn[d].wrote => credit'[r] >= credit[r]
      BY <2>2 DEF Evaluating
    <3>4. txn'[d] = txn[d]
      BY <1>1, <2>2
    <3>5. (r \in txn'[d].rules /\ ~ ToldNow(d, r)') => credit'[r] >= 1
      BY <1>2, <3>1, <3>2, <3>3, <3>4
    <3>6. (r \in DOMAIN txn'[d].wrote /\ txn'[d].wrote[r] = "ACTIVE") => credit'[r] >= 1
      BY <1>2, <3>2, <3>3, <3>4
    <3>7. r \in txn'[d].sent =>
               \/ r \in DOMAIN txn'[d].wrote /\ txn'[d].wrote[r] = "TRIGGERED"
               \/ ToldNow(d, r)'
               \/ ruleStatus'[r] = "gone"
      BY <3>1, <3>2, <3>4
    <3> QED BY <3>5, <3>6, <3>7
  <2> QED BY <2>1, <2>2
<1> QED BY <1>5, <1>6, <1>7

LEMMA IdleIsSound ==
  ASSUME NEW c \in Connection, pc'[c] = "idle", txn'[c] = NoTxn
  PROVE  TxnSound(c)' /\ ListedOnce(c)'
<1>1. TxnSound(c)'
  BY NoTxnFields DEF TxnSound
<1>2. ListedOnce(c)'
  BY NoTxnFields DEF ListedOnce
<1> QED BY <1>1, <1>2

LEMMA AlertsInitially ==
  InitAlerts => AlertsInv
<1> SUFFICES ASSUME InitAlerts PROVE AlertsInv
  OBVIOUS
<1>1. \A c \in Connection : pc[c] = "idle" /\ txn[c] = NoTxn
  BY DEF InitAlerts
<1>2. \A c \in Connection : TxnSound(c)
  BY <1>1, NoTxnFields DEF TxnSound
<1>3. \A c \in Connection : ListedOnce(c)
  BY <1>1, NoTxnFields DEF ListedOnce
<1>4. RowsLocked
  BY <1>1, NoTxnFields DEF RowsLocked
<1>5. AlertsSound
  <2>1. ruleStatus \in [Rule -> Kept \cup {"new", "gone"}] /\ DOMAIN intent = Rule
    BY DEF InitAlerts, Kept
  <2>2. credit \in [Rule -> Int] /\ DOMAIN pc = Connection /\ DOMAIN txn = Connection
    BY DEF InitAlerts
  <2> QED BY <1>2, <1>3, <1>4, <2>1, <2>2 DEF AlertsSound
<1>6. WordInv
  <2>1. \A r \in Rule : ruleStatus[r] = intent[r]
    BY DEF InitAlerts
  <2> QED BY <1>1, <2>1, NoTxnFields DEF WordInv, Meant
<1>7. CreditInv
  <2>1. \A r \in Rule : credit[r] = IF ruleStatus[r] = "ACTIVE" THEN 1 ELSE 0
    BY DEF InitAlerts
  <2> QED BY <1>1, <2>1, NoTxnFields DEF CreditInv, Evaluating
<1> QED BY <1>5, <1>6, <1>7 DEF AlertsInv

(* The clock and the market change nothing the invariant speaks of. *)
LEMMA ElsewhereKeepsAlerts ==
  ASSUME AlertsInv, UNCHANGED <<ruleStatus, pc, txn, historyVars>>
  PROVE  AlertsInv'
<1>1. ruleStatus' = ruleStatus /\ pc' = pc /\ txn' = txn /\ intent' = intent
        /\ told' = told /\ crossed' = crossed /\ met' = met /\ credit' = credit
  BY DEF historyVars
<1>2. \A c : NextRule(c)' = NextRule(c)
  BY <1>1 DEF NextRule
<1>3. AlertsSound'
  <2>1. \A c : TxnSound(c)' <=> TxnSound(c)
    BY <1>1, <1>2 DEF TxnSound
  <2>2. \A c : ListedOnce(c)' <=> ListedOnce(c)
    BY <1>1 DEF ListedOnce
  <2>3. RowsLocked' <=> RowsLocked
    BY <1>1 DEF RowsLocked
  <2> QED BY <1>1, <2>1, <2>2, <2>3 DEF AlertsInv, AlertsSound
<1>4. WordInv'
  BY <1>1, <1>2 DEF AlertsInv, WordInv, Meant
<1>5. CreditInv'
  <2>1. \A c, r : ToldNow(c, r)' <=> ToldNow(c, r)
    BY <1>1, <1>2 DEF ToldNow
  <2>2. \A c, r : Evaluating(c, r)' <=> Evaluating(c, r)
    BY <1>1 DEF Evaluating
  <2> QED BY <1>1, <2>1, <2>2 DEF AlertsInv, CreditInv
<1> QED BY <1>3, <1>4, <1>5 DEF AlertsInv

(* The word of a user, while nobody has written the row: whoever has the   *)
(* rule in hand still stands for what it was, and the rule is crossed.     *)
LEMMA UserSpeaks ==
  ASSUME AlertsInv, NEW c \in Client, pc[c] \in {"idle", "edit"}, Moved(c, "idle", NoTxn),
         NEW r \in Rule, NEW s \in Kept \cup {"gone"},
         ruleStatus[r] # "gone",
         \A d \in Connection \ {c} : r \notin DOMAIN txn[d].wrote,
         ruleStatus' = [ruleStatus EXCEPT ![r] = s],
         UserSays(r, s)
  PROVE  AlertsInv'
<1>1. /\ c \in Connection
      /\ pc'[c] = "idle" /\ txn'[c] = NoTxn
      /\ \A d \in Connection \ {c} :
           pc'[d] = pc[d] /\ txn'[d] = txn[d] /\ NextRule(d)' = NextRule(d)
  BY DEF Moved, Connection
<1>2. /\ ruleStatus' \in [Rule -> Kept \cup {"new", "gone"}]
      /\ ruleStatus'[r] = s /\ \A q \in Rule \ {r} : ruleStatus'[q] = ruleStatus[q]
  BY DEF AlertsInv, AlertsSound
<1>3. /\ DOMAIN intent' = Rule /\ intent'[r] = s
      /\ \A q \in Rule \ {r} : intent'[q] = intent[q]
  BY DEF AlertsInv, AlertsSound, UserSays
<1>4. /\ credit' \in [Rule -> Int] /\ \A q \in Rule \ {r} : credit'[q] = credit[q]
      /\ credit'[r] = credit[r] + (IF s = "ACTIVE" THEN 1 ELSE 0)
  BY DEF AlertsInv, AlertsSound, UserSays
<1>5. \A q \in Rule : credit[q] \in Int /\ credit'[q] \in Int /\ credit'[q] >= credit[q]
  <2>1. \A q \in Rule : credit[q] \in Int /\ credit'[q] \in Int
    BY <1>4 DEF AlertsInv, AlertsSound
  <2> QED BY <1>4, <2>1
<1>6. s # "new"
  BY DEF Kept
<1>7. AlertsSound'
  <2>1. TxnSound(c)' /\ ListedOnce(c)'
    BY <1>1, IdleIsSound
  <2>2. \A d \in Connection \ {c} : \A q \in DOMAIN txn[d].wrote :
          q \in Rule \ {r} /\ ruleStatus[q] \in Kept
    BY DEF AlertsInv, AlertsSound, TxnSound, RowsLocked
  <2>3. \A d \in Connection \ {c} : \A q \in DOMAIN txn[d].wrote : ruleStatus'[q] \in Kept
    BY <1>2, <2>2
  <2>4. \A q \in Rule : ruleStatus[q] # "new" => ruleStatus'[q] # "new"
    BY <1>2, <1>6
  <2>5. AlertsSound
    BY DEF AlertsInv
  <2> QED BY ONLY <1>1, <1>2, <1>3, <1>4, <2>1, <2>3, <2>4, <2>5, Moved(c, "idle", NoTxn),
             NoTxnFields, SoundMoves
<1>8. WordInv'
  <2> SUFFICES ASSUME NEW q \in Rule \ crossed', NEW d \in Connection
               PROVE  /\ Meant(q, ruleStatus[q])'
                      /\ q \in txn'[d].rules => Meant(q, txn[d].seen[q])'
                      /\ q \in DOMAIN txn'[d].wrote => Meant(q, txn[d].wrote[q])'
                      /\ pc'[d] = "mark" /\ q = NextRule(d)' => q \in told'
    BY <1>1 DEF WordInv
  <2>1. CASE q = r
    <3>1. ~ InHand(r)
      BY <2>1 DEF UserSays
    <3>2. Meant(q, ruleStatus[q])'
      BY <1>2, <1>3, <2>1 DEF Meant
    <3>3. CASE d = c
      BY <1>1, <3>2, <3>3, NoTxnFields
    <3>4. CASE d # c
      <4>1. q \notin txn'[d].rules /\ q \notin DOMAIN txn'[d].wrote /\ q \notin txn[d].rules
        BY <1>1, <2>1, <3>1, <3>4 DEF InHand
      <4>2. pc[d] = "mark" => NextRule(d) \in txn[d].rules
        BY NextRuleInHand DEF AlertsInv, AlertsSound, TxnSound
      <4> QED BY <1>1, <3>2, <3>4, <4>1, <4>2
    <3> QED BY <3>3, <3>4
  <2>2. CASE q # r
    <3>1. q \in Rule \ crossed /\ (q \in told' <=> q \in told)
      BY <2>2 DEF UserSays
    <3>2. Meant(q, ruleStatus[q])'
      BY <1>2, <1>3, <2>2, <3>1 DEF AlertsInv, WordInv, Meant
    <3>3. CASE d = c
      BY <1>1, <3>2, <3>3, NoTxnFields
    <3>4. CASE d # c
      <4>1. txn'[d] = txn[d] /\ pc'[d] = pc[d] /\ NextRule(d)' = NextRule(d)
        BY <1>1, <3>4
      <4>2. /\ q \in txn[d].rules => Meant(q, txn[d].seen[q])
            /\ q \in DOMAIN txn[d].wrote => Meant(q, txn[d].wrote[q])
            /\ pc[d] = "mark" /\ q = NextRule(d) => q \in told
        BY <3>1 DEF AlertsInv, WordInv
      <4>3. intent'[q] = intent[q]
        BY <1>3, <2>2
      <4> QED BY <3>1, <3>2, <4>1, <4>2, <4>3 DEF Meant
    <3> QED BY <3>3, <3>4
  <2> QED BY <2>1, <2>2
<1>9. CreditInv'
  <2>1. met' = met
    BY DEF UserSays
  <2>2. \A q \in Rule : ruleStatus[q] = "gone" => ruleStatus'[q] = "gone"
    BY <1>2
  <2>3. \A q \in Rule \ met' : credit'[q] >= 0
    BY <1>5, <2>1 DEF AlertsInv, CreditInv
  <2>4. ASSUME NEW q \in Rule \ met', ruleStatus'[q] = "ACTIVE"
        PROVE  credit'[q] >= 1 \/ \E d \in Connection \ {c} : q \in txn[d].sent
    <3>1. q \in Rule \ met /\ credit[q] >= 0 /\ credit[q] \in Int
      BY <1>5, <2>1 DEF AlertsInv, CreditInv
    <3>2. CASE q = r
      BY <1>2, <1>4, <2>4, <3>1, <3>2
    <3>3. CASE q # r
      <4>1. ruleStatus[q] = "ACTIVE" /\ credit'[q] = credit[q]
        BY <1>2, <1>4, <2>4, <3>3
      <4>2. credit[q] >= 1 \/ \E d \in Connection : q \in txn[d].sent
        BY <3>1, <4>1 DEF AlertsInv, CreditInv
      <4>3. q \notin txn[c].sent
        <5>1. q \in txn[c].sent => q \in DOMAIN txn[c].wrote \/ ToldNow(c, q)
          BY <1>1, <3>1, <4>1 DEF AlertsInv, CreditInv
        <5>2. DOMAIN txn[c].wrote = {}
          BY <1>1 DEF AlertsInv, AlertsSound, TxnSound
        <5> QED BY <5>1, <5>2 DEF ToldNow
      <4> QED BY <4>1, <4>2, <4>3
    <3> QED BY <3>2, <3>3
  <2>5. AlertsSound /\ CreditInv
    BY DEF AlertsInv
  <2> QED BY ONLY <1>1, <1>4, <1>5, <2>1, <2>2, <2>3, <2>4, <2>5, Moved(c, "idle", NoTxn),
             NoTxnFields, CreditMoves
<1> QED BY <1>7, <1>8, <1>9 DEF AlertsInv

LEMMA StayedIdle ==
  ASSUME AlertsSound, NEW c \in Connection, pc[c] = "idle", UNCHANGED <<pc, txn>>
  PROVE  Moved(c, "idle", NoTxn)
<1>1. txn[c] = NoTxn
  BY DEF AlertsSound, TxnSound
<1>2. \A d : NextRule(d)' = NextRule(d)
  BY DEF NextRule
<1> QED BY <1>1, <1>2 DEF Moved, AlertsSound

LEMMA CreateKeepsAlerts ==
  ASSUME AlertsInv, NEW c \in Client, NEW r \in Rule, Create(c, r)
  PROVE  AlertsInv'
<1>1. AlertsSound /\ c \in Connection /\ pc[c] = "idle"
  BY DEF AlertsInv, Connection, Create, Asking
<1>2. Moved(c, "idle", NoTxn)
  BY <1>1, StayedIdle DEF Create
<1>3. ruleStatus[r] = "new" /\ ruleStatus[r] \notin Kept
  BY DEF Create, Kept
<1>4. \A d \in Connection \ {c} : r \notin DOMAIN txn[d].wrote
  BY <1>1, <1>3 DEF AlertsSound, RowsLocked
<1>5. "ACTIVE" \in Kept \cup {"gone"}
  BY DEF Kept
<1> QED BY <1>1, <1>2, <1>3, <1>4, <1>5, UserSpeaks DEF Create

LEMMA DeleteKeepsAlerts ==
  ASSUME AlertsInv, NEW c \in Client, NEW r \in Rule, Delete(c, r)
  PROVE  AlertsInv'
<1>1. AlertsSound /\ c \in Connection /\ pc[c] = "idle"
  BY DEF AlertsInv, Connection, Delete, Asking
<1>2. Moved(c, "idle", NoTxn)
  BY <1>1, StayedIdle DEF Delete
<1>3. ruleStatus[r] # "gone"
  BY DEF Delete, Kept
<1>4. \A d \in Connection \ {c} : r \notin DOMAIN txn[d].wrote
  BY DEF Delete, RowLocked
<1> QED BY <1>1, <1>2, <1>3, <1>4, UserSpeaks DEF Delete

(* A request that neither evaluates nor writes changes its own             *)
(* transaction, which has no rule in hand, and nothing else.               *)
LEMMA QuietRequest ==
  ASSUME AlertsInv, NEW c \in Client, pc[c] \in {"idle", "edit"},
         NEW l, NEW t, Moved(c, l, t), l # "mark",
         UNCHANGED <<ruleStatus, historyVars>>,
         TxnSound(c)', t.rules = {}, DOMAIN t.wrote = {}, t.sent = {}
  PROVE  AlertsInv'
<1>1. ruleStatus' = ruleStatus /\ intent' = intent /\ told' = told /\ crossed' = crossed
        /\ met' = met /\ credit' = credit
  BY DEF historyVars
<1>2. AlertsSound /\ WordInv /\ CreditInv /\ c \in Connection
  BY DEF AlertsInv, Connection
<1>3. AlertsSound'
  <2>1. \A d \in Connection : \A q \in DOMAIN txn[d].wrote : ruleStatus[q] \in Kept
    BY <1>2 DEF AlertsSound, RowsLocked
  <2>2. /\ ruleStatus' \in [Rule -> Kept \cup {"new", "gone"}]
        /\ DOMAIN intent' = Rule /\ credit' \in [Rule -> Int]
    BY <1>1, <1>2 DEF AlertsSound
  <2>3. ListedOnce(c)'
    BY DEF ListedOnce, Moved
  <2> QED BY <1>1, <1>2, <2>1, <2>2, <2>3, SoundMoves
<1>4. WordInv'
  <2>1. \A q \in Rule \ crossed : MeantNext(q, ruleStatus'[q])
    BY <1>1, <1>2 DEF WordInv, Meant, MeantNext
  <2> QED BY <1>1, <1>2, <2>1, WordMoves
<1>5. CreditInv'
  <2>1. credit' \in [Rule -> Int] /\ \A q \in Rule \ met' : credit'[q] >= 0
    BY <1>1, <1>2 DEF CreditInv, AlertsSound
  <2>2. \A q \in Rule \ met : ruleStatus[q] = "ACTIVE" => q \notin txn[c].sent
    <3>1. DOMAIN txn[c].wrote = {}
      BY <1>2 DEF AlertsSound, TxnSound
    <3> QED BY <1>2, <3>1 DEF CreditInv, ToldNow
  <2>3. \A q \in Rule \ met' : ruleStatus'[q] = "ACTIVE" =>
          credit'[q] >= 1 \/ \E d \in Connection \ {c} : q \in txn[d].sent
    BY <1>1, <1>2, <2>2 DEF CreditInv
  <2>4. \A q \in Rule : credit'[q] >= credit[q]
    BY <1>1, <1>2 DEF AlertsSound
  <2> QED BY <1>1, <1>2, <2>1, <2>3, <2>4, CreditMoves
<1> QED BY <1>3, <1>4, <1>5 DEF AlertsInv

LEMMA EditKeepsAlerts ==
  ASSUME AlertsInv, NEW c \in Client, Edit(c)
  PROVE  AlertsInv'
<1>1. AlertsSound /\ c \in Connection /\ pc[c] = "edit"
  BY DEF AlertsInv, Connection, Edit
<1>2. Moved(c, "idle", NoTxn)
  BY <1>1, OneMoves DEF Edit
<1>3. PICK r \in DOMAIN txn[c].seen :
        /\ ~ RowLocked(c, r)
        /\ IF ruleStatus[r] = "gone" THEN UNCHANGED <<ruleStatus, historyVars>>
           ELSE /\ ruleStatus' = [ruleStatus EXCEPT ![r] = txn[c].seen[r]]
                /\ UserSays(r, txn[c].seen[r])
  BY DEF Edit
<1>4. r \in Rule /\ txn[c].seen[r] \in Kept
  BY <1>1 DEF AlertsSound, TxnSound
<1>5. CASE ruleStatus[r] # "gone"
  <2>1. \A d \in Connection \ {c} : r \notin DOMAIN txn[d].wrote
    BY <1>3 DEF RowLocked
  <2>2. /\ ruleStatus' = [ruleStatus EXCEPT ![r] = txn[c].seen[r]]
        /\ UserSays(r, txn[c].seen[r])
    BY <1>3, <1>5
  <2> QED BY <1>1, <1>2, <1>4, <1>5, <2>1, <2>2, UserSpeaks
<1>6. CASE ruleStatus[r] = "gone"
  <2>1. UNCHANGED <<ruleStatus, historyVars>>
    BY <1>3, <1>6
  <2>2. TxnSound(c)'
    BY <1>1, <1>2, IdleIsSound DEF Moved
  <2> QED BY ONLY AlertsInv, c \in Client, <1>1, <1>2, <2>1, <2>2, NoTxnFields, QuietRequest
<1> QED BY <1>5, <1>6

LEMMA BeginEditKeepsAlerts ==
  ASSUME AlertsInv, NEW c \in Client, NEW r \in Rule, NEW s \in Kept, BeginEdit(c, r, s)
  PROVE  AlertsInv'
<1>1. AlertsSound /\ c \in Connection /\ pc[c] = "idle"
  BY DEF AlertsInv, Connection, BeginEdit, Asking
<1>2. CASE ruleStatus[r] = s
  BY <1>2, ElsewhereKeepsAlerts DEF BeginEdit
<1>3. CASE ruleStatus[r] # s
  <2> DEFINE t == Txn({}, {}, {}, Put(<<>>, r, s), <<>>, {})
  <2>1. Moved(c, "edit", t)
    BY <1>1, <1>3, OneMoves DEF BeginEdit
  <2>2. /\ DOMAIN t = Columns /\ t.users = {} /\ t.rules = {} /\ t.sent = {}
        /\ t.wrote = <<>> /\ DOMAIN t.wrote = {}
        /\ DOMAIN t.seen = {r} /\ t.seen[r] = s
    <3>1. DOMAIN <<>> = {}
      OBVIOUS
    <3>2. /\ DOMAIN t = Columns /\ t.users = {} /\ t.rules = {} /\ t.sent = {}
          /\ t.wrote = <<>> /\ t.seen = Put(<<>>, r, s)
      BY DEF Txn, Columns
    <3>3. DOMAIN Put(<<>>, r, s) = {r} /\ Put(<<>>, r, s)[r] = s
      BY ONLY PutAlone, Zenon
    <3> QED BY ONLY <3>1, <3>2, <3>3, Zenon
  <2> HIDE DEF t
  <2>3. TxnSound(c)'
    <3>1. pc'[c] = "edit" /\ txn'[c] = t
      BY <2>1 DEF Moved
    <3>2. c \notin Scheduler
      BY AlertsAssumption
    <3> QED BY <2>2, <3>1, <3>2 DEF TxnSound
  <2>4. UNCHANGED <<ruleStatus, historyVars>>
    BY DEF BeginEdit
  <2> QED BY <1>1, <2>1, <2>2, <2>3, <2>4, QuietRequest
<1> QED BY <1>2, <1>3

(* A rule that two evaluations did not have at the same time. *)
LEMMA UnmetRules ==
  ASSUME NEW c, NEW rules, NoteMeeting(c, rules)
  PROVE  /\ met \subseteq met'
         /\ \A r \in rules \ met' : \A d \in Connection \ {c} : ~ Evaluating(d, r)
BY DEF NoteMeeting, MeetingOver

LEMMA BeginEvaluateOneKeepsAlerts ==
  ASSUME AlertsInv, NEW c \in Client, NEW r \in Rule, BeginEvaluateOne(c, r)
  PROVE  AlertsInv'
<1> DEFINE t == Listed(c, {}, {r}, [q \in {r} |-> ruleStatus[r]])
<1>1. AlertsSound /\ WordInv /\ CreditInv /\ c \in Connection /\ pc[c] = "idle"
  BY DEF AlertsInv, Connection, BeginEvaluateOne, Asking
<1>2. Moved(c, "rule", t)
  BY <1>1, OneMoves DEF BeginEvaluateOne
<1>3. /\ DOMAIN t = Columns /\ t.users = {} /\ t.rules = {r}
      /\ DOMAIN t.seen = {r} /\ t.seen[r] = ruleStatus[r]
      /\ t.wrote = <<>> /\ DOMAIN t.wrote = {} /\ t.sent = {}
  <2>1. txn[c] = NoTxn
    BY <1>1 DEF AlertsSound, TxnSound
  <2> QED BY <2>1, NoTxnFields DEF Listed, Txn, Columns
<1> HIDE DEF t
<1>4. /\ ruleStatus' = ruleStatus /\ ruleStatus[r] \in Kept /\ intent' = intent /\ told' = told
      /\ crossed' = crossed /\ met \subseteq met'
      /\ \A q \in {r} \ met' : \A d \in Connection \ {c} : ~ Evaluating(d, q)
  BY UnmetRules DEF BeginEvaluateOne, NoteMeeting
<1>5. /\ \A q \in Rule : credit[q] \in Int /\ credit'[q] \in Int /\ credit'[q] >= credit[q]
      /\ credit' \in [Rule -> Int] /\ credit'[r] = credit[r] + 1
  <2>1. credit \in [Rule -> Int] /\ credit' = [credit EXCEPT ![r] = @ + 1]
    BY <1>1 DEF BeginEvaluateOne, AlertsSound
  <2> QED BY <2>1
<1>6. pc'[c] = "rule" /\ txn'[c] = t
  BY <1>2 DEF Moved
<1>7. AlertsSound'
  <2>1. TxnSound(c)'
    <3>1. c \notin Scheduler
      BY AlertsAssumption
    <3> QED BY <1>3, <1>4, <1>6, <3>1 DEF TxnSound
  <2>2. ListedOnce(c)'
    BY <1>3, <1>6 DEF ListedOnce
  <2>3. \A d \in Connection : \A q \in DOMAIN txn[d].wrote : ruleStatus[q] \in Kept
    BY <1>1 DEF AlertsSound, RowsLocked
  <2>4. ruleStatus' \in [Rule -> Kept \cup {"new", "gone"}] /\ DOMAIN intent' = Rule
    BY <1>1, <1>4 DEF AlertsSound
  <2>5. ruleStatus[r] # "new"
    BY <1>4 DEF Kept
  <2> QED BY <1>1, <1>2, <1>3, <1>4, <1>5, <2>1, <2>2, <2>3, <2>4, <2>5, SoundMoves
<1>8. WordInv'
  <2>1. \A q \in Rule \ crossed : MeantNext(q, ruleStatus'[q])
    BY <1>1, <1>4 DEF WordInv, Meant, MeantNext
  <2> QED BY <1>1, <1>2, <1>3, <1>4, <2>1, WordMoves
<1>9. CreditInv'
  <2>1. \A q \in Rule \ met' : q \in Rule \ met /\ credit'[q] >= 0
    BY <1>1, <1>4, <1>5 DEF CreditInv
  <2>2. \A q \in Rule \ met : ruleStatus[q] = "ACTIVE" => q \notin txn[c].sent
    <3>1. txn[c].sent = {}
      BY <1>1, NoTxnFields DEF AlertsSound, TxnSound
    <3> QED BY <3>1
  <2>3. \A q \in Rule \ met' : ruleStatus'[q] = "ACTIVE" =>
          credit'[q] >= 1 \/ \E d \in Connection \ {c} : q \in txn[d].sent
    BY <1>1, <1>4, <1>5, <2>1, <2>2 DEF CreditInv
  <2>4. r \notin met' => credit'[r] >= 1
    BY <1>1, <1>4, <1>5 DEF CreditInv
  <2> QED BY <1>1, <1>2, <1>3, <1>4, <1>5, <2>1, <2>3, <2>4, CreditMoves
<1> QED BY <1>7, <1>8, <1>9 DEF AlertsInv

(* What an evaluation is about to write is what the user stands for; it    *)
(* keeps a rule ACTIVE with credit, and never one it sent a message for.   *)
LEMMA VerdictIsMeant ==
  ASSUME AlertsInv, NEW c \in Connection, ToMark(c)
  PROVE  /\ NextRule(c) \in txn[c].rules /\ NextRule(c) \in Rule
         /\ NextRule(c) \notin DOMAIN txn[c].wrote
         /\ ruleStatus[NextRule(c)] \in Kept \cup {"gone"}
         /\ Verdict(c, NextRule(c)) \in Kept
         /\ NextRule(c) \notin crossed => Meant(NextRule(c), Verdict(c, NextRule(c)))
         /\ NextRule(c) \notin met /\ Verdict(c, NextRule(c)) = "ACTIVE" =>
              credit[NextRule(c)] >= 1
         /\ pc[c] = "mark" => Verdict(c, NextRule(c)) = "TRIGGERED"
<1> DEFINE r == NextRule(c)
<1>1. /\ pc[c] \in {"rule", "mark"} /\ txn[c].rules # {} /\ txn[c].rules \subseteq Rule
      /\ txn[c].rules \subseteq DOMAIN txn[c].seen
      /\ \A q \in DOMAIN txn[c].seen : txn[c].seen[q] \in Kept
      /\ pc[c] = "mark" => r \in txn[c].hits
      /\ pc[c] # "mark" => r \notin txn[c].hits
      /\ txn[c].rules \cap DOMAIN txn[c].wrote = {}
      /\ \A q \in txn[c].rules : ruleStatus[q] # "new"
      /\ ruleStatus \in [Rule -> Kept \cup {"new", "gone"}]
  BY DEF AlertsInv, AlertsSound, TxnSound, ListedOnce, RowsLocked, ToMark
<1>2. r \in txn[c].rules
  BY <1>1, NextRuleInHand
<1> HIDE DEF r
<1>3. "TRIGGERED" \in Kept
  BY DEF Kept
<1>4. CASE pc[c] = "mark"
  <2>1. Verdict(c, r) = "TRIGGERED"
    BY <1>1, <1>4 DEF Verdict
  <2>2. r \notin crossed => r \in told
    BY <1>1, <1>2, <1>4 DEF AlertsInv, WordInv, r
  <2> QED BY <1>1, <1>2, <1>3, <2>1, <2>2 DEF Meant, r
<1>5. CASE pc[c] # "mark"
  <2>1. Verdict(c, r) = txn[c].seen[r]
    BY <1>1, <1>5 DEF Verdict
  <2>2. r \notin crossed => Meant(r, txn[c].seen[r])
    BY <1>1, <1>2 DEF AlertsInv, WordInv
  <2>3. r \notin met => credit[r] >= 1
    BY <1>1, <1>2, <1>5 DEF AlertsInv, CreditInv, ToldNow
  <2> QED BY <1>1, <1>2, <1>5, <2>1, <2>2, <2>3 DEF r
<1> QED BY <1>4, <1>5

LEMMA EndEvaluateOneKeepsAlerts ==
  ASSUME AlertsInv, NEW c \in Client, EndEvaluateOne(c)
  PROVE  AlertsInv'
<1> DEFINE r == NextRule(c)
<1>1. AlertsSound /\ WordInv /\ CreditInv /\ c \in Connection /\ ToMark(c)
        /\ DOMAIN txn[c].wrote = {}
  BY DEF AlertsInv, AlertsSound, TxnSound, Connection, EndEvaluateOne
<1>2. Moved(c, "idle", NoTxn)
  BY <1>1, OneMoves DEF EndEvaluateOne
<1>3. /\ r \in txn[c].rules /\ r \in Rule /\ ruleStatus[r] \in Kept \cup {"gone"}
      /\ Verdict(c, r) \in Kept
      /\ r \notin crossed => Meant(r, Verdict(c, r))
      /\ r \notin met /\ Verdict(c, r) = "ACTIVE" => credit[r] >= 1
      /\ pc[c] = "mark" => Verdict(c, r) = "TRIGGERED"
  BY <1>1, VerdictIsMeant
<1>4. /\ ruleStatus' = [ruleStatus EXCEPT ![r] = IF @ = "gone" THEN @ ELSE Verdict(c, r)]
      /\ intent' = intent /\ told' = told /\ crossed' = crossed
      /\ met' = met /\ credit' = credit
      /\ \A d \in Connection \ {c} : r \notin DOMAIN txn[d].wrote
  BY DEF EndEvaluateOne, historyVars, RowLocked
<1>5. \A q \in Rule \ crossed : Meant(q, ruleStatus[q])
  BY <1>1 DEF WordInv
<1> HIDE DEF r
<1>6. /\ ruleStatus'[r] = IF ruleStatus[r] = "gone" THEN "gone" ELSE Verdict(c, r)
      /\ \A q \in Rule \ {r} : ruleStatus'[q] = ruleStatus[q]
      /\ ruleStatus' \in [Rule -> Kept \cup {"new", "gone"}]
  BY <1>1, <1>3, <1>4 DEF AlertsSound
<1>7. AlertsSound'
  <2>1. TxnSound(c)' /\ ListedOnce(c)'
    BY <1>1, <1>2, IdleIsSound DEF Moved
  <2>2. \A d \in Connection \ {c} : \A q \in DOMAIN txn[d].wrote :
          q \in Rule \ {r} /\ ruleStatus[q] \in Kept
    BY <1>1, <1>4 DEF AlertsSound, TxnSound, RowsLocked
  <2>3. \A d \in Connection \ {c} : \A q \in DOMAIN txn[d].wrote : ruleStatus'[q] \in Kept
    BY <1>6, <2>2
  <2>4. DOMAIN intent' = Rule /\ credit' \in [Rule -> Int]
    BY <1>1, <1>4 DEF AlertsSound
  <2>5. \A q \in Rule : ruleStatus[q] # "new" => ruleStatus'[q] # "new"
    BY <1>3, <1>6 DEF Kept
  <2> QED BY <1>1, <1>2, <1>6, <2>1, <2>3, <2>4, <2>5, NoTxnFields, SoundMoves
<1>8. WordInv'
  <2>1. \A q \in Rule \ crossed : Meant(q, ruleStatus'[q])
    BY <1>3, <1>5, <1>6
  <2>2. \A q \in Rule \ crossed : MeantNext(q, ruleStatus'[q])
    BY <1>4, <2>1 DEF Meant, MeantNext
  <2> QED BY <1>1, <1>2, <1>4, <2>2, NoTxnFields, WordMoves
<1>9. CreditInv'
  <2>1. credit' \in [Rule -> Int] /\ \A q \in Rule \ met' : credit'[q] >= 0
    BY <1>1, <1>4 DEF CreditInv, AlertsSound
  <2>2. \A q \in Rule \ met : ruleStatus[q] = "ACTIVE" /\ q # r => q \notin txn[c].sent
    BY <1>1 DEF CreditInv, ToldNow, r
  <2>3. ASSUME NEW q \in Rule \ met', ruleStatus'[q] = "ACTIVE"
        PROVE  credit'[q] >= 1 \/ \E d \in Connection \ {c} : q \in txn[d].sent
    <3>1. CASE q = r
      BY <1>3, <1>4, <1>6, <2>3, <3>1
    <3>2. CASE q # r
      <4>1. ruleStatus[q] = "ACTIVE" /\ q \in Rule \ met
        BY <1>4, <1>6, <2>3, <3>2
      <4> QED BY <1>1, <1>4, <2>2, <3>2, <4>1 DEF CreditInv
    <3> QED BY <3>1, <3>2
  <2>4. \A q \in Rule : credit'[q] >= credit[q]
    BY <1>1, <1>4 DEF AlertsSound
  <2>5. \A q \in Rule : ruleStatus[q] = "gone" => ruleStatus'[q] = "gone"
    BY <1>6
  <2> QED BY <1>1, <1>2, <1>4, <2>1, <2>3, <2>4, <2>5, NoTxnFields, CreditMoves
<1> QED BY <1>7, <1>8, <1>9 DEF AlertsInv

LEMMA DispatchKeepsAlerts ==
  ASSUME AlertsInv, NEW c \in Connection, Dispatch(c)
  PROVE  AlertsInv'
<1> DEFINE r == NextRule(c)
<1> DEFINE t == [txn[c] EXCEPT !.sent = @ \cup {r}]
<1>1. AlertsSound /\ WordInv /\ CreditInv /\ pc[c] = "rule" /\ TxnSound(c) /\ ListedOnce(c)
  BY DEF AlertsInv, AlertsSound, Dispatch
<1>2. r \in txn[c].rules /\ r \in Rule /\ r \in txn[c].hits
  <2>1. txn[c].rules # {} /\ txn[c].rules \subseteq Rule
    BY <1>1 DEF TxnSound
  <2> QED BY <2>1, NextRuleInHand DEF Dispatch
<1>3. Moved(c, "mark", t)
  BY <1>1, OneMoves DEF Dispatch
<1>4. /\ DOMAIN t = Columns /\ t.users = txn[c].users /\ t.rules = txn[c].rules
      /\ t.hits = txn[c].hits /\ t.seen = txn[c].seen /\ t.wrote = txn[c].wrote
      /\ t.sent = txn[c].sent \cup {r}
  BY <1>1 DEF TxnSound, Columns
<1>5. /\ ruleStatus' = ruleStatus /\ intent' = intent /\ told' = told \cup {r}
      /\ crossed' = crossed /\ met' = met
      /\ credit' = [credit EXCEPT ![r] = @ - 1]
  BY DEF Dispatch
<1> HIDE DEF r, t
<1>6. pc'[c] = "mark" /\ txn'[c] = t
  BY <1>3 DEF Moved
<1>7. NextRule(c)' = r
  BY <1>4, <1>6, NextRuleSame DEF r
<1>8. /\ credit \in [Rule -> Int] /\ credit' \in [Rule -> Int]
      /\ credit'[r] = credit[r] - 1 /\ \A q \in Rule \ {r} : credit'[q] = credit[q]
  BY <1>1, <1>2, <1>5 DEF AlertsSound
<1>9. AlertsSound'
  <2>1. TxnSound(c)'
    BY <1>1, <1>2, <1>4, <1>6, <1>7 DEF TxnSound
  <2>2. ListedOnce(c)'
    BY <1>1, <1>2, <1>4, <1>6 DEF ListedOnce
  <2>3. /\ \A d \in Connection : \A q \in DOMAIN txn[d].wrote : ruleStatus[q] \in Kept
        /\ \A q \in txn[c].rules : ruleStatus[q] # "new"
        /\ \A d \in Connection \ {c} : DOMAIN t.wrote \cap DOMAIN txn[d].wrote = {}
    BY <1>1, <1>4 DEF AlertsSound, RowsLocked
  <2>4. ruleStatus' \in [Rule -> Kept \cup {"new", "gone"}] /\ DOMAIN intent' = Rule
    BY <1>1, <1>5 DEF AlertsSound
  <2> QED BY <1>1, <1>3, <1>4, <1>5, <1>8, <2>1, <2>2, <2>3, <2>4, SoundMoves
<1>10. WordInv'
  <2>1. \A q \in Rule \ crossed :
          /\ Meant(q, ruleStatus[q])
          /\ q \in txn[c].rules => Meant(q, txn[c].seen[q])
          /\ q \in DOMAIN txn[c].wrote => Meant(q, txn[c].wrote[q])
    BY <1>1 DEF WordInv
  <2>2. t.rules \subseteq Rule /\ DOMAIN t.wrote \subseteq Rule
    BY <1>1, <1>4 DEF TxnSound
  <2>3. /\ \A q \in Rule \ crossed : MeantNext(q, ruleStatus'[q])
        /\ \A q \in t.rules \ crossed : MeantNext(q, t.seen[q])
        /\ \A q \in DOMAIN t.wrote \ crossed : MeantNext(q, t.wrote[q])
    BY <1>4, <1>5, <2>1, <2>2 DEF Meant, MeantNext
  <2> QED BY <1>1, <1>3, <1>5, <1>7, <2>3, WordMoves
<1>11. CreditInv'
  <2>1. \A q \in Rule \ met : q \in txn[c].rules \cup DOMAIN txn[c].wrote =>
          \A d \in Connection \ {c} : ~ Evaluating(d, q)
    BY <1>1 DEF CreditInv, Evaluating
  <2>2. r \notin met => credit[r] >= 1
    BY <1>1, <1>2 DEF CreditInv, ToldNow
  <2>3. \A q \in Rule \ met' : credit'[q] >= 0
    BY <1>1, <1>5, <1>8, <2>2 DEF CreditInv
  <2>4. \A q \in Rule \ met' :
          /\ q \in t.rules /\ q # NextRule(c)' => credit'[q] >= 1
          /\ q \in DOMAIN t.wrote /\ t.wrote[q] = "ACTIVE" => credit'[q] >= 1
    <3>1. r \notin DOMAIN txn[c].wrote
      BY <1>1, <1>2 DEF ListedOnce
    <3> QED BY <1>1, <1>4, <1>5, <1>7, <1>8, <3>1 DEF CreditInv, ToldNow
  <2>5. \A q \in Rule \ met' : q \in t.sent =>
          \/ q \in DOMAIN t.wrote /\ t.wrote[q] = "TRIGGERED"
          \/ q = NextRule(c)'
          \/ ruleStatus'[q] = "gone"
    BY <1>1, <1>4, <1>5, <1>7 DEF CreditInv, ToldNow
  <2>6. \A q \in Rule \ met' : \A d \in Connection \ {c} :
          Evaluating(d, q) => credit'[q] >= credit[q]
    BY <1>2, <1>5, <1>8, <2>1
  <2>7. \A q \in Rule \ met' : ruleStatus'[q] = "ACTIVE" =>
          credit'[q] >= 1 \/ q \in t.sent \/ \E d \in Connection \ {c} : q \in txn[d].sent
    BY <1>1, <1>4, <1>5, <1>8 DEF CreditInv
  <2> QED BY <1>1, <1>3, <1>4, <1>5, <1>8, <2>1, <2>3, <2>4, <2>5, <2>6, <2>7, CreditMoves
<1> QED BY <1>9, <1>10, <1>11 DEF AlertsInv

(* What a rollback undoes: the messages of its rules may come again. *)
LEMMA AbortKeepsAlerts ==
  ASSUME AlertsInv, NEW c \in Connection, Abort(c)
  PROVE  AlertsInv'
<1>1. AlertsSound /\ WordInv /\ CreditInv
  BY DEF AlertsInv
<1>2. Moved(c, "idle", NoTxn)
  BY <1>1, OneMoves DEF Abort
<1>3. /\ ruleStatus' = ruleStatus /\ intent' = intent /\ told' = told
      /\ crossed' = crossed /\ met' = met
      /\ credit' = [r \in Rule |-> credit[r] + IF r \in txn[c].sent THEN 1 ELSE 0]
  BY DEF Abort
<1>4. credit \in [Rule -> Int] /\ credit' \in [Rule -> Int]
  BY <1>1, <1>3 DEF AlertsSound
<1>5. \A q \in Rule : /\ credit'[q] >= credit[q]
                      /\ q \in txn[c].sent => credit'[q] = credit[q] + 1
  BY <1>3, <1>4
<1>6. AlertsSound'
  <2>1. TxnSound(c)' /\ ListedOnce(c)'
    BY <1>2, IdleIsSound DEF Moved
  <2>2. \A d \in Connection : \A q \in DOMAIN txn[d].wrote : ruleStatus[q] \in Kept
    BY <1>1 DEF AlertsSound, RowsLocked
  <2>3. ruleStatus' \in [Rule -> Kept \cup {"new", "gone"}] /\ DOMAIN intent' = Rule
    BY <1>1, <1>3 DEF AlertsSound
  <2> QED BY <1>1, <1>2, <1>3, <1>4, <2>1, <2>2, <2>3, NoTxnFields, SoundMoves
<1>7. WordInv'
  <2>1. \A q \in Rule \ crossed : MeantNext(q, ruleStatus'[q])
    BY <1>1, <1>3 DEF WordInv, Meant, MeantNext
  <2> QED BY <1>1, <1>2, <1>3, <2>1, NoTxnFields, WordMoves
<1>8. CreditInv'
  <2>1. \A q \in Rule \ met' : credit[q] >= 0 /\ credit'[q] >= 0
    BY <1>1, <1>3, <1>4, <1>5 DEF CreditInv
  <2>2. \A q \in Rule \ met' : ruleStatus'[q] = "ACTIVE" =>
          credit'[q] >= 1 \/ \E d \in Connection \ {c} : q \in txn[d].sent
    BY <1>1, <1>3, <1>4, <1>5, <2>1 DEF CreditInv
  <2> QED BY <1>1, <1>2, <1>3, <1>4, <1>5, <2>1, <2>2, NoTxnFields, CreditMoves
<1> QED BY <1>6, <1>7, <1>8 DEF AlertsInv

LEMMA UserFailsKeepsAlerts ==
  ASSUME AlertsInv, NEW c \in Scheduler, UserFails(c)
  PROVE  AlertsInv'
<1> DEFINE t == [txn[c] EXCEPT !.rules = {}]
<1>1. /\ AlertsSound /\ WordInv /\ CreditInv /\ c \in Connection /\ pc[c] = "rule"
      /\ TxnSound(c) /\ ListedOnce(c)
  BY DEF AlertsInv, AlertsSound, UserFails, Connection
<1>2. Moved(c, "user", t)
  BY <1>1, OneMoves DEF UserFails
<1>3. /\ DOMAIN t = Columns /\ t.users = txn[c].users /\ t.rules = {}
      /\ t.seen = txn[c].seen /\ t.wrote = txn[c].wrote /\ t.sent = txn[c].sent
  BY <1>1 DEF TxnSound, Columns
<1>4. /\ ruleStatus' = ruleStatus /\ intent' = intent /\ told' = told
      /\ crossed' = crossed /\ met' = met /\ credit' = credit
  BY DEF UserFails, historyVars
<1> HIDE DEF t
<1>5. pc'[c] = "user" /\ txn'[c] = t
  BY <1>2 DEF Moved
<1>6. AlertsSound'
  <2>1. TxnSound(c)'
    <3>1. c \notin Client
      BY AlertsAssumption
    <3> QED BY <1>1, <1>3, <1>5, <3>1 DEF TxnSound
  <2>2. ListedOnce(c)'
    BY <1>1, <1>3, <1>5 DEF ListedOnce
  <2>3. /\ \A d \in Connection : \A q \in DOMAIN txn[d].wrote : ruleStatus[q] \in Kept
        /\ \A d \in Connection \ {c} : DOMAIN t.wrote \cap DOMAIN txn[d].wrote = {}
    BY <1>1, <1>3 DEF AlertsSound, RowsLocked
  <2>4. /\ ruleStatus' \in [Rule -> Kept \cup {"new", "gone"}] /\ DOMAIN intent' = Rule
        /\ credit' \in [Rule -> Int]
    BY <1>1, <1>4 DEF AlertsSound
  <2> QED BY <1>1, <1>2, <1>3, <1>4, <2>1, <2>2, <2>3, <2>4, SoundMoves
<1>7. WordInv'
  <2>1. \A q \in Rule \ crossed :
          /\ Meant(q, ruleStatus[q])
          /\ q \in DOMAIN txn[c].wrote => Meant(q, txn[c].wrote[q])
    BY <1>1 DEF WordInv
  <2>2. DOMAIN t.wrote \subseteq Rule
    BY <1>1, <1>3 DEF TxnSound
  <2>3. /\ \A q \in Rule \ crossed : MeantNext(q, ruleStatus'[q])
        /\ \A q \in DOMAIN t.wrote \ crossed : MeantNext(q, t.wrote[q])
    BY <1>3, <1>4, <2>1, <2>2 DEF Meant, MeantNext
  <2> QED BY <1>1, <1>2, <1>3, <1>4, <2>3, WordMoves
<1>8. CreditInv'
  <2>1. \A q \in Rule : credit'[q] >= credit[q]
    BY <1>1, <1>4 DEF AlertsSound
  <2>2. \A q \in Rule \ met :
          /\ credit[q] >= 0
          /\ q \in DOMAIN txn[c].wrote => \A d \in Connection \ {c} : ~ Evaluating(d, q)
          /\ q \in DOMAIN txn[c].wrote /\ txn[c].wrote[q] = "ACTIVE" => credit[q] >= 1
          /\ q \in txn[c].sent => \/ q \in DOMAIN txn[c].wrote /\ txn[c].wrote[q] = "TRIGGERED"
                                  \/ ruleStatus[q] = "gone"
          /\ ruleStatus[q] = "ACTIVE" =>
               credit[q] >= 1 \/ \E d \in Connection : q \in txn[d].sent
    BY <1>1 DEF CreditInv, Evaluating, ToldNow
  <2>3. credit' \in [Rule -> Int]
    BY <1>1, <1>4 DEF AlertsSound
  <2>4. \A q \in Rule \ met' : ruleStatus'[q] = "ACTIVE" =>
          credit'[q] >= 1 \/ q \in t.sent \/ \E d \in Connection \ {c} : q \in txn[d].sent
    BY <1>3, <1>4, <2>2
  <2> QED BY <1>1, <1>2, <1>3, <1>4, <2>1, <2>2, <2>3, <2>4, CreditMoves
<1> QED BY <1>6, <1>7, <1>8 DEF AlertsInv

LEMMA CommitRunKeepsAlerts ==
  ASSUME AlertsInv, NEW c \in Scheduler, CommitRun(c)
  PROVE  AlertsInv'
<1>1. AlertsSound /\ WordInv /\ CreditInv /\ c \in Connection /\ pc[c] = "user" /\ TxnSound(c)
  BY DEF AlertsInv, AlertsSound, CommitRun, Connection
<1>2. Moved(c, "idle", NoTxn)
  BY <1>1, OneMoves DEF CommitRun
<1>3. /\ ruleStatus' = [q \in Rule |-> IF q \in DOMAIN txn[c].wrote THEN txn[c].wrote[q]
                                                              ELSE ruleStatus[q]]
      /\ intent' = intent /\ told' = told /\ crossed' = crossed /\ met' = met
      /\ credit' = credit
  BY DEF CommitRun, historyVars
<1>4. \A q \in DOMAIN txn[c].wrote :
        q \in Rule /\ txn[c].wrote[q] \in Kept /\ ruleStatus[q] \in Kept
  BY <1>1 DEF TxnSound, AlertsSound, RowsLocked
<1>5. AlertsSound'
  <2>1. TxnSound(c)' /\ ListedOnce(c)'
    BY <1>1, <1>2, IdleIsSound DEF Moved
  <2>2. \A d \in Connection : \A q \in DOMAIN txn[d].wrote :
          q \in Rule /\ ruleStatus[q] \in Kept
    BY <1>1 DEF AlertsSound, RowsLocked, TxnSound
  <2>3. \A d \in Connection : \A q \in DOMAIN txn[d].wrote : ruleStatus'[q] \in Kept
    BY <1>3, <1>4, <2>2
  <2>4. ruleStatus' \in [Rule -> Kept \cup {"new", "gone"}]
    BY <1>1, <1>3, <1>4 DEF AlertsSound
  <2>5. DOMAIN intent' = Rule /\ credit' \in [Rule -> Int]
    BY <1>1, <1>3 DEF AlertsSound
  <2>6. \A q \in Rule : ruleStatus[q] # "new" => ruleStatus'[q] # "new"
    BY <1>3, <1>4 DEF Kept
  <2> QED BY <1>1, <1>2, <2>1, <2>3, <2>4, <2>5, <2>6, NoTxnFields, SoundMoves
<1>6. WordInv'
  <2>1. \A q \in Rule \ crossed :
          /\ Meant(q, ruleStatus[q])
          /\ q \in DOMAIN txn[c].wrote => Meant(q, txn[c].wrote[q])
    BY <1>1 DEF WordInv
  <2>2. \A q \in Rule \ crossed : MeantNext(q, ruleStatus'[q])
    BY <1>3, <2>1 DEF Meant, MeantNext
  <2> QED BY <1>1, <1>2, <1>3, <2>2, NoTxnFields, WordMoves
<1>7. CreditInv'
  <2>1. credit' \in [Rule -> Int] /\ \A q \in Rule \ met' : credit'[q] >= 0
    BY <1>1, <1>3 DEF CreditInv, AlertsSound
  <2>2. \A q \in Rule \ met :
          /\ q \in DOMAIN txn[c].wrote /\ txn[c].wrote[q] = "ACTIVE" => credit[q] >= 1
          /\ q \in txn[c].sent => \/ q \in DOMAIN txn[c].wrote /\ txn[c].wrote[q] = "TRIGGERED"
                                  \/ ruleStatus[q] = "gone"
          /\ ruleStatus[q] = "ACTIVE" =>
               credit[q] >= 1 \/ \E d \in Connection : q \in txn[d].sent
    BY <1>1 DEF CreditInv, ToldNow
  <2>3. ASSUME NEW q \in Rule \ met', ruleStatus'[q] = "ACTIVE"
        PROVE  credit'[q] >= 1 \/ \E d \in Connection \ {c} : q \in txn[d].sent
    <3>1. CASE q \in DOMAIN txn[c].wrote
      BY <1>3, <2>2, <2>3, <3>1
    <3>2. CASE q \notin DOMAIN txn[c].wrote
      <4>1. ruleStatus[q] = "ACTIVE"
        BY <1>3, <2>3, <3>2
      <4> QED BY <1>3, <2>2, <3>2, <4>1
    <3> QED BY <3>1, <3>2
  <2>4. \A q \in Rule : credit'[q] >= credit[q]
    BY <1>1, <1>3 DEF AlertsSound
  <2>5. \A q \in Rule : ruleStatus[q] = "gone" => ruleStatus'[q] = "gone"
    BY <1>3, <1>4 DEF Kept
  <2> QED BY <1>1, <1>2, <1>3, <2>1, <2>3, <2>4, <2>5, NoTxnFields, CreditMoves
<1> QED BY <1>5, <1>6, <1>7 DEF AlertsInv

LEMMA MarkRuleKeepsAlerts ==
  ASSUME AlertsInv, NEW c \in Scheduler, MarkRule(c)
  PROVE  AlertsInv'
<1> DEFINE r == NextRule(c)
<1> DEFINE rest == txn[c].rules \ {r}
<1> DEFINE wrote == IF ruleStatus[r] = "gone" THEN txn[c].wrote
                    ELSE Put(txn[c].wrote, r, Verdict(c, r))
<1> DEFINE t == Txn(txn[c].users, rest, txn[c].hits, txn[c].seen, wrote, txn[c].sent)
<1> DEFINE l == IF rest = {} THEN "user" ELSE "rule"
<1>1. /\ AlertsSound /\ WordInv /\ CreditInv /\ c \in Connection /\ ToMark(c)
      /\ TxnSound(c) /\ ListedOnce(c) /\ c \notin Client
  BY AlertsAssumption DEF AlertsInv, AlertsSound, MarkRule, Connection
<1>2. Moved(c, l, t)
  BY <1>1, OneMoves DEF MarkRule
<1>3. /\ r \in txn[c].rules /\ r \in Rule /\ r \notin DOMAIN txn[c].wrote
      /\ ruleStatus[r] \in Kept \cup {"gone"}
      /\ Verdict(c, r) \in Kept
      /\ r \notin crossed => Meant(r, Verdict(c, r))
      /\ r \notin met /\ Verdict(c, r) = "ACTIVE" => credit[r] >= 1
      /\ pc[c] = "mark" => Verdict(c, r) = "TRIGGERED"
  BY <1>1, VerdictIsMeant
<1>4. /\ ruleStatus' = ruleStatus /\ intent' = intent /\ told' = told
      /\ crossed' = crossed /\ met' = met /\ credit' = credit
      /\ \A d \in Connection \ {c} : r \notin DOMAIN txn[d].wrote
  BY DEF MarkRule, historyVars, RowLocked
<1>5. /\ DOMAIN t = Columns /\ t.users = txn[c].users /\ t.rules = rest
      /\ t.seen = txn[c].seen /\ t.wrote = wrote /\ t.sent = txn[c].sent
  BY DEF Txn, Columns
(* What is written of r, and that of the others nothing changes. *)
<1>6. /\ ruleStatus[r] = "gone" => wrote = txn[c].wrote
      /\ ruleStatus[r] # "gone" =>
           DOMAIN wrote = DOMAIN txn[c].wrote \cup {r} /\ wrote[r] = Verdict(c, r)
      /\ \A q \in DOMAIN txn[c].wrote : q \in DOMAIN wrote /\ wrote[q] = txn[c].wrote[q]
  <2>1. CASE ruleStatus[r] = "gone"
    BY <2>1
  <2>2. CASE ruleStatus[r] # "gone"
    <3>1. wrote = Put(txn[c].wrote, r, Verdict(c, r))
      BY <2>2
    <3> HIDE DEF wrote, r
    <3> QED BY <1>3, <2>2, <3>1 DEF Put
  <2> QED BY <2>1, <2>2
<1>7. rest \subseteq txn[c].rules /\ r \notin rest /\ \A q \in txn[c].rules : q = r \/ q \in rest
  OBVIOUS
<1>8. l = (IF rest = {} THEN "user" ELSE "rule") /\ l # "mark"
  OBVIOUS
<1> HIDE DEF r, rest, wrote, t, l
<1>9. pc'[c] = l /\ txn'[c] = t
  BY <1>2 DEF Moved
<1>10. \A q \in DOMAIN wrote :
         \/ q \in DOMAIN txn[c].wrote /\ wrote[q] = txn[c].wrote[q]
         \/ q = r /\ ruleStatus[r] \in Kept /\ wrote[q] = Verdict(c, r)
  BY <1>3, <1>6
<1>11. AlertsSound'
  <2>1. TxnSound(c)'
    <3>1. DOMAIN wrote \subseteq Rule /\ \A q \in DOMAIN wrote : wrote[q] \in Kept
      BY <1>1, <1>3, <1>10 DEF TxnSound
    <3>2. /\ txn[c].users \subseteq User /\ rest \subseteq Rule /\ txn[c].sent \subseteq Rule
          /\ DOMAIN txn[c].seen \subseteq Rule
          /\ \A q \in DOMAIN txn[c].seen : txn[c].seen[q] \in Kept
          /\ rest \subseteq DOMAIN txn[c].seen
      BY <1>1, <1>7 DEF TxnSound, ToMark
    <3> QED BY <1>1, <1>5, <1>8, <1>9, <3>1, <3>2 DEF TxnSound
  <2>2. ListedOnce(c)'
    <3>1. /\ \A q \in txn[c].rules \cup DOMAIN txn[c].wrote \cup txn[c].sent :
               OwnerOf[q] \notin txn[c].users
          /\ txn[c].rules \cap DOMAIN txn[c].wrote = {}
      BY <1>1 DEF ListedOnce
    <3>2. \A q \in rest \cup DOMAIN wrote \cup txn[c].sent : OwnerOf[q] \notin txn[c].users
      BY <1>3, <1>7, <1>10, <3>1
    <3>3. rest \cap DOMAIN wrote = {}
      BY <1>7, <1>10, <3>1
    <3> QED BY <1>5, <1>9, <3>2, <3>3 DEF ListedOnce
  <2>3. /\ \A d \in Connection : \A q \in DOMAIN txn[d].wrote : ruleStatus[q] \in Kept
        /\ \A d \in Connection \ {c} : DOMAIN txn[c].wrote \cap DOMAIN txn[d].wrote = {}
        /\ \A q \in txn[c].rules : ruleStatus[q] # "new"
    BY <1>1 DEF AlertsSound, RowsLocked
  <2>4. \A d \in Connection \ {c} : DOMAIN t.wrote \cap DOMAIN txn[d].wrote = {}
    BY <1>4, <1>5, <1>10, <2>3
  <2>5. /\ \A q \in t.rules : ruleStatus[q] # "new"
        /\ \A q \in DOMAIN t.wrote : ruleStatus[q] \in Kept
    BY <1>1, <1>5, <1>7, <1>10, <2>3
  <2>6. /\ ruleStatus' \in [Rule -> Kept \cup {"new", "gone"}] /\ DOMAIN intent' = Rule
        /\ credit' \in [Rule -> Int]
    BY <1>1, <1>4 DEF AlertsSound
  <2> QED BY <1>1, <1>2, <1>4, <2>1, <2>2, <2>3, <2>4, <2>5, <2>6, SoundMoves
<1>12. WordInv'
  <2>1. \A q \in Rule \ crossed :
          /\ Meant(q, ruleStatus[q])
          /\ q \in txn[c].rules => Meant(q, txn[c].seen[q])
          /\ q \in DOMAIN txn[c].wrote => Meant(q, txn[c].wrote[q])
    BY <1>1 DEF WordInv
  <2>2. txn[c].rules \subseteq Rule /\ DOMAIN txn[c].wrote \subseteq Rule
    BY <1>1 DEF TxnSound
  <2>3. \A q \in DOMAIN wrote \ crossed : Meant(q, wrote[q])
    BY <1>3, <1>10, <2>1, <2>2
  <2>4. \A q \in rest \ crossed : Meant(q, txn[c].seen[q])
    BY <1>7, <2>1, <2>2
  <2>5. /\ \A q \in Rule \ crossed : MeantNext(q, ruleStatus'[q])
        /\ \A q \in t.rules \ crossed : MeantNext(q, t.seen[q])
        /\ \A q \in DOMAIN t.wrote \ crossed : MeantNext(q, t.wrote[q])
    BY <1>4, <1>5, <2>1, <2>3, <2>4 DEF Meant, MeantNext
  <2> QED BY <1>1, <1>2, <1>4, <1>8, <2>5, WordMoves
<1>13. CreditInv'
  <2>1. \A q \in Rule : credit'[q] >= credit[q]
    BY <1>1, <1>4 DEF AlertsSound
  <2>2. \A q \in Rule \ met :
          /\ credit[q] >= 0
          /\ q \in txn[c].rules \cup DOMAIN txn[c].wrote =>
               \A d \in Connection \ {c} : ~ Evaluating(d, q)
          /\ q \in txn[c].rules /\ q # r => credit[q] >= 1
          /\ q \in DOMAIN txn[c].wrote /\ txn[c].wrote[q] = "ACTIVE" => credit[q] >= 1
          /\ q \in txn[c].sent => \/ q \in DOMAIN txn[c].wrote /\ txn[c].wrote[q] = "TRIGGERED"
                                  \/ pc[c] = "mark" /\ q = r
                                  \/ ruleStatus[q] = "gone"
          /\ ruleStatus[q] = "ACTIVE" =>
               credit[q] >= 1 \/ \E d \in Connection : q \in txn[d].sent
    BY <1>1 DEF CreditInv, Evaluating, ToldNow, r
  <2>3. credit' \in [Rule -> Int] /\ \A q \in Rule \ met' : credit'[q] >= 0
    BY <1>1, <1>4, <2>2 DEF AlertsSound
  <2>4. \A q \in Rule \ met' :
          /\ q \in t.rules \cup DOMAIN t.wrote => \A d \in Connection \ {c} : ~ Evaluating(d, q)
          /\ q \in t.rules => credit'[q] >= 1
          /\ q \in DOMAIN t.wrote /\ t.wrote[q] = "ACTIVE" => credit'[q] >= 1
    BY <1>3, <1>4, <1>5, <1>7, <1>10, <2>2
  <2>5. \A q \in Rule \ met' : q \in t.sent =>
          (q \in DOMAIN t.wrote /\ t.wrote[q] = "TRIGGERED") \/ ruleStatus'[q] = "gone"
    BY <1>3, <1>4, <1>5, <1>6, <2>2
  <2>6. \A q \in Rule \ met' : ruleStatus'[q] = "ACTIVE" =>
          credit'[q] >= 1 \/ q \in t.sent \/ \E d \in Connection \ {c} : q \in txn[d].sent
    BY <1>4, <1>5, <2>2
  <2> QED BY <1>1, <1>2, <1>4, <2>1, <2>3, <2>4, <2>5, <2>6, CreditMoves
<1> QED BY <1>11, <1>12, <1>13 DEF AlertsInv

LEMMA ListRulesKeepsAlerts ==
  ASSUME AlertsInv, NEW c \in Scheduler, ListRules(c)
  PROVE  AlertsInv'
<1> DEFINE users == IF pc[c] = "idle" THEN TierUsers ELSE txn[c].users
<1>1. /\ AlertsSound /\ WordInv /\ CreditInv /\ c \in Connection /\ pc[c] \in {"idle", "user"}
      /\ TxnSound(c) /\ ListedOnce(c) /\ c \notin Client
  BY AlertsAssumption DEF AlertsInv, AlertsSound, ListRules, Connection
<1>2. PICK u \in users :
        /\ Becomes(c, Listed(c, users \ {u}, ListActive(u), [r \in ListActive(u) |-> "ACTIVE"]))
        /\ Goto(c, IF ListActive(u) = {} THEN "user" ELSE "rule")
        /\ NoteMeeting(c, ListActive(u))
  BY DEF ListRules
<1> DEFINE rules == ListActive(u)
<1> DEFINE seen == [r \in rules |-> "ACTIVE"]
<1> DEFINE t == Listed(c, users \ {u}, rules, seen)
<1> DEFINE l == IF rules = {} THEN "user" ELSE "rule"
<1>3. Moved(c, l, t)
  BY <1>1, <1>2, OneMoves
<1>4. /\ DOMAIN t = Columns /\ t.users = users \ {u} /\ t.rules = rules
      /\ t.seen = seen /\ t.wrote = txn[c].wrote /\ t.sent = txn[c].sent
  BY DEF Listed, Txn, Columns
<1>5. DOMAIN seen = rules /\ \A q \in rules : seen[q] = "ACTIVE"
  OBVIOUS
<1>6. \A q : q \in rules <=> q \in Rule /\ OwnerOf[q] = u /\ ruleStatus[q] = "ACTIVE"
  BY DEF ListActive
<1>7. /\ users \subseteq User /\ txn[c].rules = {}
      /\ \A q \in DOMAIN txn[c].wrote \cup txn[c].sent : OwnerOf[q] \notin users
  <2>1. CASE pc[c] = "idle"
    <3>1. txn[c] = NoTxn
      BY <1>1, <2>1 DEF TxnSound
    <3> QED BY <2>1, <3>1, NoTxnFields DEF TierUsers
  <2>2. CASE pc[c] = "user"
    BY <1>1, <2>2 DEF TxnSound, ListedOnce
  <2> QED BY <1>1, <2>1, <2>2
<1>8. /\ ruleStatus' = ruleStatus /\ intent' = intent /\ told' = told /\ crossed' = crossed
      /\ credit' = credit /\ met \subseteq met'
      /\ \A q \in rules \ met' : \A d \in Connection \ {c} : ~ Evaluating(d, q)
  <2>1. NoteMeeting(c, rules)
    BY <1>2
  <2>2. ruleStatus' = ruleStatus /\ credit' = credit
    BY DEF ListRules
  <2>3. met \subseteq met' /\ \A q \in rules \ met' : \A d \in Connection \ {c} : ~ Evaluating(d, q)
    <3> HIDE DEF rules
    <3> QED BY <2>1, UnmetRules
  <2> QED BY <2>1, <2>2, <2>3 DEF NoteMeeting
<1>9. l = (IF rules = {} THEN "user" ELSE "rule") /\ l # "mark"
  OBVIOUS
<1>10. "ACTIVE" \in Kept
  BY DEF Kept
<1> HIDE DEF rules, seen, users, t, l
<1>11. pc'[c] = l /\ txn'[c] = t
  BY <1>3 DEF Moved
<1>12. AlertsSound'
  <2>1. TxnSound(c)'
    <3>1. /\ rules \subseteq Rule /\ users \ {u} \subseteq User
          /\ txn[c].sent \subseteq Rule /\ DOMAIN txn[c].wrote \subseteq Rule
          /\ \A q \in DOMAIN txn[c].wrote : txn[c].wrote[q] \in Kept
      BY <1>1, <1>6, <1>7 DEF TxnSound
    <3> QED BY <1>1, <1>4, <1>5, <1>9, <1>10, <1>11, <3>1 DEF TxnSound
  <2>2. ListedOnce(c)'
    <3>1. \A q \in rules \cup DOMAIN txn[c].wrote \cup txn[c].sent :
            OwnerOf[q] \notin users \ {u}
      BY <1>6, <1>7
    <3>2. rules \cap DOMAIN txn[c].wrote = {}
      BY <1>2, <1>6, <1>7
    <3> QED BY <1>4, <1>11, <3>1, <3>2 DEF ListedOnce
  <2>3. /\ \A d \in Connection : \A q \in DOMAIN txn[d].wrote : ruleStatus[q] \in Kept
        /\ \A d \in Connection \ {c} : DOMAIN txn[c].wrote \cap DOMAIN txn[d].wrote = {}
    BY <1>1 DEF AlertsSound, RowsLocked
  <2>4. /\ ruleStatus' \in [Rule -> Kept \cup {"new", "gone"}] /\ DOMAIN intent' = Rule
        /\ credit' \in [Rule -> Int]
    BY <1>1, <1>8 DEF AlertsSound
  <2> QED BY <1>1, <1>3, <1>4, <1>6, <1>8, <2>1, <2>2, <2>3, <2>4, SoundMoves
<1>13. WordInv'
  <2>1. \A q \in Rule \ crossed :
          /\ Meant(q, ruleStatus[q])
          /\ q \in DOMAIN txn[c].wrote => Meant(q, txn[c].wrote[q])
    BY <1>1 DEF WordInv
  <2>2. DOMAIN txn[c].wrote \subseteq Rule
    BY <1>1 DEF TxnSound
  <2>3. \A q \in rules \ crossed : Meant(q, seen[q])
    BY <1>5, <1>6, <2>1
  <2>4. /\ \A q \in Rule \ crossed : MeantNext(q, ruleStatus'[q])
        /\ \A q \in t.rules \ crossed : MeantNext(q, t.seen[q])
        /\ \A q \in DOMAIN t.wrote \ crossed : MeantNext(q, t.wrote[q])
    BY <1>4, <1>8, <2>1, <2>2, <2>3 DEF Meant, MeantNext
  <2> QED BY <1>1, <1>3, <1>8, <1>9, <2>4, WordMoves
<1>14. CreditInv'
  <2>1. \A q \in Rule : credit'[q] >= credit[q]
    BY <1>1, <1>8 DEF AlertsSound
  <2>2. \A q \in Rule \ met :
          /\ credit[q] >= 0
          /\ q \in DOMAIN txn[c].wrote => \A d \in Connection \ {c} : ~ Evaluating(d, q)
          /\ q \in DOMAIN txn[c].wrote /\ txn[c].wrote[q] = "ACTIVE" => credit[q] >= 1
          /\ q \in txn[c].sent => \/ q \in DOMAIN txn[c].wrote /\ txn[c].wrote[q] = "TRIGGERED"
                                  \/ ruleStatus[q] = "gone"
          /\ ruleStatus[q] = "ACTIVE" =>
               credit[q] >= 1 \/ \E d \in Connection : q \in txn[d].sent
    BY <1>1 DEF CreditInv, Evaluating, ToldNow
  <2>3. credit' \in [Rule -> Int] /\ \A q \in Rule \ met' : credit'[q] >= 0
    BY <1>1, <1>8, <2>2 DEF AlertsSound
  (* Nobody has sent a message of a rule that is listed, and rolls back. *)
  <2>4. ASSUME NEW q \in rules \ met' PROVE credit'[q] >= 1
    <3>1. q \in Rule \ met /\ ruleStatus[q] = "ACTIVE" /\ OwnerOf[q] = u
      BY <1>6, <1>8
    <3>2. q \notin txn[c].sent
      BY <1>2, <1>7, <3>1
    <3>3. ASSUME NEW d \in Connection \ {c} PROVE q \notin txn[d].sent
      <4>1. ~ Evaluating(d, q)
        BY <1>8
      <4>2. q \notin DOMAIN txn[d].wrote /\ ~ ToldNow(d, q)
        <5>1. pc[d] = "mark" => txn[d].rules # {} /\ txn[d].rules \subseteq Rule
          BY <1>1 DEF AlertsSound, TxnSound
        <5>2. pc[d] = "mark" => NextRule(d) \in txn[d].rules
          BY <5>1, NextRuleInHand
        <5> QED BY <4>1, <5>2 DEF Evaluating, ToldNow
      <4> QED BY <1>1, <3>1, <4>2 DEF CreditInv
    <3> QED BY <1>8, <2>2, <3>1, <3>2, <3>3
  <2>5. \A q \in Rule \ met' :
          /\ q \in t.rules \cup DOMAIN t.wrote => \A d \in Connection \ {c} : ~ Evaluating(d, q)
          /\ q \in t.rules => credit'[q] >= 1
          /\ q \in DOMAIN t.wrote /\ t.wrote[q] = "ACTIVE" => credit'[q] >= 1
    BY <1>4, <1>8, <2>2, <2>4
  <2>6. \A q \in Rule \ met' : q \in t.sent =>
          (q \in DOMAIN t.wrote /\ t.wrote[q] = "TRIGGERED") \/ ruleStatus'[q] = "gone"
    BY <1>4, <1>8, <2>2
  <2>7. \A q \in Rule \ met' : ruleStatus'[q] = "ACTIVE" =>
          credit'[q] >= 1 \/ q \in t.sent \/ \E d \in Connection \ {c} : q \in txn[d].sent
    BY <1>4, <1>8, <2>2
  <2> QED BY <1>1, <1>3, <1>8, <2>1, <2>3, <2>5, <2>6, <2>7, CreditMoves
<1> QED BY <1>12, <1>13, <1>14 DEF AlertsInv

--------------------------------------------------------------------------------
LEMMA AlertsStep ==
  AlertsInv /\ [AlertsNext]_alertVars => AlertsInv'
<1> SUFFICES ASSUME AlertsInv, [AlertsNext]_alertVars PROVE AlertsInv'
  OBVIOUS
<1>1. CASE Tick
  BY <1>1, ElsewhereKeepsAlerts DEF Tick
<1>2. ASSUME NEW s \in Scheduler, RunStep(s) \/ UserFails(s) PROVE AlertsInv'
  <2>1. s \in Connection
    BY DEF Connection
  <2> QED BY <1>2, <2>1, ListRulesKeepsAlerts, DispatchKeepsAlerts, MarkRuleKeepsAlerts,
             CommitRunKeepsAlerts, AbortKeepsAlerts, UserFailsKeepsAlerts
          DEF RunStep, BreakDeadlock
<1>3. ASSUME NEW c \in Client, Request(c) \/ RequestStep(c) PROVE AlertsInv'
  <2>1. c \in Connection
    BY DEF Connection
  <2>2. CASE Request(c)
    BY <2>2, CreateKeepsAlerts, DeleteKeepsAlerts, BeginEvaluateOneKeepsAlerts,
       BeginEditKeepsAlerts DEF Request
  <2>3. CASE RequestStep(c)
    BY <2>1, <2>3, EditKeepsAlerts, DispatchKeepsAlerts, EndEvaluateOneKeepsAlerts
       DEF RequestStep
  <2> QED BY <1>3, <2>2, <2>3
<1>4. ASSUME NEW c \in Connection, Crash(c) PROVE AlertsInv'
  BY <1>4, AbortKeepsAlerts DEF Crash
<1>5. ASSUME NEW r \in Rule, Flip(r) PROVE AlertsInv'
  BY <1>5, ElsewhereKeepsAlerts DEF Flip
<1>6. CASE UNCHANGED alertVars
  BY <1>6, ElsewhereKeepsAlerts DEF alertVars
<1> QED BY <1>1, <1>2, <1>3, <1>4, <1>5, <1>6 DEF AlertsNext

(* The inductive invariant of the alerts: what every transaction has read, *)
(* sent and written agrees with the rows and with what the users asked.    *)
THEOREM AlertsInvariant ==
  AlertsSpec => []AlertsInv
BY AlertsInitially, AlertsStep, PTL DEF AlertsSpec

(* A rule is what its user last made of it, or TRIGGERED with a message    *)
(* sent since, whatever number of server processes run the scheduled       *)
(* evaluation, unless the user changed it while one had it in hand         *)
(* (evaluate_user_rules, evaluate_one, update_rule, delete_rule).          *)
THEOREM UsersWordHolds ==
  AlertsSpec => []UsersWordStands
<1>1. AlertsInv => UsersWordStands
  BY DEF AlertsInv, WordInv, Meant, UsersWordStands
<1> QED BY <1>1, AlertsInvariant, PTL

(* A rule that no two evaluations had at the same time sends one message   *)
(* each time it is armed or evaluated on request, and one more for each    *)
(* message of a run that rolled back.                                      *)
THEOREM OneMessageEach ==
  AlertsSpec => []OneMessagePerArming
<1>1. AlertsInv => OneMessagePerArming
  BY DEF AlertsInv, CreditInv, OneMessagePerArming
<1> QED BY <1>1, AlertsInvariant, PTL
================================================================================
