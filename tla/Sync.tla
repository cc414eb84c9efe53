---------------------------------- MODULE Sync ----------------------------------
(***************************************************************************)
(* Synchronising market data (modules/sync_manager): SyncScheduler.run_all *)
(* and run_task over the tasks that fetch one stock after the other, the   *)
(* jobs of AutoSyncScheduler that run them, and the rate limiter.          *)
(*                                                                         *)
(* sync_states keeps, for each dataset and stock, the last day fetched,    *)
(* and for each dataset the state of its task.  A task loads the days of   *)
(* all stocks at its start; for each stock that is behind today it asks    *)
(* for the days since, and commits the rows and the new last day together. *)
(* The last day becomes the newest day in the answer, but at least the     *)
(* first day asked for, even when the answer is empty.                     *)
(*                                                                         *)
(* Jobs overlap: the daily run, the dedicated run of one dataset and the   *)
(* catch-up run are jobs of their own, and every server process has them.  *)
(* Days are trading days.  Rows are inserted unless they exist, so a day   *)
(* of a stock is there or not.  The rows of an answer are well formed: a   *)
(* malformed one is skipped (prices.py:112) and its day with it.           *)
(***************************************************************************)
EXTENDS Integers, Sequences

CONSTANTS
  Stock,        \* ids of the active stocks
  Dataset,
  Runner,       \* jobs, and requests of the sync API
  Tasks,        \* the datasets each runs, in order
  Limiter,      \* rate limiters: two in every process
  LimiterOf,    \* the one each runner shares
  MaxRequests,  \* permits of a limiter in its window
  Reserve,      \* a task stops at a checkpoint with fewer permits left
  MaxDay,       \* bound: days
  MaxFailures   \* bound: errors and crashes

ASSUME SyncAssumption ==
  /\ Stock \subseteq Nat
  /\ Tasks \in [Runner -> Seq(Dataset)] /\ \A r \in Runner : Tasks[r] # <<>>
  /\ LimiterOf \in [Runner -> Limiter]
  /\ MaxRequests \in Nat \ {0} /\ Reserve \in Nat /\ MaxDay \in Nat /\ MaxFailures \in Nat

VARIABLES
  day,        \* today
  published,  \* FinMind answers for the days up to this one
  stored,     \* days of stocks whose rows are committed
  last,       \* last_synced_date of each dataset and stock; 0 for none
  status,     \* the global row of each dataset
  used,       \* permits in the window of each limiter
  pc,         \* what each runner does next
  job,        \* the task a runner is in
  failures,   \* how many failures there were
  history     \* early answers, tasks that died in silence

syncVars == <<day, published, stored, last, status, used, pc, job, failures, history>>

(* The place of the task in the order; the last days loaded at its start,  *)
(* today as it was then, the stocks to do, whether one was done, and how   *)
(* far the answer in hand reaches.                                         *)
Job(task, map, today, todo, processed, upTo) ==
  [task |-> task, map |-> map, today |-> today, todo |-> todo,
   processed |-> processed, upTo |-> upTo]

NoJobAt(task) == Job(task, [s \in Stock |-> 0], 0, {}, FALSE, 0)

NoJob == NoJobAt(0)

InitSync ==
  /\ day = 1 /\ published = 0
  /\ stored = {}
  /\ last = [ds \in Dataset |-> [s \in Stock |-> 0]]
  /\ status = [ds \in Dataset |-> "never_run"]
  /\ used = [l \in Limiter |-> 0]
  /\ pc = [r \in Runner |-> "idle"]
  /\ job = [r \in Runner |-> NoJob]
  /\ failures = 0
  /\ history = [early |-> {}, silent |-> {}]

Doing(r) == Tasks[r][job[r].task]
InTask(r) == pc[r] \in {"stock", "store"}
Remaining(r) == MaxRequests - used[LimiterOf[r]]

(* Stocks are taken in the order of their ids. *)
NextStock(r) == CHOOSE s \in job[r].todo : \A q \in job[r].todo : s <= q

--------------------------------------------------------------------------------
(* run_task. *)

(* Mutation: a stock counts as up to date a day too soon. *)
Behind_ByTwo(map, today) == {s \in Stock : map[s] + 1 < today}

(* Stocks with last_synced_date >= today are passed over. *)
Behind(map, today) == {s \in Stock : map[s] < today}

(* The row of the dataset turns "running", and the task loads stocks and   *)
(* sync states: the first one of a run, or the next one.                   *)
BeginTask(r) ==
  LET i  == job[r].task + 1
      ds == Tasks[r][i]
  IN  /\ pc[r] \in {"idle", "task"}
      /\ status' = [status EXCEPT ![ds] = "running"]
      /\ job' = [job EXCEPT ![r] = Job(i, last[ds], day, Behind(last[ds], day), FALSE, 0)]
      /\ pc' = [pc EXCEPT ![r] = "stock"]
      /\ UNCHANGED <<day, published, stored, last, used, failures, history>>

(* After a task the run goes on with the next one, or ends. *)
Leave(r) ==
  IF job[r].task < Len(Tasks[r])
  THEN /\ pc' = [pc EXCEPT ![r] = "task"]
       /\ job' = [job EXCEPT ![r] = NoJobAt(job[r].task)]
  ELSE /\ pc' = [pc EXCEPT ![r] = "idle"]
       /\ job' = [job EXCEPT ![r] = NoJob]

(* The final status of the task is committed. *)
EndTask(r, final) ==
  /\ status' = [status EXCEPT ![Doing(r)] = final]
  /\ history' = [history EXCEPT !.silent = @ \ {Doing(r)}]
  /\ Leave(r)
  /\ UNCHANGED <<day, published, stored, last, used>>

Complete(r) ==
  /\ pc[r] = "stock" /\ job[r].todo = {}
  /\ EndTask(r, "completed")
  /\ UNCHANGED failures

(* wait_and_acquire timed out, or a checkpoint found the budget low: the   *)
(* task stops with "rate_limit", and the run goes on with the next one.    *)
GiveUp(r) ==
  /\ pc[r] = "stock"
  /\ \/ job[r].todo # {} /\ Remaining(r) = 0
     \/ job[r].processed /\ Remaining(r) < Reserve
  /\ EndTask(r, "partial")
  /\ UNCHANGED failures

(* The job of r with an answer in hand, or after a stock. *)
Holding(r, upTo) ==
  Job(job[r].task, job[r].map, job[r].today, job[r].todo, job[r].processed, upTo)

After(r, s, processed) ==
  Job(job[r].task, job[r].map, job[r].today, job[r].todo \ {s}, processed, 0)

Min(a, b) == IF a < b THEN a ELSE b

(* A permit, and the answer for the days from the first one missing.       *)
Fetch(r) ==
  /\ pc[r] = "stock" /\ job[r].todo # {}
  /\ Remaining(r) > 0
  /\ used' = [used EXCEPT ![LimiterOf[r]] = @ + 1]
  /\ pc' = [pc EXCEPT ![r] = "store"]
  /\ job' = [job EXCEPT ![r] = Holding(r, Min(published, job[r].today))]
  /\ UNCHANGED <<day, published, stored, last, status, failures, history>>

(* start_date *)
FirstDay(r, s) == job[r].map[s] + 1

(* Mutation: the stock is synced up to the day that was asked for. *)
NewestDay_Asked(r, s) == job[r].today

(* max_date: the newest day of the answer, never before start_date. *)
NewestDay(r, s) ==
  IF job[r].upTo < FirstDay(r, s) THEN FirstDay(r, s) ELSE job[r].upTo

(* The rows of one stock and its sync state, in one transaction. *)
Store(r) ==
  LET s  == NextStock(r)
      ds == Doing(r)
  IN  /\ pc[r] = "store"
      /\ stored' = stored \cup {<<ds, s, d>> : d \in FirstDay(r, s) .. job[r].upTo}
      /\ last' = [last EXCEPT ![ds] = [@ EXCEPT ![s] = NewestDay(r, s)]]
      /\ history' = IF job[r].upTo < FirstDay(r, s)
                    THEN [history EXCEPT !.early = @ \cup {<<ds, s>>}] ELSE history
      /\ pc' = [pc EXCEPT ![r] = "stock"]
      /\ job' = [job EXCEPT ![r] = After(r, s, TRUE)]
      /\ UNCHANGED <<day, published, status, used, failures>>

--------------------------------------------------------------------------------
(* Failures. *)

Failing ==
  /\ failures < MaxFailures
  /\ failures' = failures + 1

(* One fetch fails: an error is counted, the stock waits for the next run. *)
FetchFails(r) ==
  /\ pc[r] = "store"
  /\ Failing
  /\ pc' = [pc EXCEPT ![r] = "stock"]
  /\ job' = [job EXCEPT ![r] = After(r, NextStock(r), job[r].processed)]
  /\ UNCHANGED <<day, published, stored, last, status, used, history>>

(* FinMind itself says that the rate is exceeded. *)
RateLimited(r) ==
  /\ pc[r] = "store"
  /\ Failing
  /\ EndTask(r, "partial")

(* Mutation: the exception is swallowed. *)
TaskFails_Silently(r) ==
  /\ InTask(r)
  /\ Failing
  /\ Leave(r)
  /\ UNCHANGED <<day, published, stored, last, status, used, history>>

(* The task raises: "failed", with its message. *)
TaskFails(r) ==
  /\ InTask(r)
  /\ Failing
  /\ EndTask(r, "failed")

(* A statement fails: the transaction is aborted, the status write fails   *)
(* with it, and so does the first statement of the next task: the run      *)
(* ends.  Or the process dies.                                             *)
Die(r) ==
  /\ InTask(r)
  /\ Failing
  /\ pc' = [pc EXCEPT ![r] = "idle"]
  /\ job' = [job EXCEPT ![r] = NoJob]
  /\ history' = [history EXCEPT !.silent = @ \cup {Doing(r)}]
  /\ UNCHANGED <<day, published, stored, last, status, used>>

--------------------------------------------------------------------------------
(* Time. *)

NewDay ==
  /\ day < MaxDay
  /\ day' = day + 1
  /\ UNCHANGED <<published, stored, last, status, used, pc, job, failures, history>>

(* The exchange publishes a day after its close, some time. *)
Publish ==
  /\ published < day
  /\ published' = published + 1
  /\ UNCHANGED <<day, stored, last, status, used, pc, job, failures, history>>

(* _purge_expired: the oldest permit leaves the window. *)
Expire(l) ==
  /\ used[l] > 0
  /\ used' = [used EXCEPT ![l] = @ - 1]
  /\ UNCHANGED <<day, published, stored, last, status, pc, job, failures, history>>

RunStep(r) == BeginTask(r) \/ Complete(r) \/ GiveUp(r) \/ Fetch(r) \/ Store(r)

SyncNext ==
  \/ \E r \in Runner :
       RunStep(r) \/ FetchFails(r) \/ RateLimited(r) \/ TaskFails(r) \/ Die(r)
  \/ NewDay \/ Publish \/ \E l \in Limiter : Expire(l)

(* The triggers fire again and again, a run that can go on does, and       *)
(* permits expire.  Nothing is promised about the exchange.                *)
SyncSpec ==
  /\ InitSync /\ [][SyncNext]_syncVars
  /\ \A r \in Runner : WF_syncVars(RunStep(r))
  /\ \A l \in Limiter : WF_syncVars(Expire(l))

--------------------------------------------------------------------------------
(* Properties. *)

DaysStored(ds, s) == \A d \in 1 .. last[ds][s] : <<ds, s, d>> \in stored \/ d > published

(* Up to its last synced day a stock has every published day, although     *)
(* jobs overlap and write last_synced_date from what they loaded at their  *)
(* start, and tasks stop, fail and die between two stocks.  The exception  *)
(* is a stock that was fetched before a day was published: see             *)
(* UpToDateIsComplete.                                                     *)
SyncedDaysStored ==
  \A ds \in Dataset, s \in Stock : <<ds, s>> \in history.early \/ DaysStored(ds, s)

(* Every published day of a stock arrives, however often the budget runs   *)
(* out, a run fails or two of them meet, unless the stock was fetched too  *)
(* early once.  (The days are bounded, so "again and again" is "in the     *)
(* end, and for good".)                                                    *)
PublishedDaysArrive ==
  []<>(\A ds \in Dataset, s \in Stock, d \in 1 .. MaxDay :
         \/ d > published
         \/ <<ds, s, d>> \in stored
         \/ <<ds, s>> \in history.early)

(* A dataset is "running" only while somebody runs it: whatever else stops *)
(* or fails leaves a final status, also when another run of the same       *)
(* dataset goes on (run_task, hardened after a silent failure).  Only a    *)
(* database error, whose status write fails as well, and a crash leave it  *)
(* behind.                                                                 *)
NoSilentRun ==
  \A ds \in Dataset :
    status[ds] = "running" =>
      ds \in history.silent \/ \E r \in Runner : InTask(r) /\ Doing(r) = ds

(* A stock passed over as "already up to date" (tasks/prices.py) has its   *)
(* published days.                                                         *)
UpToDateIsComplete == \A ds \in Dataset, s \in Stock : DaysStored(ds, s)
================================================================================
