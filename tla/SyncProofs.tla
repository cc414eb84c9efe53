------------------------------- MODULE SyncProofs -------------------------------
(***************************************************************************)
(* Synchronisation, for any stocks, datasets, runners, limiters, days and  *)
(* failures: a synced day has its rows, and nothing shows "running" that   *)
(* nobody runs.                                                            *)
(***************************************************************************)
EXTENDS Sync, TLAPS

JobRow == [task : Nat, map : [Stock -> Nat], today : Nat, todo : SUBSET Stock,
           processed : BOOLEAN, upTo : Nat]

SyncTyped ==
  /\ day \in Nat /\ published \in Nat
  /\ last \in [Dataset -> [Stock -> Nat]]
  /\ status \in [Dataset -> {"never_run", "running", "completed", "partial", "failed"}]
  /\ pc \in [Runner -> {"idle", "task", "stock", "store"}]
  /\ job \in [Runner -> JobRow]
  /\ DOMAIN history = {"early", "silent"}

(* Where a runner is in the order of its tasks. *)
InOrder ==
  \A r \in Runner :
    /\ pc[r] = "idle" => job[r].task = 0
    /\ pc[r] = "task" => job[r].task < Len(Tasks[r])
    /\ InTask(r) => job[r].task \in 1 .. Len(Tasks[r])

Whole(ds, s, d) == <<ds, s>> \in history.early \/ \A e \in 1 .. d : <<ds, s, e>> \in stored

(* Every last day that was ever committed, also one that a task loaded     *)
(* long ago, has all days up to it.                                        *)
LastDaysWhole ==
  /\ \A ds \in Dataset, s \in Stock : Whole(ds, s, last[ds][s])
  /\ \A r \in Runner : InTask(r) => \A s \in Stock : Whole(Doing(r), s, job[r].map[s])

SyncInv == SyncTyped /\ InOrder /\ LastDaysWhole /\ NoSilentRun

--------------------------------------------------------------------------------
LEMMA WholeGrows ==
  ASSUME NEW ds, NEW s, NEW d, Whole(ds, s, d),
         stored \subseteq stored', history.early \subseteq history.early'
  PROVE  Whole(ds, s, d)'
  BY DEF Whole

LEMMA RowFields ==
  ASSUME NEW i \in Nat, NEW map \in [Stock -> Nat], NEW t \in Nat, NEW todo \in SUBSET Stock,
         NEW p \in BOOLEAN, NEW u \in Nat
  PROVE  Job(i, map, t, todo, p, u) \in JobRow
  BY DEF Job, JobRow

LEMMA NoJobTyped ==
  ASSUME NEW i \in Nat
  PROVE  NoJobAt(i) \in JobRow /\ NoJobAt(i).task = i
  <1>1. [s \in Stock |-> 0] \in [Stock -> Nat] /\ {} \in SUBSET Stock /\ FALSE \in BOOLEAN
    OBVIOUS
  <1>2. NoJobAt(i) \in JobRow
    BY <1>1, RowFields DEF NoJobAt
  <1> QED
    BY <1>2 DEF NoJobAt, Job

LEMMA InitSyncInv == InitSync => SyncInv
  <1> SUFFICES ASSUME InitSync PROVE SyncInv
    OBVIOUS
  <1>1. NoJob \in JobRow /\ NoJob.task = 0
    BY NoJobTyped DEF NoJob
  <1>2. SyncTyped
    <2>1. last \in [Dataset -> [Stock -> Nat]]
      BY DEF InitSync
    <2> QED
      BY <1>1, <2>1 DEF InitSync, SyncTyped
  <1>3. InOrder
    BY <1>1 DEF InitSync, InOrder, InTask
  <1>4. LastDaysWhole
    <2>1. \A ds \in Dataset, s \in Stock : last[ds][s] = 0
      BY DEF InitSync
    <2>2. \A r \in Runner : ~ InTask(r)
      BY DEF InitSync, InTask
    <2>3. \A e \in 1 .. 0 : FALSE
      OBVIOUS
    <2>4. \A ds, s : Whole(ds, s, 0)
      BY <2>3 DEF Whole
    <2> QED
      BY <2>1, <2>2, <2>4 DEF LastDaysWhole
  <1>5. NoSilentRun
    BY DEF InitSync, NoSilentRun
  <1> QED
    BY <1>2, <1>3, <1>4, <1>5 DEF SyncInv

(* A step of r leaves the tasks of the others alone. *)
LEMMA OthersStay ==
  ASSUME SyncInv, NEW r \in Runner, NEW q \in Runner, q # r,
         NEW p, pc' = [pc EXCEPT ![r] = p], NEW j, job' = [job EXCEPT ![r] = j]
  PROVE  pc'[q] = pc[q] /\ job'[q] = job[q] /\ InTask(q)' = InTask(q) /\ Doing(q)' = Doing(q)
  BY DEF SyncInv, SyncTyped, InTask, Doing

LEMMA ItsOwn ==
  ASSUME SyncInv, NEW r \in Runner,
         NEW p \in {"idle", "task", "stock", "store"}, pc' = [pc EXCEPT ![r] = p],
         NEW j \in JobRow, job' = [job EXCEPT ![r] = j]
  PROVE  /\ pc'[r] = p /\ job'[r] = j
         /\ pc' \in [Runner -> {"idle", "task", "stock", "store"}]
         /\ job' \in [Runner -> JobRow]
         /\ Doing(r)' = Tasks[r][j.task]
         /\ InTask(r)' = (p \in {"stock", "store"})
  BY DEF SyncInv, SyncTyped, InTask, Doing

LEMMA DoingDataset ==
  ASSUME NEW r \in Runner, NEW i \in 1 .. Len(Tasks[r])
  PROVE  Tasks[r][i] \in Dataset
  BY SyncAssumption

--------------------------------------------------------------------------------
(* What a runner does at its own place: it goes on with its task, or it    *)
(* leaves it.                                                              *)

(* The runner stays in its task, with the map it loaded; rows and early    *)
(* answers only grow.                                                      *)
LEMMA GoesOn ==
  ASSUME SyncInv, NEW r \in Runner, InTask(r),
         NEW p \in {"stock", "store"}, pc' = [pc EXCEPT ![r] = p],
         NEW j \in JobRow, job' = [job EXCEPT ![r] = j],
         j.task = job[r].task, j.map = job[r].map,
         stored \subseteq stored', history.early \subseteq history.early',
         history.silent' = history.silent, DOMAIN history' = DOMAIN history,
         last' \in [Dataset -> [Stock -> Nat]],
         \A ds \in Dataset, s \in Stock : Whole(ds, s, last[ds][s])',
         UNCHANGED <<day, published, status>>
  PROVE  SyncInv'
  <1>1. pc'[r] = p /\ job'[r] = j /\ InTask(r)' /\ Doing(r)' = Doing(r)
        /\ pc' \in [Runner -> {"idle", "task", "stock", "store"}] /\ job' \in [Runner -> JobRow]
    BY ItsOwn DEF Doing
  <1>2. SyncTyped'
    BY <1>1 DEF SyncInv, SyncTyped
  <1>3. InOrder'
    <2> SUFFICES ASSUME NEW q \in Runner
                 PROVE  /\ pc'[q] = "idle" => job'[q].task = 0
                        /\ pc'[q] = "task" => job'[q].task < Len(Tasks[q])
                        /\ InTask(q)' => job'[q].task \in 1 .. Len(Tasks[q])
      BY DEF InOrder
    <2>1. CASE q = r
      BY <2>1, <1>1 DEF SyncInv, InOrder
    <2>2. CASE q # r
      BY <2>2, OthersStay DEF SyncInv, InOrder
    <2> QED
      BY <2>1, <2>2
  <1>4. LastDaysWhole'
    <2> SUFFICES ASSUME NEW q \in Runner, InTask(q)', NEW s \in Stock
                 PROVE  Whole(Doing(q), s, job[q].map[s])'
      BY DEF LastDaysWhole
    <2>1. InTask(q) /\ Doing(q)' = Doing(q) /\ job'[q].map = job[q].map
      BY <1>1, OthersStay
    <2>2. Whole(Doing(q), s, job[q].map[s])
      BY <2>1 DEF SyncInv, LastDaysWhole
    <2> QED
      BY <2>1, <2>2 DEF Whole
  <1>5. NoSilentRun'
    <2> SUFFICES ASSUME NEW ds \in Dataset, status[ds] = "running", ds \notin history.silent
                 PROVE  \E q \in Runner : InTask(q)' /\ Doing(q)' = ds
      BY DEF NoSilentRun
    <2>1. PICK q \in Runner : InTask(q) /\ Doing(q) = ds
      BY DEF SyncInv, NoSilentRun
    <2> QED
      BY <1>1, <2>1, OthersStay
  <1> QED
    BY <1>2, <1>3, <1>4, <1>5 DEF SyncInv

(* The runner leaves its task: what it was doing is then not "running", or *)
(* is known to have died.                                                  *)
LEMMA LeavesTask ==
  ASSUME SyncInv, NEW r \in Runner, InTask(r),
         NEW p \in {"idle", "task"}, pc' = [pc EXCEPT ![r] = p],
         NEW j \in JobRow, job' = [job EXCEPT ![r] = j],
         p = "idle" => j.task = 0, p = "task" => j.task < Len(Tasks[r]),
         status' \in [Dataset -> {"never_run", "running", "completed", "partial", "failed"}],
         \A ds \in Dataset \ {Doing(r)} : status'[ds] = status[ds],
         status'[Doing(r)] = "running" => Doing(r) \in history.silent',
         history.silent \ {Doing(r)} \subseteq history.silent',
         history.early' = history.early, DOMAIN history' = DOMAIN history,
         UNCHANGED <<day, published, stored, last>>
  PROVE  SyncInv'
  <1>1. pc'[r] = p /\ job'[r] = j /\ ~ InTask(r)'
        /\ pc' \in [Runner -> {"idle", "task", "stock", "store"}] /\ job' \in [Runner -> JobRow]
    BY ItsOwn
  <1>2. SyncTyped'
    BY <1>1 DEF SyncInv, SyncTyped
  <1>3. InOrder'
    <2> SUFFICES ASSUME NEW q \in Runner
                 PROVE  /\ pc'[q] = "idle" => job'[q].task = 0
                        /\ pc'[q] = "task" => job'[q].task < Len(Tasks[q])
                        /\ InTask(q)' => job'[q].task \in 1 .. Len(Tasks[q])
      BY DEF InOrder
    <2>1. CASE q = r
      BY <2>1, <1>1
    <2>2. CASE q # r
      BY <2>2, OthersStay DEF SyncInv, InOrder
    <2> QED
      BY <2>1, <2>2
  <1>4. LastDaysWhole'
    <2>1. ASSUME NEW ds \in Dataset, NEW s \in Stock
          PROVE  Whole(ds, s, last[ds][s])'
      <3>1. Whole(ds, s, last[ds][s])
        BY DEF SyncInv, LastDaysWhole
      <3> QED
        BY <3>1 DEF Whole
    <2>2. ASSUME NEW q \in Runner, InTask(q)', NEW s \in Stock
          PROVE  Whole(Doing(q), s, job[q].map[s])'
      <3>1. InTask(q) /\ Doing(q)' = Doing(q) /\ job'[q] = job[q]
        BY <1>1, <2>2, OthersStay
      <3>2. Whole(Doing(q), s, job[q].map[s])
        BY <3>1 DEF SyncInv, LastDaysWhole
      <3> QED
        BY <3>1, <3>2 DEF Whole
    <2> QED
      BY <2>1, <2>2 DEF LastDaysWhole
  <1>5. NoSilentRun'
    <2> SUFFICES ASSUME NEW ds \in Dataset, status'[ds] = "running", ds \notin history.silent'
                 PROVE  \E q \in Runner : InTask(q)' /\ Doing(q)' = ds
      BY DEF NoSilentRun
    <2>1. ds # Doing(r)
      OBVIOUS
    <2>2. status[ds] = "running" /\ ds \notin history.silent
      BY <2>1
    <2>3. PICK q \in Runner : InTask(q) /\ Doing(q) = ds
      BY <2>2 DEF SyncInv, NoSilentRun
    <2> QED
      BY <2>1, <2>3, OthersStay
  <1> QED
    BY <1>2, <1>3, <1>4, <1>5 DEF SyncInv

--------------------------------------------------------------------------------
(* One lemma per action. *)

LEMMA BeginTaskKeeps ==
  ASSUME SyncInv, NEW r \in Runner, BeginTask(r)
  PROVE  SyncInv'
  <1> DEFINE i  == job[r].task + 1
             ds == Tasks[r][i]
             todo == Behind(last[ds], day)
             j  == Job(i, last[ds], day, todo, FALSE, 0)
  <1>1. pc[r] \in {"idle", "task"} /\ pc' = [pc EXCEPT ![r] = "stock"]
        /\ job' = [job EXCEPT ![r] = j] /\ status' = [status EXCEPT ![ds] = "running"]
        /\ UNCHANGED <<day, published, stored, last, history>>
    BY DEF BeginTask
  <1>2. i \in 1 .. Len(Tasks[r])
    <2>1. job[r].task \in Nat
      BY DEF SyncInv, SyncTyped, JobRow
    <2>2. Len(Tasks[r]) \in Nat /\ Len(Tasks[r]) >= 1
      BY SyncAssumption
    <2>3. job[r].task < Len(Tasks[r])
      BY <1>1, <2>1, <2>2 DEF SyncInv, InOrder
    <2> QED
      BY <2>1, <2>2, <2>3
  <1>3. ds \in Dataset
    BY <1>2, DoingDataset
  <1>4. j \in JobRow /\ j.task = i /\ j.map = last[ds]
    <2>1. i \in Nat /\ last[ds] \in [Stock -> Nat] /\ day \in Nat
      BY <1>2, <1>3 DEF SyncInv, SyncTyped
    <2>2. todo \in SUBSET Stock
      BY DEF Behind
    <2>3. j \in JobRow
      BY <2>1, <2>2, RowFields
    <2> QED
      BY <2>3 DEF Job
  <1> HIDE DEF i, todo, j
  <1>5. pc'[r] = "stock" /\ job'[r] = j /\ InTask(r)' /\ Doing(r)' = ds
        /\ pc' \in [Runner -> {"idle", "task", "stock", "store"}] /\ job' \in [Runner -> JobRow]
    <2>1. pc'[r] = "stock" /\ job'[r] = j
          /\ pc' \in [Runner -> {"idle", "task", "stock", "store"}] /\ job' \in [Runner -> JobRow]
      BY <1>1, <1>4, ItsOwn
    <2> QED
      BY <1>4, <2>1 DEF InTask, Doing
  <1>6. ~ InTask(r)
    BY <1>1 DEF InTask
  <1>7. SyncTyped'
    <2>1. status' \in [Dataset -> {"never_run", "running", "completed", "partial", "failed"}]
      BY <1>1, <1>3 DEF SyncInv, SyncTyped
    <2> QED
      BY <1>1, <1>5, <2>1 DEF SyncInv, SyncTyped
  <1>8. InOrder'
    <2> SUFFICES ASSUME NEW q \in Runner
                 PROVE  /\ pc'[q] = "idle" => job'[q].task = 0
                        /\ pc'[q] = "task" => job'[q].task < Len(Tasks[q])
                        /\ InTask(q)' => job'[q].task \in 1 .. Len(Tasks[q])
      BY DEF InOrder
    <2>1. CASE q = r
      BY <2>1, <1>2, <1>4, <1>5
    <2>2. CASE q # r
      BY <2>2, <1>1, OthersStay DEF SyncInv, InOrder
    <2> QED
      BY <2>1, <2>2
  <1>9. LastDaysWhole'
    <2>1. ASSUME NEW e \in Dataset, NEW s \in Stock
          PROVE  Whole(e, s, last[e][s])'
      <3>1. Whole(e, s, last[e][s])
        BY DEF SyncInv, LastDaysWhole
      <3> QED
        BY <1>1, <3>1 DEF Whole
    <2>2. ASSUME NEW q \in Runner, InTask(q)', NEW s \in Stock
          PROVE  Whole(Doing(q), s, job[q].map[s])'
      <3>1. CASE q = r
        <4>1. Whole(ds, s, last[ds][s])
          BY <1>3 DEF SyncInv, LastDaysWhole
        <4> QED
          BY <3>1, <4>1, <1>1, <1>4, <1>5 DEF Whole
      <3>2. CASE q # r
        <4>1. InTask(q) /\ Doing(q)' = Doing(q) /\ job'[q] = job[q]
          BY <1>1, <3>2, <2>2, OthersStay
        <4>2. Whole(Doing(q), s, job[q].map[s])
          BY <4>1 DEF SyncInv, LastDaysWhole
        <4> QED
          BY <1>1, <4>1, <4>2 DEF Whole
      <3> QED
        BY <3>1, <3>2
    <2> QED
      BY <2>1, <2>2 DEF LastDaysWhole
  <1>10. NoSilentRun'
    <2> SUFFICES ASSUME NEW e \in Dataset, status'[e] = "running", e \notin history.silent
                 PROVE  \E q \in Runner : InTask(q)' /\ Doing(q)' = e
      BY <1>1 DEF NoSilentRun
    <2>1. CASE e = ds
      BY <2>1, <1>5
    <2>2. CASE e # ds
      <3>1. status[e] = "running"
        BY <1>1, <2>2 DEF SyncInv, SyncTyped
      <3>2. PICK q \in Runner : InTask(q) /\ Doing(q) = e
        BY <3>1 DEF SyncInv, NoSilentRun
      <3> QED
        BY <1>1, <1>6, <3>2, OthersStay
    <2> QED
      BY <2>1, <2>2
  <1> QED
    BY <1>7, <1>8, <1>9, <1>10 DEF SyncInv

LEMMA EndTaskKeeps ==
  ASSUME SyncInv, NEW r \in Runner, InTask(r),
         NEW final \in {"completed", "partial", "failed"}, EndTask(r, final)
  PROVE  SyncInv'
  <1>1. job[r].task \in 1 .. Len(Tasks[r])
    BY DEF SyncInv, InOrder
  <1>2. Doing(r) \in Dataset
    BY <1>1, DoingDataset DEF Doing
  <1>3. /\ status' \in [Dataset -> {"never_run", "running", "completed", "partial", "failed"}]
        /\ \A ds \in Dataset \ {Doing(r)} : status'[ds] = status[ds]
        /\ status'[Doing(r)] # "running"
    BY <1>2 DEF EndTask, SyncInv, SyncTyped
  <1>4. /\ history.silent \ {Doing(r)} \subseteq history'.silent
        /\ history'.early = history.early /\ DOMAIN history' = DOMAIN history
    BY DEF EndTask, SyncInv, SyncTyped
  <1>5. UNCHANGED <<day, published, stored, last>>
    BY DEF EndTask
  <1>6. CASE job[r].task < Len(Tasks[r])
    <2> DEFINE j == NoJobAt(job[r].task)
    <2>1. j \in JobRow /\ j.task = job[r].task
      BY <1>1, NoJobTyped
    <2>2. pc' = [pc EXCEPT ![r] = "task"] /\ job' = [job EXCEPT ![r] = j]
      BY <1>6 DEF EndTask, Leave
    <2> HIDE DEF j
    <2> QED
      BY <1>3, <1>4, <1>5, <1>6, <2>1, <2>2, LeavesTask
  <1>7. CASE ~ (job[r].task < Len(Tasks[r]))
    <2>1. NoJob \in JobRow /\ NoJob.task = 0
      BY NoJobTyped DEF NoJob
    <2>2. pc' = [pc EXCEPT ![r] = "idle"] /\ job' = [job EXCEPT ![r] = NoJob]
      BY <1>7 DEF EndTask, Leave
    <2> QED
      BY <1>3, <1>4, <1>5, <2>1, <2>2, LeavesTask
  <1> QED
    BY <1>6, <1>7

LEMMA DieKeeps ==
  ASSUME SyncInv, NEW r \in Runner, Die(r)
  PROVE  SyncInv'
  <1>1. NoJob \in JobRow /\ NoJob.task = 0
    BY NoJobTyped DEF NoJob
  <1>2. InTask(r) /\ pc' = [pc EXCEPT ![r] = "idle"] /\ job' = [job EXCEPT ![r] = NoJob]
        /\ UNCHANGED <<day, published, stored, last, status>>
    BY DEF Die
  <1>3. /\ history.silent \ {Doing(r)} \subseteq history'.silent
        /\ Doing(r) \in history'.silent
        /\ history'.early = history.early /\ DOMAIN history' = DOMAIN history
    BY DEF Die, SyncInv, SyncTyped
  <1>4. status' \in [Dataset -> {"never_run", "running", "completed", "partial", "failed"}]
        /\ \A ds \in Dataset \ {Doing(r)} : status'[ds] = status[ds]
    BY <1>2 DEF SyncInv, SyncTyped
  <1> QED
    BY <1>1, <1>2, <1>3, <1>4, LeavesTask

(* The parts of a row that a runner in its task goes on with. *)
LEMMA RowParts ==
  ASSUME SyncInv, NEW r \in Runner
  PROVE  /\ job[r].task \in Nat /\ job[r].map \in [Stock -> Nat] /\ job[r].today \in Nat
         /\ job[r].todo \in SUBSET Stock /\ job[r].processed \in BOOLEAN /\ job[r].upTo \in Nat
  <1>1. job[r] \in JobRow
    BY DEF SyncInv, SyncTyped
  <1> QED
    BY <1>1 DEF JobRow

LEMMA AfterTyped ==
  ASSUME SyncInv, NEW r \in Runner, NEW s, NEW p \in BOOLEAN
  PROVE  After(r, s, p) \in JobRow /\ After(r, s, p).task = job[r].task
         /\ After(r, s, p).map = job[r].map
  <1>1. job[r].todo \ {s} \in SUBSET Stock
    BY RowParts
  <1>2. After(r, s, p) \in JobRow
    BY <1>1, RowParts, RowFields DEF After
  <1> QED
    BY <1>2 DEF After, Job

LEMMA FetchKeeps ==
  ASSUME SyncInv, NEW r \in Runner, Fetch(r)
  PROVE  SyncInv'
  <1> DEFINE j == Holding(r, Min(published, job[r].today))
  <1>1. InTask(r) /\ pc' = [pc EXCEPT ![r] = "store"] /\ job' = [job EXCEPT ![r] = j]
        /\ UNCHANGED <<day, published, stored, last, status, history>>
    BY DEF Fetch, InTask
  <1>2. j \in JobRow /\ j.task = job[r].task /\ j.map = job[r].map
    <2>1. Min(published, job[r].today) \in Nat
      BY RowParts DEF Min, SyncInv, SyncTyped
    <2>2. j \in JobRow
      BY <2>1, RowParts, RowFields DEF Holding
    <2> QED
      BY <2>2 DEF Holding, Job
  <1>3. \A ds \in Dataset, s \in Stock : Whole(ds, s, last[ds][s])'
    BY <1>1 DEF SyncInv, LastDaysWhole, Whole
  <1>4. last' \in [Dataset -> [Stock -> Nat]]
    BY <1>1 DEF SyncInv, SyncTyped
  <1> HIDE DEF j
  <1> QED
    BY <1>1, <1>2, <1>3, <1>4, GoesOn

LEMMA FetchFailsKeeps ==
  ASSUME SyncInv, NEW r \in Runner, FetchFails(r)
  PROVE  SyncInv'
  <1> DEFINE j == After(r, NextStock(r), job[r].processed)
  <1>1. InTask(r) /\ pc' = [pc EXCEPT ![r] = "stock"] /\ job' = [job EXCEPT ![r] = j]
        /\ UNCHANGED <<day, published, stored, last, status, history>>
    BY DEF FetchFails, InTask
  <1>2. j \in JobRow /\ j.task = job[r].task /\ j.map = job[r].map
    BY RowParts, AfterTyped
  <1>3. \A ds \in Dataset, s \in Stock : Whole(ds, s, last[ds][s])'
    BY <1>1 DEF SyncInv, LastDaysWhole, Whole
  <1>4. last' \in [Dataset -> [Stock -> Nat]]
    BY <1>1 DEF SyncInv, SyncTyped
  <1> HIDE DEF j
  <1> QED
    BY <1>1, <1>2, <1>3, <1>4, GoesOn

(* The new last day is whole: the days before the first one asked for were *)
(* there when the map was loaded, and the others are inserted with it.     *)
LEMMA StoreKeeps ==
  ASSUME SyncInv, NEW r \in Runner, Store(r)
  PROVE  SyncInv'
  <1> DEFINE s  == NextStock(r)
             ds == Doing(r)
             j  == After(r, s, TRUE)
             n  == NewestDay(r, s)
  <1>1. InTask(r) /\ pc' = [pc EXCEPT ![r] = "stock"] /\ job' = [job EXCEPT ![r] = j]
        /\ stored' = stored \cup {<<ds, s, d>> : d \in FirstDay(r, s) .. job[r].upTo}
        /\ last' = [last EXCEPT ![ds] = [@ EXCEPT ![s] = n]]
        /\ UNCHANGED <<day, published, status>>
    BY DEF Store, InTask
  <1>2. /\ history.early \subseteq history'.early /\ history'.silent = history.silent
        /\ DOMAIN history' = DOMAIN history
        /\ job[r].upTo < FirstDay(r, s) => <<ds, s>> \in history'.early
    <2>1. CASE job[r].upTo < FirstDay(r, s)
      <3>1. history' = [history EXCEPT !.early = @ \cup {<<ds, s>>}]
        BY <2>1 DEF Store
      <3> QED
        BY <3>1 DEF SyncInv, SyncTyped
    <2>2. CASE ~ (job[r].upTo < FirstDay(r, s))
      BY <2>2 DEF Store
    <2> QED
      BY <2>1, <2>2
  <1>3. j \in JobRow /\ j.task = job[r].task /\ j.map = job[r].map
    BY AfterTyped
  <1>4. ds \in Dataset
    BY <1>1, DoingDataset DEF Doing, SyncInv, InOrder
  <1>5. job[r].upTo \in Nat /\ (s \in Stock => job[r].map[s] \in Nat)
    BY RowParts
  <1> HIDE DEF j, s
  <1>6. s \in Stock => n \in Nat
    BY <1>5 DEF NewestDay, FirstDay
  <1>7. last' \in [Dataset -> [Stock -> Nat]]
        /\ \A e \in Dataset, t \in Stock :
             last'[e][t] = IF e = ds /\ t = s THEN n ELSE last[e][t]
    BY <1>1, <1>4, <1>6 DEF SyncInv, SyncTyped
  <1>8. ASSUME s \in Stock
        PROVE  <<ds, s>> \in history'.early \/ \A e \in 1 .. n : <<ds, s, e>> \in stored'
    <2>1. Whole(ds, s, job[r].map[s])
      BY <1>1, <1>8 DEF SyncInv, LastDaysWhole
    <2>2. CASE job[r].upTo < FirstDay(r, s) \/ <<ds, s>> \in history.early
      BY <1>2, <2>2 DEF Whole
    <2>3. CASE ~ (job[r].upTo < FirstDay(r, s) \/ <<ds, s>> \in history.early)
      <3>1. n = job[r].upTo
        BY <2>3 DEF NewestDay
      <3>2. ASSUME NEW e \in 1 .. n
            PROVE  <<ds, s, e>> \in stored'
        <4>1. e \in 1 .. job[r].map[s] \/ e \in FirstDay(r, s) .. job[r].upTo
          BY <1>5, <1>8, <3>1 DEF FirstDay
        <4> QED
          BY <1>1, <2>1, <2>3, <4>1 DEF Whole
      <3> QED
        BY <3>2 DEF Whole
    <2> QED
      BY <2>2, <2>3
  <1>9. \A e \in Dataset, t \in Stock : Whole(e, t, last[e][t])'
    <2> TAKE e \in Dataset, t \in Stock
    <2>1. CASE e = ds /\ t = s
      BY <1>7, <1>8, <2>1 DEF Whole
    <2>2. CASE ~ (e = ds /\ t = s)
      <3>1. Whole(e, t, last[e][t])
        BY DEF SyncInv, LastDaysWhole
      <3> QED
        BY <1>1, <1>2, <1>7, <2>2, <3>1 DEF Whole
    <2> QED
      BY <2>1, <2>2
  <1> QED
    BY <1>1, <1>2, <1>3, <1>7, <1>9, GoesOn

LEMMA TimeKeeps ==
  ASSUME SyncInv, NewDay \/ Publish \/ \E l \in Limiter : Expire(l)
  PROVE  SyncInv'
  <1>1. UNCHANGED <<stored, last, status, pc, job, history>>
    BY DEF NewDay, Publish, Expire
  <1>2. day' \in Nat /\ published' \in Nat
    BY DEF NewDay, Publish, Expire, SyncInv, SyncTyped
  <1>3. SyncTyped'
    BY <1>1, <1>2 DEF SyncInv, SyncTyped
  <1>4. InOrder'
    BY <1>1 DEF SyncInv, InOrder, InTask
  <1>5. LastDaysWhole'
    BY <1>1 DEF SyncInv, LastDaysWhole, Whole, InTask, Doing
  <1>6. NoSilentRun'
    BY <1>1 DEF SyncInv, NoSilentRun, InTask, Doing
  <1> QED
    BY <1>3, <1>4, <1>5, <1>6 DEF SyncInv

LEMMA SyncNextKeeps == SyncInv /\ [SyncNext]_syncVars => SyncInv'
  <1> SUFFICES ASSUME SyncInv, [SyncNext]_syncVars PROVE SyncInv'
    OBVIOUS
  <1>1. ASSUME NEW r \in Runner, BeginTask(r) PROVE SyncInv'
    BY <1>1, BeginTaskKeeps
  <1>2. ASSUME NEW r \in Runner, Complete(r) PROVE SyncInv'
    BY <1>2, EndTaskKeeps DEF Complete, InTask
  <1>3. ASSUME NEW r \in Runner, GiveUp(r) PROVE SyncInv'
    BY <1>3, EndTaskKeeps DEF GiveUp, InTask
  <1>4. ASSUME NEW r \in Runner, Fetch(r) PROVE SyncInv'
    BY <1>4, FetchKeeps
  <1>5. ASSUME NEW r \in Runner, Store(r) PROVE SyncInv'
    BY <1>5, StoreKeeps
  <1>6. ASSUME NEW r \in Runner, FetchFails(r) PROVE SyncInv'
    BY <1>6, FetchFailsKeeps
  <1>7. ASSUME NEW r \in Runner, RateLimited(r) PROVE SyncInv'
    BY <1>7, EndTaskKeeps DEF RateLimited, InTask
  <1>8. ASSUME NEW r \in Runner, TaskFails(r) PROVE SyncInv'
    BY <1>8, EndTaskKeeps DEF TaskFails
  <1>9. ASSUME NEW r \in Runner, Die(r) PROVE SyncInv'
    BY <1>9, DieKeeps
  <1>10. CASE NewDay \/ Publish \/ \E l \in Limiter : Expire(l)
    BY <1>10, TimeKeeps
  <1>11. CASE UNCHANGED syncVars
    BY <1>11 DEF syncVars, SyncInv, SyncTyped, InOrder, LastDaysWhole, Whole, NoSilentRun,
                 InTask, Doing
  <1> QED
    BY <1>1, <1>2, <1>3, <1>4, <1>5, <1>6, <1>7, <1>8, <1>9, <1>10, <1>11 DEF SyncNext, RunStep

LEMMA SyncInvariant == SyncSpec => []SyncInv
  BY InitSyncInv, SyncNextKeeps, PTL DEF SyncSpec

--------------------------------------------------------------------------------
(* What the tasks promise. *)

(* Up to its last synced day a stock has every published day, unless it    *)
(* was fetched before a day was published (tasks/prices.py), however jobs  *)
(* overlap, stop, fail and die.                                            *)
THEOREM SyncedDays == SyncSpec => []SyncedDaysStored
  <1>1. SyncInv => SyncedDaysStored
    BY DEF SyncInv, LastDaysWhole, Whole, SyncedDaysStored, DaysStored
  <1> QED
    BY <1>1, SyncInvariant, PTL

(* A dataset shows "running" only while somebody runs it, or after a       *)
(* database error or a crash (run_task's status writes).                   *)
THEOREM RunsAreSeen == SyncSpec => []NoSilentRun
  <1>1. SyncInv => NoSilentRun
    BY DEF SyncInv
  <1> QED
    BY <1>1, SyncInvariant, PTL
================================================================================
