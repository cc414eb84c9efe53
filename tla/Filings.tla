-------------------------------- MODULE Filings --------------------------------
(***************************************************************************)
(* Refreshing 13F filings (services/institutional): F13FilingService.      *)
(* refresh_filer on a user's request, and refresh_for_tier, which runs it  *)
(* for every filer of a tier in ONE transaction, from a scheduler in every *)
(* server process.                                                         *)
(*                                                                         *)
(* EDGAR lists what it has published; every filing not yet stored is       *)
(* fetched, parsed and inserted, the filer's latest_* columns follow the   *)
(* newest stored period, the followers are told, and only then does the    *)
(* caller commit.  A lock per filer, local to the process, is held for the *)
(* call and not for the transaction; between processes there is only the   *)
(* UNIQUE (filer_id, accession_number) of the database, whose second       *)
(* inserter waits for the first to end.                                    *)
(*                                                                         *)
(* Statements run at READ COMMITTED.  Followers are one party: a message   *)
(* about a filing is an attempt to reach all of them.  One user per tier   *)
(* holds the subscriptions of a scheduled run, so they are loaded once.    *)
(* Holdings and audit rows are left out.                                   *)
(***************************************************************************)
EXTENDS Sums, Sequences

CONSTANTS
  MaxFilings,   \* bound: filings
  Listed,       \* those EDGAR lists from the start
  Filer,
  FilerOf,      \* the filer of each filing
  Period,       \* the day each filing's quarter ends
  Run,          \* calls of refresh_filer and of refresh_for_tier
  Plan,         \* the filers each run refreshes, in order
  Scheduled,    \* the runs that are scheduled ones
  Process,      \* server processes
  ProcessOf,    \* the process of each run
  SkipFloor,    \* a scheduled run skips filers with a latest date from here on
  MaxFailures   \* bound: EDGAR errors and process crashes

(* Accession numbers, in the order they were filed. *)
Filing == 1 .. MaxFilings

NoPeriod == 0

(* A run takes no filer twice (seen_filer_ids), a request only one.        *)
ASSUME FilingsAssumption ==
  /\ MaxFilings \in Nat /\ Listed \subseteq Filing
  /\ FilerOf \in [Filing -> Filer]
  /\ Period \in [Filing -> Nat \ {NoPeriod}]
  /\ Plan \in [Run -> Seq(Filer)]
  /\ \A r \in Run :
       \A i, j \in 1 .. Len(Plan[r]) : Plan[r][i] = Plan[r][j] => i = j
  /\ Scheduled \subseteq Run /\ \A r \in Run \ Scheduled : Len(Plan[r]) = 1
  /\ ProcessOf \in [Run -> Process]
  /\ SkipFloor \in [Scheduled -> Nat]
  /\ MaxFailures \in Nat

VARIABLES
  published,  \* what EDGAR lists, with its infotable
  stored,     \* committed filings
  latest,     \* latest_filing_date of each filer, committed
  pc,         \* what each run does next
  at,         \* how many filers of its plan each run has taken up
  txn,        \* what its transaction has read and written
  failures,   \* how many failures there were
  sent,       \* messages per filing
  history     \* messages of rolled back runs, filings cut short, meetings

filingVars == <<published, stored, latest, pc, at, txn, failures, sent, history>>

Ended == {"done", "refused", "failed"}

(* latest_filing_date as loaded at the start; the filings to ingest and the *)
(* one in hand; those inserted and those announced; the newest period read; *)
(* the latest dates written.                                                *)
NoTxn == [loaded |-> <<>>, todo |-> {}, current |-> 0, inserted |-> {},
          announced |-> {}, newest |-> NoPeriod, wrote |-> <<>>]

Target(r) == Plan[r][at[r]]

(* A run holds the lock of its filer from the check to the end of the call. *)
InCall == {"list", "probe", "insert", "update", "notify"}
Holds(r, f) == pc[r] \in InCall /\ Target(r) = f

Active(r) == pc[r] \notin {"waiting"} \cup Ended

InitFilings ==
  /\ published = Listed
  /\ stored = {}
  /\ latest = [f \in Filer |-> NoPeriod]
  /\ pc = [r \in Run |-> "waiting"]
  /\ at = [r \in Run |-> 0]
  /\ txn = [r \in Run |-> NoTxn]
  /\ failures = 0
  /\ sent = [g \in Filing |-> 0]
  /\ history = [lost |-> [g \in Filing |-> 0], cut |-> {}, met |-> {}]

Goto(r, label) == pc' = [pc EXCEPT ![r] = label]

(* The transaction of r becomes t. *)
Becomes(r, t) == txn' = [txn EXCEPT ![r] = t]

(* The newest of a set of numbers. *)
NewestOf(S) == CHOOSE n \in S : \A m \in S : m <= n

(* Filings of the filer in hand that this call inserted: newly_inserted. *)
NewlyInserted(r) == {g \in txn[r].inserted : FilerOf[g] = Target(r)}

--------------------------------------------------------------------------------
(* How a transaction ends. *)

(* Its rows are gone; its messages are not. *)
Rollback(r, h) ==
  [lost |-> [g \in Filing |-> h.lost[g] + IF g \in txn[r].announced THEN 1 ELSE 0],
   cut  |-> h.cut \ txn[r].inserted,
   met  |-> h.met]

(* An error leaves the call: the request, or after an IntegrityError or a  *)
(* deadlock the whole scheduled run, rolls back.                           *)
Abort(r) ==
  /\ Goto(r, "failed")
  /\ Becomes(r, NoTxn)
  /\ history' = Rollback(r, history)
  /\ UNCHANGED <<published, stored, latest, at, sent>>

(* One COMMIT for everything the run did. *)
Commit(r) ==
  /\ pc[r] = "next" /\ at[r] = Len(Plan[r])
  /\ stored' = stored \cup txn[r].inserted
  /\ latest' = [f \in Filer |-> IF f \in DOMAIN txn[r].wrote THEN txn[r].wrote[f]
                                                             ELSE latest[f]]
  /\ Goto(r, "done")
  /\ Becomes(r, NoTxn)
  /\ UNCHANGED <<published, at, failures, sent, history>>

--------------------------------------------------------------------------------
(* One run. *)

Start(r) ==
  /\ pc[r] = "waiting"
  /\ Goto(r, "next")
  /\ Becomes(r, [txn[r] EXCEPT !.loaded = latest])
  /\ UNCHANGED <<published, stored, latest, at, failures, sent, history>>

(* The skip window compares latest_filing_date, the end of a quarter, with *)
(* the day the window opened.                                              *)
Fresh(r, f) ==
  r \in Scheduled /\ txn[r].loaded[f] # NoPeriod /\ txn[r].loaded[f] >= SkipFloor[r]

(* The lock of the filer, in the registry of this process. *)
LockedHere(r, f) == \E q \in Run \ {r} : ProcessOf[q] = ProcessOf[r] /\ Holds(q, f)

(* History: another run has unfinished business with f. *)
Touched(r) == {FilerOf[g] : g \in txn[r].inserted} \cup DOMAIN txn[r].wrote
Meeting(r, f) == \E q \in Run \ {r} : Holds(q, f) \/ f \in Touched(q)

(* The head of the loop over the plan, and of refresh_filer: pass over a   *)
(* fresh filer, or one whose lock is taken (429 for a request).            *)
TakeFiler(r) ==
  /\ pc[r] = "next" /\ at[r] < Len(Plan[r])
  /\ at' = [at EXCEPT ![r] = @ + 1]
  /\ LET f == Plan[r][at[r] + 1]
         skipped == Fresh(r, f) \/ LockedHere(r, f)
     IN  /\ Goto(r, IF ~ skipped THEN "list"
                    ELSE IF r \in Scheduled THEN "next" ELSE "refused")
         /\ history' = IF ~ skipped /\ Meeting(r, f)
                       THEN [history EXCEPT !.met = @ \cup {f}] ELSE history
  /\ UNCHANGED <<published, stored, latest, txn, failures, sent>>

(* list_filings_for_filer *)
ListFilings(r) ==
  /\ pc[r] = "list"
  /\ Goto(r, "probe")
  /\ Becomes(r, [txn[r] EXCEPT
                   !.todo = {g \in published : FilerOf[g] = Target(r)}])
  /\ UNCHANGED <<published, stored, latest, at, failures, sent, history>>

Exists(r, g) == g \in stored \cup txn[r].inserted

(* One filing of the list, newest first.  One whose infotable EDGAR does   *)
(* not yet show is passed over, as if it were not published.               *)
Probe(r) ==
  /\ pc[r] = "probe" /\ txn[r].todo # {}
  /\ LET g == NewestOf(txn[r].todo)
         rest == txn[r].todo \ {g}
     IN  \/ /\ Exists(r, g)
            /\ pc' = pc
            /\ Becomes(r, [txn[r] EXCEPT !.todo = rest])
         \/ /\ ~ Exists(r, g)
            /\ Goto(r, "insert")
            /\ Becomes(r, [[txn[r] EXCEPT !.todo = rest] EXCEPT !.current = g])
  /\ UNCHANGED <<published, stored, latest, at, failures, sent, history>>

(* The run whose uncommitted row r has to wait for. *)
WaitsFor(r, q) ==
  /\ q # r
  /\ \/ pc[r] = "insert" /\ txn[r].current \in txn[q].inserted
     \/ pc[r] = "update" /\ Target(r) \in DOMAIN txn[q].wrote

Blocked(r) == \E q \in Run : WaitsFor(r, q)

(* Mutation: no unique key on (filer_id, accession_number). *)
Insert_NoUniqueKey(r) ==
  /\ pc[r] = "insert"
  /\ Becomes(r, [txn[r] EXCEPT !.inserted = @ \cup {txn[r].current}])
  /\ Goto(r, "probe")
  /\ UNCHANGED <<published, stored, latest, at, failures, sent, history>>

(* _ingest_one: fetched and parsed, the filing is inserted with its        *)
(* holdings.                                                               *)
Insert(r) ==
  /\ pc[r] = "insert" /\ ~ Blocked(r)
  /\ txn[r].current \notin stored
  /\ Becomes(r, [txn[r] EXCEPT !.inserted = @ \cup {txn[r].current}])
  /\ Goto(r, "probe")
  /\ UNCHANGED <<published, stored, latest, at, failures, sent, history>>

(* The unique key refuses what another run committed since the probe. *)
Duplicate(r) ==
  /\ pc[r] = "insert" /\ ~ Blocked(r)
  /\ txn[r].current \in stored
  /\ Abort(r)
  /\ UNCHANGED failures

PeriodsOf(f, S) == {Period[g] : g \in {h \in S : FilerOf[h] = f}}

(* get_latest_for_filer: what r sees is committed or its own. *)
ReadLatest(r) ==
  /\ pc[r] = "probe" /\ txn[r].todo = {}
  /\ LET periods == PeriodsOf(Target(r), stored \cup txn[r].inserted)
     IN  IF periods = {} THEN Goto(r, "notify") /\ UNCHANGED txn
         ELSE /\ Goto(r, "update")
              /\ Becomes(r, [txn[r] EXCEPT !.newest = NewestOf(periods)])
  /\ UNCHANGED <<published, stored, latest, at, failures, sent, history>>

(* Mutation: the latest date is what EDGAR filed last. *)
UpdateLatest_AsFiled(r) ==
  /\ pc[r] = "update" /\ ~ Blocked(r)
  /\ LET filed == {g \in stored \cup txn[r].inserted : FilerOf[g] = Target(r)}
     IN  Becomes(r, [txn[r] EXCEPT
                       !.wrote = Put(@, Target(r), Period[NewestOf(filed)])])
  /\ Goto(r, "notify")
  /\ UNCHANGED <<published, stored, latest, at, failures, sent, history>>

(* update_latest_aum: an UPDATE of the filer's row, locked until the end. *)
UpdateLatest(r) ==
  /\ pc[r] = "update" /\ ~ Blocked(r)
  /\ Becomes(r, [txn[r] EXCEPT !.wrote = Put(@, Target(r), txn[r].newest)])
  /\ Goto(r, "notify")
  /\ UNCHANGED <<published, stored, latest, at, failures, sent, history>>

(* notify_new_filings, inline and before any commit; the lock goes with    *)
(* the call.                                                               *)
Notify(r) ==
  /\ pc[r] = "notify"
  /\ sent' = [g \in Filing |-> sent[g] + IF g \in NewlyInserted(r) THEN 1 ELSE 0]
  /\ Becomes(r, [txn[r] EXCEPT !.announced = @ \cup NewlyInserted(r)])
  /\ Goto(r, "next")
  /\ UNCHANGED <<published, stored, latest, at, failures, history>>

(* History: filings of a call that stopped before its messages. *)
CutShort(r) == [history EXCEPT !.cut = @ \cup NewlyInserted(r)]

(* F13EdgarError, on the list or on a filing: a request fails; a scheduled *)
(* run goes on with the next filer, what it inserted still in its hands.   *)
EdgarError(r) ==
  /\ pc[r] \in {"list", "insert"}
  /\ failures < MaxFailures
  /\ failures' = failures + 1
  /\ IF r \in Scheduled
     THEN /\ Goto(r, "next")
          /\ history' = CutShort(r)
          /\ UNCHANGED <<published, stored, latest, at, txn, sent>>
     ELSE Abort(r)

(* Mutation: nobody looks for deadlocks. *)
Deadlocked_Never(r) == FALSE

(* Runs that wait for each other in a circle; PostgreSQL cancels one. *)
Deadlocked(r) ==
  \E S \in SUBSET Run :
    /\ r \in S
    /\ \A q \in S : (\E p \in S : WaitsFor(q, p)) /\ (\E p \in S : WaitsFor(p, q))

BreakDeadlock(r) ==
  /\ Deadlocked(r)
  /\ Abort(r)
  /\ UNCHANGED failures

--------------------------------------------------------------------------------
(* The world around the runs. *)

Publish ==
  /\ \E g \in Filing \ published : published' = published \cup {g}
  /\ UNCHANGED <<stored, latest, pc, at, txn, failures, sent, history>>

(* The server process or the connection of the run is lost. *)
Crash(r) ==
  /\ Active(r)
  /\ failures < MaxFailures
  /\ failures' = failures + 1
  /\ Abort(r)

Step(r) ==
  \/ TakeFiler(r) \/ ListFilings(r) \/ Probe(r) \/ Insert(r) \/ Duplicate(r)
  \/ ReadLatest(r) \/ UpdateLatest(r) \/ Notify(r) \/ BreakDeadlock(r) \/ Commit(r)

FilingsNext ==
  \/ Publish
  \/ \E r \in Run : Start(r) \/ Step(r) \/ EdgarError(r) \/ Crash(r)

(* EDGAR answers or fails within its retries and the database breaks its   *)
(* deadlocks, so a run that can take a step takes one.  That a run starts, *)
(* or that EDGAR publishes, is not promised.                               *)
FilingsSpec ==
  InitFilings /\ [][FilingsNext]_filingVars /\ \A r \in Run : WF_filingVars(Step(r))

--------------------------------------------------------------------------------
(* Properties. *)

(* Filings whose message stands: stored and not cut short, or announced by *)
(* a run that has yet to commit.                                           *)
Announced(g) ==
  \/ g \in stored \ history.cut
  \/ \E r \in Run : g \in txn[r].announced

(* Across processes and rolled back runs, every stored filing was          *)
(* announced exactly once more than it was announced in vain, and nothing  *)
(* else was; the filings of a call that an EDGAR error cut short in a      *)
(* scheduled run are the only ones stored in silence (refresh_filer,       *)
(* refresh_for_tier).                                                      *)
OneMessagePerStoredFiling ==
  \A g \in Filing :
    sent[g] = history.lost[g] + IF Announced(g) THEN 1 ELSE 0

(* At every moment a filer refreshed by one run at a time shows the newest *)
(* period stored of it, whatever was amended, rolled back or already       *)
(* there, unless a call was cut short before it got to the update          *)
(* (_do_refresh, step 5).                                                  *)
LatestFollowsFilings ==
  \A f \in Filer :
    \/ f \in history.met \/ \E g \in history.cut : FilerOf[g] = f
    \/ LET periods == PeriodsOf(f, stored)
       IN  latest[f] = IF periods = {} THEN NoPeriod ELSE NewestOf(periods)

(* Every run that started comes to an end: no wait for a lock of another   *)
(* run lasts forever, although the tiers refresh shared filers in          *)
(* different orders.                                                       *)
EveryRunEnds == \A r \in Run : Active(r) ~> pc[r] \in Ended

(* A message is sent only about a filing that is committed: "the caller    *)
(* commits the refresh BEFORE we send" (notification_service.py).          *)
NoPhantomAlert == \A g \in Filing : sent[g] > 0 => g \in stored
================================================================================
