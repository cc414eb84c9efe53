------------------------------ MODULE FilingsProofs ------------------------------
(***************************************************************************)
(* Every stored filing is announced exactly once, for every set of runs,   *)
(* filers, filings and processes.                                          *)
(*                                                                         *)
(* FilingsInv is the inductive invariant.  A filing is in the hands of one *)
(* run at most, and of none once it is stored (the unique key); between    *)
(* two calls every filing a run inserted is either announced or was cut    *)
(* short by an EDGAR error; inside a call exactly the filings of the filer *)
(* in hand are neither (newly_inserted).  That a plan repeats no filer     *)
(* keeps the filings of an earlier call out of a later one's messages.     *)
(*                                                                         *)
(* LatestInv, on top of it, gives LatestFollowsFilings: a filer no two      *)
(* runs met at is engaged by one run at a time (Alone), which either has   *)
(* its newest period in hand or written, or was cut short (Following).     *)
(***************************************************************************)
EXTENDS Filings, FifoEngineProofs

Columns == {"loaded", "todo", "current", "inserted", "announced", "newest", "wrote"}

Typed ==
  /\ published \subseteq Filing /\ stored \subseteq Filing
  /\ DOMAIN pc = Run /\ DOMAIN at = Run /\ DOMAIN txn = Run
  /\ sent \in [Filing -> Nat]
  /\ DOMAIN history = {"lost", "cut", "met"} /\ history.lost \in [Filing -> Nat]

(* The rows of run q. *)
RowsSound(q) ==
  /\ DOMAIN txn[q] = Columns
  /\ txn[q].todo \subseteq Filing /\ txn[q].inserted \subseteq Filing
  /\ txn[q].announced \subseteq txn[q].inserted
  /\ txn[q].announced \cap history.cut = {}
  /\ txn[q].inserted \cap stored = {}

(* Its place in its plan. *)
InPlan(q) ==
  /\ at[q] \in 0 .. Len(Plan[q])
  /\ \A g \in txn[q].inserted : \E i \in 1 .. at[q] : FilerOf[g] = Plan[q][i]
  /\ pc[q] \in InCall => at[q] >= 1
  /\ pc[q] = "waiting" => txn[q].inserted = {}

(* The filings it looks at are those of the filer in hand. *)
InHand(q) ==
  /\ pc[q] \in {"probe", "insert"} => \A g \in txn[q].todo : FilerOf[g] = Target(q)
  /\ pc[q] = "insert" =>
       txn[q].current \in Filing /\ FilerOf[txn[q].current] = Target(q)

(* What it has told the followers, and what it never will. *)
Told(q) ==
  /\ pc[q] = "next" => txn[q].inserted \subseteq txn[q].announced \cup history.cut
  /\ pc[q] \in InCall =>
       \A g \in txn[q].inserted :
         (g \in txn[q].announced \cup history.cut) <=> FilerOf[g] # Target(q)

RunSound(q) == RowsSound(q) /\ InPlan(q) /\ InHand(q) /\ Told(q)

OneInserter == \A p, q \in Run : p # q => txn[p].inserted \cap txn[q].inserted = {}

CutKnown == \A g \in history.cut : g \in stored \/ \E q \in Run : g \in txn[q].inserted

FilingsInv ==
  /\ Typed
  /\ \A q \in Run : RunSound(q)
  /\ OneInserter /\ CutKnown
  /\ OneMessagePerStoredFiling

--------------------------------------------------------------------------------
(* A nonempty set of filings has a newest one.                             *)
LEMMA NewestIsOne ==
  ASSUME NEW S \in SUBSET Filing, S # {}
  PROVE  NewestOf(S) \in S
<1> DEFINE T == {MaxFilings - n : n \in S}
<1>1. \A n \in S : n \in Nat /\ n <= MaxFilings /\ MaxFilings - n \in Nat
  BY FilingsAssumption DEF Filing
<1>2. T \in SUBSET Nat /\ T # {}
  BY <1>1
<1>3. PICK t \in T : \A m \in T : t <= m
  <2> HIDE DEF T
  <2> QED BY <1>2, LeastNat
<1>4. PICK n \in S : t = MaxFilings - n
  OBVIOUS
<1>5. ASSUME NEW m \in S PROVE m <= n
  <2>1. MaxFilings - n <= MaxFilings - m
    BY <1>3, <1>4
  <2> QED BY <2>1, <1>1, FilingsAssumption
<1>6. \E k \in S : \A m \in S : m <= k
  BY <1>5
<1> QED BY <1>6 DEF NewestOf

(* A run that does not move stays sound, as long as nobody else cuts short *)
(* or stores what it inserted.                                             *)
LEMMA OthersKeep ==
  ASSUME NEW q \in Run, RunSound(q),
         pc'[q] = pc[q], at'[q] = at[q], txn'[q] = txn[q],
         \A g \in txn[q].inserted : g \in history'.cut <=> g \in history.cut,
         txn[q].inserted \cap stored' = {}
  PROVE  RunSound(q)'
<1>1. RowsSound(q)'
  BY DEF RunSound, RowsSound
<1>2. InPlan(q)'
  BY DEF RunSound, InPlan
<1>3. InHand(q)'
  BY DEF RunSound, InHand, Target
<1>4. Told(q)'
  BY DEF RunSound, RowsSound, Told, Target
<1> QED BY <1>1, <1>2, <1>3, <1>4 DEF RunSound

(* A step of r that inserts, stores and announces nothing.                 *)
LEMMA QuietStep ==
  ASSUME FilingsInv, NEW r \in Run, Typed', RunSound(r)',
         stored' = stored, sent' = sent,
         history'.lost = history.lost, history'.cut = history.cut,
         \A q \in Run : q # r => pc'[q] = pc[q] /\ at'[q] = at[q] /\ txn'[q] = txn[q],
         txn'[r].inserted = txn[r].inserted, txn'[r].announced = txn[r].announced
  PROVE  FilingsInv'
<1>1. \A q \in Run : /\ txn'[q].inserted = txn[q].inserted
                     /\ txn'[q].announced = txn[q].announced
  OBVIOUS
<1>2. ASSUME NEW q \in Run, q # r PROVE RunSound(q)'
  <2>1. RunSound(q) /\ txn[q].inserted \cap stored' = {}
    BY DEF FilingsInv, RunSound, RowsSound
  <2> QED BY <1>2, <2>1, OthersKeep
<1>3. OneInserter' /\ CutKnown'
  BY <1>1 DEF FilingsInv, OneInserter, CutKnown
<1>4. \A g \in Filing : Announced(g)' <=> Announced(g)
  BY <1>1 DEF Announced
<1>5. OneMessagePerStoredFiling'
  BY <1>4 DEF FilingsInv, OneMessagePerStoredFiling
<1> QED BY <1>2, <1>3, <1>5 DEF FilingsInv

(* What Goto and Becomes do to the other runs.                             *)
LEMMA OneRunMoves ==
  ASSUME FilingsInv, NEW r \in Run, NEW label, NEW t, Goto(r, label), Becomes(r, t)
  PROVE  /\ DOMAIN pc' = Run /\ pc'[r] = label
         /\ DOMAIN txn' = Run /\ txn'[r] = t
         /\ \A q \in Run : q # r => pc'[q] = pc[q] /\ txn'[q] = txn[q]
BY DEF FilingsInv, Typed, Goto, Becomes

--------------------------------------------------------------------------------
(* The steps of a run, one lemma each.                                     *)

(* The dates a run loads are no filings.                                   *)
LEMMA StartKeeps ==
  ASSUME FilingsInv, NEW r \in Run, Start(r) PROVE FilingsInv'
<1> DEFINE t == [txn[r] EXCEPT !.loaded = latest]
<1>1. Goto(r, "next") /\ Becomes(r, t)
  BY DEF Start
<1>2. pc[r] = "waiting" /\ RunSound(r) /\ DOMAIN txn[r] = Columns
  BY DEF Start, FilingsInv, RunSound, RowsSound
<1>3. /\ DOMAIN t = Columns /\ t.todo = txn[r].todo
      /\ t.inserted = txn[r].inserted /\ t.announced = txn[r].announced
  BY <1>2 DEF Columns
<1> HIDE DEF t
<1>4. /\ DOMAIN pc' = Run /\ pc'[r] = "next" /\ DOMAIN txn' = Run /\ txn'[r] = t
      /\ \A q \in Run : q # r => pc'[q] = pc[q] /\ txn'[q] = txn[q]
  BY <1>1, OneRunMoves
<1>5. UNCHANGED <<published, stored, at, sent, history>>
  BY DEF Start
<1>6. RowsSound(r)' /\ InPlan(r)' /\ InHand(r)' /\ Told(r)'
  BY <1>2, <1>3, <1>4, <1>5 DEF RunSound, RowsSound, InPlan, InHand, Told, InCall
<1>7. Typed'
  BY <1>4, <1>5 DEF FilingsInv, Typed
<1> QED BY <1>3, <1>4, <1>5, <1>6, <1>7, QuietStep DEF RunSound

(* The next filer is none of those whose filings the run holds.            *)
LEMMA TakeFilerKeeps ==
  ASSUME FilingsInv, NEW r \in Run, TakeFiler(r) PROVE FilingsInv'
<1>1. /\ pc[r] = "next" /\ at[r] < Len(Plan[r]) /\ RunSound(r)
      /\ at' = [at EXCEPT ![r] = at[r] + 1] /\ DOMAIN at = Run
      /\ Plan[r] \in Seq(Filer) /\ at[r] \in Nat /\ Len(Plan[r]) \in Nat
  <2>1. Plan[r] \in Seq(Filer)
    BY FilingsAssumption
  <2>2. Len(Plan[r]) \in Nat
    BY <2>1
  <2>3. RunSound(r) /\ at[r] \in 0 .. Len(Plan[r]) /\ DOMAIN at = Run
    BY DEF FilingsInv, Typed, RunSound, InPlan
  <2> QED BY <2>1, <2>2, <2>3 DEF TakeFiler
<1>2. PICK label \in {"list", "next", "refused"} : Goto(r, label)
  BY DEF TakeFiler
<1>3. /\ DOMAIN pc' = Run /\ pc'[r] = label
      /\ \A q \in Run : q # r => pc'[q] = pc[q] /\ at'[q] = at[q]
      /\ DOMAIN at' = Run /\ at'[r] = at[r] + 1
  BY <1>1, <1>2 DEF FilingsInv, Typed, Goto
<1>4. UNCHANGED <<published, stored, txn, sent>>
  BY DEF TakeFiler
<1>5. /\ DOMAIN history' = DOMAIN history
      /\ history'.lost = history.lost /\ history'.cut = history.cut
  BY DEF TakeFiler, FilingsInv, Typed
<1>6. \A g \in txn[r].inserted : FilerOf[g] # Plan[r][at[r] + 1]
  <2>1. ASSUME NEW g \in txn[r].inserted PROVE FilerOf[g] # Plan[r][at[r] + 1]
    <3>1. PICK i \in 1 .. at[r] : FilerOf[g] = Plan[r][i]
      BY <1>1 DEF RunSound, InPlan
    <3>2. i \in 1 .. Len(Plan[r]) /\ at[r] + 1 \in 1 .. Len(Plan[r]) /\ i # at[r] + 1
      BY <1>1
    <3>3. Plan[r][i] # Plan[r][at[r] + 1]
      BY <3>2, FilingsAssumption
    <3> QED BY <3>1, <3>3
  <2> QED BY <2>1
<1>7. RowsSound(r)'
  BY <1>1, <1>4, <1>5 DEF RunSound, RowsSound
<1>8. InPlan(r)'
  <2>1. at'[r] \in 0 .. Len(Plan[r]) /\ at'[r] >= 1 /\ 1 .. at[r] \subseteq 1 .. at'[r]
    BY <1>1, <1>3
  <2> QED BY <1>1, <1>3, <1>4, <2>1 DEF RunSound, InPlan
<1>9. InHand(r)' /\ Told(r)'
  BY <1>1, <1>3, <1>4, <1>5, <1>6 DEF RunSound, RowsSound, InHand, Told, Target
<1>10. Typed'
  BY <1>3, <1>4, <1>5 DEF FilingsInv, Typed
<1> QED BY <1>3, <1>4, <1>5, <1>7, <1>8, <1>9, <1>10, QuietStep DEF RunSound

(* The list of the filer in hand becomes what the run looks at.            *)
LEMMA ListFilingsKeeps ==
  ASSUME FilingsInv, NEW r \in Run, ListFilings(r) PROVE FilingsInv'
<1> DEFINE t == [txn[r] EXCEPT !.todo = {g \in published : FilerOf[g] = Target(r)}]
<1>1. Goto(r, "probe") /\ Becomes(r, t)
  BY DEF ListFilings
<1>2. /\ pc[r] = "list" /\ RunSound(r) /\ DOMAIN txn[r] = Columns
      /\ published \subseteq Filing
  BY DEF ListFilings, FilingsInv, Typed, RunSound, RowsSound
<1>3. /\ DOMAIN t = Columns /\ t.todo = {g \in published : FilerOf[g] = Target(r)}
      /\ t.inserted = txn[r].inserted /\ t.announced = txn[r].announced
  BY <1>2 DEF Columns
<1> HIDE DEF t
<1>4. /\ DOMAIN pc' = Run /\ pc'[r] = "probe" /\ DOMAIN txn' = Run /\ txn'[r] = t
      /\ \A q \in Run : q # r => pc'[q] = pc[q] /\ txn'[q] = txn[q]
  BY <1>1, OneRunMoves
<1>5. UNCHANGED <<published, stored, at, sent, history>>
  BY DEF ListFilings
<1>6. RowsSound(r)'
  BY <1>2, <1>3, <1>4, <1>5 DEF RunSound, RowsSound
<1>7. InPlan(r)' /\ InHand(r)' /\ Told(r)'
  BY <1>2, <1>3, <1>4, <1>5 DEF RunSound, InPlan, InHand, Told, InCall, Target
<1>8. Typed'
  BY <1>4, <1>5 DEF FilingsInv, Typed
<1> QED BY <1>3, <1>4, <1>5, <1>6, <1>7, <1>8, QuietStep DEF RunSound

(* The next filing of the list is one of the filer in hand.                *)
LEMMA ProbeKeeps ==
  ASSUME FilingsInv, NEW r \in Run, Probe(r) PROVE FilingsInv'
<1> DEFINE g == NewestOf(txn[r].todo)
           skip == [txn[r] EXCEPT !.todo = txn[r].todo \ {g}]
           take == [skip EXCEPT !.current = g]
<1>1. /\ pc[r] = "probe" /\ RunSound(r) /\ DOMAIN txn[r] = Columns /\ DOMAIN txn = Run
      /\ txn[r].todo # {} /\ txn[r].todo \in SUBSET Filing
  BY DEF Probe, FilingsInv, Typed, RunSound, RowsSound
<1>2. g \in txn[r].todo
  BY <1>1, NewestIsOne
<1>3. \/ pc' = pc /\ Becomes(r, skip)
      \/ Goto(r, "insert") /\ Becomes(r, take)
  BY DEF Probe
<1>4. /\ DOMAIN skip = Columns /\ skip.todo = txn[r].todo \ {g}
      /\ skip.inserted = txn[r].inserted /\ skip.announced = txn[r].announced
  BY <1>1 DEF Columns
<1>5. /\ DOMAIN take = Columns /\ take.todo = txn[r].todo \ {g} /\ take.current = g
      /\ take.inserted = txn[r].inserted /\ take.announced = txn[r].announced
  <2> HIDE DEF g
  <2>1. take = [skip EXCEPT !.current = g] OBVIOUS
  <2> HIDE DEF skip, take
  <2> QED BY <1>4, <2>1 DEF Columns
<1> HIDE DEF skip, take, g
<1>6. UNCHANGED <<published, stored, at, sent, history>>
  BY DEF Probe
<1>7. /\ DOMAIN pc' = Run /\ DOMAIN txn' = Run /\ DOMAIN txn'[r] = Columns
      /\ \A q \in Run : q # r => pc'[q] = pc[q] /\ txn'[q] = txn[q]
      /\ txn'[r].todo = txn[r].todo \ {g}
      /\ txn'[r].inserted = txn[r].inserted /\ txn'[r].announced = txn[r].announced
      /\ pc'[r] \in {"probe", "insert"}
      /\ pc'[r] = "insert" => txn'[r].current = g
  <2>1. CASE pc' = pc /\ Becomes(r, skip)
    BY <1>1, <1>4, <2>1 DEF Becomes, FilingsInv, Typed
  <2>2. CASE Goto(r, "insert") /\ Becomes(r, take)
    BY <1>5, <2>2, OneRunMoves
  <2> QED BY <1>3, <2>1, <2>2
<1>8. RowsSound(r)'
  BY <1>1, <1>6, <1>7 DEF RunSound, RowsSound
<1>9. InPlan(r)' /\ Told(r)'
  BY <1>1, <1>6, <1>7 DEF RunSound, InPlan, Told, InCall, Target
<1>10. InHand(r)'
  BY <1>1, <1>2, <1>6, <1>7 DEF RunSound, InHand, Target
<1>11. Typed'
  BY <1>6, <1>7 DEF FilingsInv, Typed
<1> QED BY <1>6, <1>7, <1>8, <1>9, <1>10, <1>11, QuietStep DEF RunSound

(* Reading the newest period inserts and announces nothing.                *)
LEMMA ReadLatestKeeps ==
  ASSUME FilingsInv, NEW r \in Run, ReadLatest(r) PROVE FilingsInv'
<1> DEFINE t == [txn[r] EXCEPT !.newest =
                   NewestOf(PeriodsOf(Target(r), stored \cup txn[r].inserted))]
<1>1. /\ pc[r] = "probe" /\ RunSound(r) /\ DOMAIN txn[r] = Columns /\ DOMAIN txn = Run
  BY DEF ReadLatest, FilingsInv, Typed, RunSound, RowsSound
<1>2. \/ Goto(r, "notify") /\ txn' = txn
      \/ Goto(r, "update") /\ Becomes(r, t)
  BY DEF ReadLatest
<1>3. /\ DOMAIN t = Columns /\ t.todo = txn[r].todo
      /\ t.inserted = txn[r].inserted /\ t.announced = txn[r].announced
  BY <1>1 DEF Columns
<1> HIDE DEF t
<1>4. UNCHANGED <<published, stored, at, sent, history>>
  BY DEF ReadLatest
<1>5. /\ DOMAIN pc' = Run /\ DOMAIN txn' = Run /\ DOMAIN txn'[r] = Columns
      /\ \A q \in Run : q # r => pc'[q] = pc[q] /\ txn'[q] = txn[q]
      /\ txn'[r].todo = txn[r].todo
      /\ txn'[r].inserted = txn[r].inserted /\ txn'[r].announced = txn[r].announced
      /\ pc'[r] \in {"notify", "update"}
  <2>1. CASE Goto(r, "notify") /\ txn' = txn
    BY <1>1, <2>1 DEF Goto, FilingsInv, Typed
  <2>2. CASE Goto(r, "update") /\ Becomes(r, t)
    BY <1>3, <2>2, OneRunMoves
  <2> QED BY <1>2, <2>1, <2>2
<1>6. RowsSound(r)'
  BY <1>1, <1>4, <1>5 DEF RunSound, RowsSound
<1>7. InPlan(r)' /\ InHand(r)' /\ Told(r)'
  BY <1>1, <1>4, <1>5 DEF RunSound, InPlan, InHand, Told, InCall, Target
<1>8. Typed'
  BY <1>4, <1>5 DEF FilingsInv, Typed
<1> QED BY <1>4, <1>5, <1>6, <1>7, <1>8, QuietStep DEF RunSound

(* Writing the filer's row inserts and announces nothing.                  *)
LEMMA UpdateLatestKeeps ==
  ASSUME FilingsInv, NEW r \in Run, UpdateLatest(r) PROVE FilingsInv'
<1> DEFINE t == [txn[r] EXCEPT !.wrote = Put(txn[r].wrote, Target(r), txn[r].newest)]
<1>1. Goto(r, "notify") /\ Becomes(r, t)
  BY DEF UpdateLatest
<1>2. pc[r] = "update" /\ RunSound(r) /\ DOMAIN txn[r] = Columns
  BY DEF UpdateLatest, FilingsInv, RunSound, RowsSound
<1>3. /\ DOMAIN t = Columns /\ t.todo = txn[r].todo
      /\ t.inserted = txn[r].inserted /\ t.announced = txn[r].announced
  BY <1>2 DEF Columns
<1> HIDE DEF t
<1>4. /\ DOMAIN pc' = Run /\ pc'[r] = "notify" /\ DOMAIN txn' = Run /\ txn'[r] = t
      /\ \A q \in Run : q # r => pc'[q] = pc[q] /\ txn'[q] = txn[q]
  BY <1>1, OneRunMoves
<1>5. UNCHANGED <<published, stored, at, sent, history>>
  BY DEF UpdateLatest
<1>6. RowsSound(r)'
  BY <1>2, <1>3, <1>4, <1>5 DEF RunSound, RowsSound
<1>7. InPlan(r)' /\ InHand(r)' /\ Told(r)'
  BY <1>2, <1>3, <1>4, <1>5 DEF RunSound, InPlan, InHand, Told, InCall, Target
<1>8. Typed'
  BY <1>4, <1>5 DEF FilingsInv, Typed
<1> QED BY <1>3, <1>4, <1>5, <1>6, <1>7, <1>8, QuietStep DEF RunSound

(* EDGAR publishes for itself.                                             *)
LEMMA PublishKeeps ==
  ASSUME FilingsInv, Publish PROVE FilingsInv'
<1>1. UNCHANGED <<stored, pc, at, txn, sent, history>>
  BY DEF Publish
<1>2. Typed'
  BY <1>1 DEF FilingsInv, Typed, Publish
<1>3. ASSUME NEW q \in Run PROVE RunSound(q)'
  <2>1. RunSound(q) /\ txn[q].inserted \cap stored' = {}
    BY <1>1 DEF FilingsInv, RunSound, RowsSound
  <2> QED BY <1>1, <2>1, OthersKeep
<1>4. OneInserter' /\ CutKnown' /\ OneMessagePerStoredFiling'
  BY <1>1 DEF FilingsInv, OneInserter, CutKnown, OneMessagePerStoredFiling, Announced
<1> QED BY <1>2, <1>3, <1>4 DEF FilingsInv

(* The unique key: a filing goes in only if it is neither stored nor in    *)
(* the hands of another run; so it is not among those cut short either.    *)
LEMMA InsertKeeps ==
  ASSUME FilingsInv, NEW r \in Run, Insert(r) PROVE FilingsInv'
<1> DEFINE g == txn[r].current
           t == [txn[r] EXCEPT !.inserted = txn[r].inserted \cup {g}]
<1>1. Goto(r, "probe") /\ Becomes(r, t)
  BY DEF Insert
<1>2. /\ pc[r] = "insert" /\ RunSound(r) /\ DOMAIN txn[r] = Columns
      /\ g \notin stored /\ ~ Blocked(r) /\ g \in Filing /\ FilerOf[g] = Target(r)
  BY DEF Insert, FilingsInv, RunSound, RowsSound, InHand
<1>3. /\ DOMAIN t = Columns /\ t.todo = txn[r].todo
      /\ t.inserted = txn[r].inserted \cup {g} /\ t.announced = txn[r].announced
  BY <1>2 DEF Columns
<1>4. \A q \in Run : q # r => g \notin txn[q].inserted
  BY <1>2 DEF Blocked, WaitsFor
<1> HIDE DEF t, g
<1>5. /\ DOMAIN pc' = Run /\ pc'[r] = "probe" /\ DOMAIN txn' = Run /\ txn'[r] = t
      /\ \A q \in Run : q # r => pc'[q] = pc[q] /\ txn'[q] = txn[q]
  BY <1>1, OneRunMoves
<1>6. UNCHANGED <<published, stored, at, sent, history>>
  BY DEF Insert
<1>7. g \in history.cut => g \in txn[r].inserted
  BY <1>2, <1>4 DEF FilingsInv, CutKnown
<1>8. RowsSound(r)'
  BY <1>2, <1>3, <1>5, <1>6 DEF RunSound, RowsSound
<1>9. InPlan(r)'
  <2>1. at[r] \in 1 .. at[r]
    <3>1. at[r] \in 0 .. Len(Plan[r]) /\ at[r] >= 1
      BY <1>2 DEF RunSound, InPlan, InCall
    <3> QED BY <3>1
  <2> QED BY <1>2, <1>3, <1>5, <1>6, <2>1 DEF RunSound, InPlan, InCall, Target
<1>10. InHand(r)'
  BY <1>2, <1>3, <1>5, <1>6 DEF RunSound, InHand, Target
<1>11. Told(r)'
  <2>1. ASSUME NEW h \in txn'[r].inserted
        PROVE  (h \in txn[r].announced \cup history.cut) <=> FilerOf[h] # Target(r)
    <3>1. CASE h \in txn[r].inserted
      BY <1>2, <3>1 DEF RunSound, Told, InCall
    <3>2. CASE h \notin txn[r].inserted
      BY <1>2, <1>3, <1>5, <1>7, <2>1, <3>2 DEF RunSound, RowsSound
    <3> QED BY <3>1, <3>2
  <2> QED BY <1>3, <1>5, <1>6, <2>1 DEF Told, Target
<1>12. ASSUME NEW q \in Run, q # r PROVE RunSound(q)'
  <2>1. RunSound(q) /\ txn[q].inserted \cap stored' = {}
    BY <1>6 DEF FilingsInv, RunSound, RowsSound
  <2> QED BY <1>5, <1>6, <1>12, <2>1, OthersKeep
<1>13. OneInserter'
  BY <1>3, <1>4, <1>5 DEF FilingsInv, OneInserter
<1>14. CutKnown'
  BY <1>3, <1>5, <1>6 DEF FilingsInv, CutKnown
<1>15. OneMessagePerStoredFiling'
  BY <1>3, <1>5, <1>6 DEF FilingsInv, OneMessagePerStoredFiling, Announced
<1>16. Typed'
  BY <1>5, <1>6 DEF FilingsInv, Typed
<1> QED BY <1>8, <1>9, <1>10, <1>11, <1>12, <1>13, <1>14, <1>15, <1>16
       DEF FilingsInv, RunSound

(* A call announces what it inserted and nothing it announced before.      *)
LEMMA NotifyKeeps ==
  ASSUME FilingsInv, NEW r \in Run, Notify(r) PROVE FilingsInv'
<1> DEFINE N == NewlyInserted(r)
           t == [txn[r] EXCEPT !.announced = txn[r].announced \cup N]
<1>1. Goto(r, "next") /\ Becomes(r, t)
  BY DEF Notify
<1>2. pc[r] = "notify" /\ RunSound(r) /\ DOMAIN txn[r] = Columns
  BY DEF Notify, FilingsInv, RunSound, RowsSound
<1>3. /\ DOMAIN t = Columns /\ t.todo = txn[r].todo
      /\ t.inserted = txn[r].inserted /\ t.announced = txn[r].announced \cup N
  BY <1>2 DEF Columns
<1>4. sent' = [g \in Filing |-> sent[g] + IF g \in N THEN 1 ELSE 0]
  BY DEF Notify
<1>5. /\ N \subseteq txn[r].inserted
      /\ \A g \in N : g \notin txn[r].announced \cup history.cut
      /\ txn[r].inserted \ N \subseteq txn[r].announced \cup history.cut
  BY <1>2 DEF NewlyInserted, RunSound, Told, InCall
<1> HIDE DEF t, N
<1>6. /\ DOMAIN pc' = Run /\ pc'[r] = "next" /\ DOMAIN txn' = Run /\ txn'[r] = t
      /\ \A q \in Run : q # r => pc'[q] = pc[q] /\ txn'[q] = txn[q]
  BY <1>1, OneRunMoves
<1>7. UNCHANGED <<published, stored, at, history>>
  BY DEF Notify
<1>8. RowsSound(r)'
  BY <1>2, <1>3, <1>5, <1>6, <1>7 DEF RunSound, RowsSound
<1>9. InPlan(r)' /\ InHand(r)' /\ Told(r)'
  BY <1>2, <1>3, <1>5, <1>6, <1>7 DEF RunSound, InPlan, InHand, Told, InCall, Target
<1>10. ASSUME NEW q \in Run, q # r PROVE RunSound(q)'
  <2>1. RunSound(q) /\ txn[q].inserted \cap stored' = {}
    BY <1>7 DEF FilingsInv, RunSound, RowsSound
  <2> QED BY <1>6, <1>7, <1>10, <2>1, OthersKeep
<1>11. OneInserter' /\ CutKnown'
  BY <1>3, <1>6, <1>7 DEF FilingsInv, OneInserter, CutKnown
<1>12. Typed'
  <2>1. sent' \in [Filing -> Nat]
    BY <1>4 DEF FilingsInv, Typed
  <2> QED BY <1>6, <1>7, <2>1 DEF FilingsInv, Typed
<1>13. ASSUME NEW g \in Filing
       PROVE  sent'[g] = history.lost[g] + IF Announced(g)' THEN 1 ELSE 0
  <2>1. sent[g] \in Nat /\ history.lost[g] \in Nat
    BY DEF FilingsInv, Typed
  <2>2. sent[g] = history.lost[g] + IF Announced(g) THEN 1 ELSE 0
    BY DEF FilingsInv, OneMessagePerStoredFiling
  <2>3. CASE g \in N
    <3>1. g \notin stored
      BY <1>2, <1>5, <2>3 DEF RunSound, RowsSound
    <3>2. \A q \in Run : g \notin txn[q].announced
      <4>1. ASSUME NEW q \in Run, q # r PROVE g \notin txn[q].announced
        BY <1>5, <2>3, <4>1 DEF FilingsInv, OneInserter, RunSound, RowsSound
      <4> QED BY <1>5, <2>3, <4>1
    <3>3. ~ Announced(g)
      BY <3>1, <3>2 DEF Announced
    <3>4. Announced(g)'
      BY <1>3, <1>6, <2>3 DEF Announced
    <3>5. sent'[g] = sent[g] + 1
      BY <1>4, <2>3
    <3> QED BY <2>1, <2>2, <3>3, <3>4, <3>5
  <2>4. CASE g \notin N
    <3>1. Announced(g)' <=> Announced(g)
      BY <1>3, <1>6, <1>7, <2>4 DEF Announced
    <3>2. sent'[g] = sent[g]
      BY <1>4, <2>1, <2>4
    <3> QED BY <2>2, <3>1, <3>2
  <2> QED BY <2>3, <2>4
<1>14. OneMessagePerStoredFiling'
  BY <1>7, <1>13 DEF OneMessagePerStoredFiling
<1> QED BY <1>8, <1>9, <1>10, <1>11, <1>12, <1>14 DEF FilingsInv, RunSound

(* What the end of a transaction leaves.                                   *)
LEMMA EmptyHands ==
  /\ DOMAIN NoTxn = Columns
  /\ NoTxn.todo = {} /\ NoTxn.inserted = {} /\ NoTxn.announced = {}
BY DEF NoTxn, Columns

(* A commit stores what was announced and what was cut short.              *)
LEMMA CommitKeeps ==
  ASSUME FilingsInv, NEW r \in Run, Commit(r) PROVE FilingsInv'
<1>1. Goto(r, "done") /\ Becomes(r, NoTxn)
  BY DEF Commit
<1>2. /\ pc[r] = "next" /\ RunSound(r)
      /\ txn[r].inserted \subseteq txn[r].announced \cup history.cut
  BY DEF Commit, FilingsInv, RunSound, Told
<1>3. /\ DOMAIN pc' = Run /\ pc'[r] = "done" /\ DOMAIN txn' = Run /\ txn'[r] = NoTxn
      /\ \A q \in Run : q # r => pc'[q] = pc[q] /\ txn'[q] = txn[q]
  BY <1>1, OneRunMoves
<1>4. /\ UNCHANGED <<published, at, sent, history>>
      /\ stored' = stored \cup txn[r].inserted
  BY DEF Commit
<1>5. RowsSound(r)'
  BY <1>3, EmptyHands DEF RowsSound
<1>6. InPlan(r)' /\ InHand(r)' /\ Told(r)'
  BY <1>2, <1>3, <1>4, EmptyHands DEF RunSound, InPlan, InHand, Told, InCall
<1>7. ASSUME NEW q \in Run, q # r PROVE RunSound(q)'
  <2>1. /\ RunSound(q) /\ txn[q].inserted \cap stored = {}
        /\ txn[q].inserted \cap txn[r].inserted = {}
    BY <1>7 DEF FilingsInv, RunSound, RowsSound, OneInserter
  <2> QED BY <1>3, <1>4, <1>7, <2>1, OthersKeep
<1>8. OneInserter' /\ CutKnown'
  BY <1>3, <1>4, EmptyHands DEF FilingsInv, OneInserter, CutKnown
<1>9. Typed'
  <2>1. txn[r].inserted \subseteq Filing
    BY <1>2 DEF RunSound, RowsSound
  <2> QED BY <1>3, <1>4, <2>1 DEF FilingsInv, Typed
<1>10. ASSUME NEW g \in Filing PROVE Announced(g)' <=> Announced(g)
  <2>1. CASE g \in txn[r].inserted
    <3>1. g \notin stored /\ \A q \in Run : q # r => g \notin txn[q].announced
      <4>1. ASSUME NEW q \in Run, q # r PROVE g \notin txn[q].announced
        BY <2>1, <4>1 DEF FilingsInv, OneInserter, RunSound, RowsSound
      <4> QED BY <1>2, <2>1, <4>1 DEF RunSound, RowsSound
    <3>2. g \in txn[r].announced <=> g \notin history.cut
      BY <1>2, <2>1 DEF RunSound, RowsSound
    <3>3. Announced(g) <=> g \notin history.cut
      BY <3>1, <3>2 DEF Announced
    <3>4. Announced(g)' <=> g \notin history.cut
      BY <1>3, <1>4, <2>1, <3>1, EmptyHands DEF Announced
    <3> QED BY <3>3, <3>4
  <2>2. CASE g \notin txn[r].inserted
    <3>1. g \notin txn[r].announced
      BY <1>2, <2>2 DEF RunSound, RowsSound
    <3> QED BY <1>3, <1>4, <2>2, <3>1, EmptyHands DEF Announced
  <2> QED BY <2>1, <2>2
<1>11. OneMessagePerStoredFiling'
  BY <1>4, <1>10 DEF FilingsInv, OneMessagePerStoredFiling
<1> QED BY <1>5, <1>6, <1>7, <1>8, <1>9, <1>11 DEF FilingsInv, RunSound

(* A rollback takes the rows back and leaves the messages: announced, they *)
(* are now lost ones.                                                      *)
LEMMA AbortKeeps ==
  ASSUME FilingsInv, NEW r \in Run, Abort(r) PROVE FilingsInv'
<1>1. Goto(r, "failed") /\ Becomes(r, NoTxn)
  BY DEF Abort
<1>2. RunSound(r)
  BY DEF FilingsInv
<1>3. /\ DOMAIN pc' = Run /\ pc'[r] = "failed" /\ DOMAIN txn' = Run /\ txn'[r] = NoTxn
      /\ \A q \in Run : q # r => pc'[q] = pc[q] /\ txn'[q] = txn[q]
  BY <1>1, OneRunMoves
<1>4. /\ UNCHANGED <<published, stored, at, sent>>
      /\ DOMAIN history' = {"lost", "cut", "met"}
      /\ history'.cut = history.cut \ txn[r].inserted
      /\ history'.lost = [g \in Filing |-> history.lost[g]
                                           + IF g \in txn[r].announced THEN 1 ELSE 0]
  BY DEF Abort, Rollback
<1>5. RowsSound(r)'
  BY <1>3, EmptyHands DEF RowsSound
<1>6. InPlan(r)' /\ InHand(r)' /\ Told(r)'
  BY <1>2, <1>3, <1>4, EmptyHands DEF RunSound, InPlan, InHand, Told, InCall
<1>7. ASSUME NEW q \in Run, q # r PROVE RunSound(q)'
  <2>1. /\ RunSound(q) /\ txn[q].inserted \cap stored' = {}
        /\ txn[q].inserted \cap txn[r].inserted = {}
    BY <1>4, <1>7 DEF FilingsInv, RunSound, RowsSound, OneInserter
  <2> QED BY <1>3, <1>4, <1>7, <2>1, OthersKeep
<1>8. OneInserter' /\ CutKnown'
  BY <1>3, <1>4, EmptyHands DEF FilingsInv, OneInserter, CutKnown
<1>9. Typed'
  <2>1. history'.lost \in [Filing -> Nat]
    BY <1>4 DEF FilingsInv, Typed
  <2> QED BY <1>3, <1>4, <2>1 DEF FilingsInv, Typed
<1>10. ASSUME NEW g \in Filing
       PROVE  sent[g] = history'.lost[g] + IF Announced(g)' THEN 1 ELSE 0
  <2>1. sent[g] \in Nat /\ history.lost[g] \in Nat
    BY DEF FilingsInv, Typed
  <2>2. sent[g] = history.lost[g] + IF Announced(g) THEN 1 ELSE 0
    BY DEF FilingsInv, OneMessagePerStoredFiling
  <2>3. CASE g \in txn[r].announced
    <3>1. g \in txn[r].inserted /\ g \notin stored
      BY <1>2, <2>3 DEF RunSound, RowsSound
    <3>2. \A q \in Run : q # r => g \notin txn[q].announced
      BY <3>1 DEF FilingsInv, OneInserter, RunSound, RowsSound
    <3>3. Announced(g)
      BY <2>3 DEF Announced
    <3>4. ~ Announced(g)'
      BY <1>3, <1>4, <3>1, <3>2, EmptyHands DEF Announced
    <3>5. history'.lost[g] = history.lost[g] + 1
      BY <1>4, <2>3
    <3> QED BY <2>1, <2>2, <3>3, <3>4, <3>5
  <2>4. CASE g \notin txn[r].announced
    <3>1. g \in stored => g \notin txn[r].inserted
      BY <1>2 DEF RunSound, RowsSound
    <3>2. Announced(g)' <=> Announced(g)
      BY <1>3, <1>4, <2>4, <3>1, EmptyHands DEF Announced
    <3>3. history'.lost[g] = history.lost[g]
      BY <1>4, <2>1, <2>4
    <3> QED BY <2>2, <3>2, <3>3
  <2> QED BY <2>3, <2>4
<1>11. OneMessagePerStoredFiling'
  BY <1>4, <1>10 DEF OneMessagePerStoredFiling
<1> QED BY <1>5, <1>6, <1>7, <1>8, <1>9, <1>11 DEF FilingsInv, RunSound

(* An EDGAR error in a scheduled run: the filings of the call join those   *)
(* cut short, and no other run held one of them.                           *)
LEMMA EdgarErrorKeeps ==
  ASSUME FilingsInv, NEW r \in Run, EdgarError(r) PROVE FilingsInv'
<1>1. CASE r \notin Scheduled
  BY <1>1, AbortKeeps DEF EdgarError
<1>2. CASE r \in Scheduled
  <2> DEFINE N == NewlyInserted(r)
  <2>1. /\ pc[r] \in InCall /\ RunSound(r) /\ DOMAIN txn = Run
        /\ Goto(r, "next") /\ UNCHANGED <<published, stored, at, txn, sent>>
        /\ history' = [history EXCEPT !.cut = history.cut \cup N]
    BY <1>2 DEF EdgarError, CutShort, InCall, FilingsInv, Typed
  <2>2. /\ N \subseteq txn[r].inserted
        /\ \A g \in N : g \notin txn[r].announced /\ g \notin stored
        /\ txn[r].inserted \ N \subseteq txn[r].announced \cup history.cut
    BY <2>1 DEF NewlyInserted, RunSound, RowsSound, Told
  <2> HIDE DEF N
  <2>3. /\ DOMAIN history' = {"lost", "cut", "met"}
        /\ history'.lost = history.lost /\ history'.cut = history.cut \cup N
    BY <2>1 DEF FilingsInv, Typed
  <2>4. /\ DOMAIN pc' = Run /\ pc'[r] = "next"
        /\ \A q \in Run : q # r => pc'[q] = pc[q]
    BY <2>1 DEF FilingsInv, Typed, Goto
  <2>5. \A q \in Run : q # r => N \cap txn[q].inserted = {}
    BY <2>2 DEF FilingsInv, OneInserter
  <2>6. RunSound(r)'
    <3>1. RowsSound(r)'
      BY <2>1, <2>2, <2>3 DEF RunSound, RowsSound
    <3>2. InPlan(r)' /\ InHand(r)' /\ Told(r)'
      BY <2>1, <2>2, <2>3, <2>4 DEF RunSound, InPlan, InHand, Told, InCall
    <3> QED BY <3>1, <3>2 DEF RunSound
  <2>7. ASSUME NEW q \in Run, q # r PROVE RunSound(q)'
    <3>1. RunSound(q) /\ txn[q].inserted \cap stored' = {}
      BY <2>1 DEF FilingsInv, RunSound, RowsSound
    <3>2. \A g \in txn[q].inserted : g \in history'.cut <=> g \in history.cut
      BY <2>3, <2>5, <2>7
    <3> QED BY <2>1, <2>4, <2>7, <3>1, <3>2, OthersKeep
  <2>8. OneInserter' /\ CutKnown'
    BY <2>1, <2>2, <2>3 DEF FilingsInv, OneInserter, CutKnown
  <2>9. Typed'
    BY <2>1, <2>3, <2>4 DEF FilingsInv, Typed
  <2>10. \A g \in Filing : Announced(g)' <=> Announced(g)
    BY <2>1, <2>2, <2>3 DEF Announced
  <2>11. OneMessagePerStoredFiling'
    BY <2>1, <2>3, <2>10 DEF FilingsInv, OneMessagePerStoredFiling
  <2> QED BY <2>6, <2>7, <2>8, <2>9, <2>11 DEF FilingsInv
<1> QED BY <1>1, <1>2

--------------------------------------------------------------------------------
(* Nothing is stored, inserted or sent at the start.                       *)
LEMMA InitFilingsInv == InitFilings => FilingsInv
<1>1. SUFFICES ASSUME InitFilings PROVE FilingsInv
  OBVIOUS
<1>2. \A q \in Run : pc[q] = "waiting" /\ at[q] = 0 /\ txn[q] = NoTxn
  BY <1>1 DEF InitFilings
<1>3. /\ published \subseteq Filing /\ stored = {} /\ sent = [g \in Filing |-> 0]
      /\ DOMAIN pc = Run /\ DOMAIN at = Run /\ DOMAIN txn = Run
      /\ DOMAIN history = {"lost", "cut", "met"} /\ history.cut = {}
      /\ history.lost = [g \in Filing |-> 0]
  BY <1>1, FilingsAssumption DEF InitFilings
<1>4. Typed
  BY <1>3 DEF Typed
<1>5. ASSUME NEW q \in Run PROVE RunSound(q)
  <2>1. Plan[q] \in Seq(Filer)
    BY FilingsAssumption
  <2>2. Len(Plan[q]) \in Nat
    BY <2>1
  <2>3. 0 \in 0 .. Len(Plan[q])
    BY <2>2
  <2>4. RowsSound(q)
    BY <1>2, <1>3, EmptyHands DEF RowsSound
  <2>5. InPlan(q) /\ InHand(q) /\ Told(q)
    BY <1>2, <2>3, EmptyHands DEF InPlan, InHand, Told, InCall
  <2> QED BY <2>4, <2>5 DEF RunSound
<1>6. OneInserter /\ CutKnown
  BY <1>2, <1>3, EmptyHands DEF OneInserter, CutKnown
<1>7. \A g \in Filing : ~ Announced(g)
  BY <1>2, <1>3, EmptyHands DEF Announced
<1>8. OneMessagePerStoredFiling
  BY <1>3, <1>7 DEF OneMessagePerStoredFiling
<1> QED BY <1>4, <1>5, <1>6, <1>8 DEF FilingsInv

(* Every step of FilingsNext keeps the invariant.                          *)
LEMMA StepKeeps == FilingsInv /\ [FilingsNext]_filingVars => FilingsInv'
<1>1. SUFFICES ASSUME FilingsInv, [FilingsNext]_filingVars PROVE FilingsInv'
  OBVIOUS
<1>2. CASE UNCHANGED filingVars
  <2>1. UNCHANGED <<published, stored, pc, at, txn, sent, history>>
    BY <1>2 DEF filingVars
  <2>2. ASSUME NEW q \in Run PROVE RunSound(q)'
    <3>1. RunSound(q) /\ txn[q].inserted \cap stored' = {}
      BY <1>1, <2>1 DEF FilingsInv, RunSound, RowsSound
    <3> QED BY <2>1, <3>1, OthersKeep
  <2> QED BY <1>1, <2>1, <2>2 DEF FilingsInv, Typed, OneInserter, CutKnown,
                                  OneMessagePerStoredFiling, Announced
<1>3. CASE Publish
  BY <1>1, <1>3, PublishKeeps
<1>4. ASSUME NEW r \in Run, Step(r) PROVE FilingsInv'
  <2>1. CASE TakeFiler(r) \/ ListFilings(r) \/ Probe(r)
    BY <1>1, <2>1, TakeFilerKeeps, ListFilingsKeeps, ProbeKeeps
  <2>2. CASE Insert(r) \/ ReadLatest(r) \/ UpdateLatest(r)
    BY <1>1, <2>2, InsertKeeps, ReadLatestKeeps, UpdateLatestKeeps
  <2>3. CASE Notify(r) \/ Commit(r)
    BY <1>1, <2>3, NotifyKeeps, CommitKeeps
  <2>4. CASE Duplicate(r) \/ BreakDeadlock(r)
    BY <1>1, <2>4, AbortKeeps DEF Duplicate, BreakDeadlock
  <2> QED BY <1>4, <2>1, <2>2, <2>3, <2>4 DEF Step
<1>5. ASSUME NEW r \in Run, Start(r) \/ EdgarError(r) \/ Crash(r) PROVE FilingsInv'
  <2>1. CASE Start(r)
    BY <1>1, <2>1, StartKeeps
  <2>2. CASE EdgarError(r)
    BY <1>1, <2>2, EdgarErrorKeeps
  <2>3. CASE Crash(r)
    BY <1>1, <2>3, AbortKeeps DEF Crash
  <2> QED BY <1>5, <2>1, <2>2, <2>3
<1> QED BY <1>1, <1>2, <1>3, <1>4, <1>5 DEF FilingsNext

(* Whatever runs meet, fail, roll back or deadlock, a stored filing was    *)
(* announced once and a filing that is not stored only in vain; silence is *)
(* kept about the filings of a call an EDGAR error cut short, no others.   *)
THEOREM StoredFilingsAreAnnouncedOnce == FilingsSpec => []OneMessagePerStoredFiling
<1>1. FilingsInv => OneMessagePerStoredFiling
  BY DEF FilingsInv
<1> QED BY <1>1, InitFilingsInv, StepKeeps, PTL DEF FilingsSpec

--------------------------------------------------------------------------------
(* The latest date.  A filer no two runs met at is in the hands of one run *)
(* at most, from the moment its call starts until the transaction ends, so *)
(* what the run read of its stored filings is still true when it commits.  *)

(* What the row of f should show when S is stored. *)
Shown(f, S) ==
  LET periods == PeriodsOf(f, S) IN IF periods = {} THEN NoPeriod ELSE NewestOf(periods)

Engaged(q, f) == Holds(q, f) \/ f \in Touched(q)

Alone ==
  \A f \in Filer : f \notin history.met =>
    \A p, q \in Run : p # q => ~ (Engaged(p, f) /\ Engaged(q, f))

(* A run writes a filer's row once, at the end of its call. *)
WroteInPlan(q) ==
  /\ \A f \in DOMAIN txn[q].wrote : \E i \in 1 .. at[q] : f = Plan[q][i]
  /\ pc[q] \in {"list", "probe", "insert", "update"} => Target(q) \notin DOMAIN txn[q].wrote
  /\ pc[q] = "waiting" => DOMAIN txn[q].wrote = {}

Follows(q, f) ==
  f \in DOMAIN txn[q].wrote /\ txn[q].wrote[f] = Shown(f, stored \cup txn[q].inserted)

CutBy(q, f) == \E g \in txn[q].inserted : g \in history.cut /\ FilerOf[g] = f

InCallOf(q, f) == pc[q] \in {"list", "probe", "insert", "update"} /\ Target(q) = f

Following(q) ==
  \A f \in Filer : f \notin history.met =>
    /\ pc[q] = "update" /\ Target(q) = f =>
         txn[q].newest = Shown(f, stored \cup txn[q].inserted)
    /\ f \in Touched(q) => InCallOf(q, f) \/ CutBy(q, f) \/ Follows(q, f)

Settled ==
  \A f \in Filer : f \notin history.met =>
    \/ \E g \in history.cut : g \in stored /\ FilerOf[g] = f
    \/ latest[f] = Shown(f, stored)

LatestInv ==
  /\ Alone
  /\ \A q \in Run : WroteInPlan(q) /\ Following(q)
  /\ Settled

(* What a filer should show depends on its own filings only.               *)
LEMMA SameShown ==
  ASSUME NEW f, NEW S, NEW T, \A g : FilerOf[g] = f => (g \in S <=> g \in T)
  PROVE  Shown(f, S) = Shown(f, T)
<1>1. {h \in S : FilerOf[h] = f} = {h \in T : FilerOf[h] = f}
  OBVIOUS
<1> QED BY <1>1 DEF Shown, PeriodsOf

(* A run that does not move goes on following its filers, when at most     *)
(* what another run inserted gets stored.                                  *)
LEMMA OthersFollow ==
  ASSUME FilingsInv, LatestInv, NEW r \in Run, NEW q \in Run, q # r,
         pc'[q] = pc[q], at'[q] = at[q], txn'[q] = txn[q],
         history.met \subseteq history'.met,
         \A g \in txn[q].inserted : g \in history.cut => g \in history'.cut,
         stored \subseteq stored', stored' \subseteq stored \cup txn[r].inserted
  PROVE  WroteInPlan(q)' /\ Following(q)'
<1>1. WroteInPlan(q) /\ Following(q) /\ InPlan(q)
  BY DEF LatestInv, FilingsInv, RunSound
<1>2. WroteInPlan(q)'
  BY <1>1 DEF WroteInPlan, Target
<1>3. ASSUME NEW f \in Filer, Engaged(q, f), f \notin history'.met
      PROVE  Shown(f, stored' \cup txn'[q].inserted) = Shown(f, stored \cup txn[q].inserted)
  <2>1. f \notin history.met
    BY <1>3
  <2>2. ~ Engaged(r, f)
    BY <1>3, <2>1 DEF LatestInv, Alone
  <2>3. \A g \in txn[r].inserted : FilerOf[g] # f
    BY <2>2 DEF Engaged, Touched
  <2>4. \A g : FilerOf[g] = f => (g \in stored' <=> g \in stored)
    BY <2>3
  <2>5. \A g : FilerOf[g] = f =>
          (g \in stored' \cup txn[q].inserted <=> g \in stored \cup txn[q].inserted)
    BY <2>4
  <2> QED BY <2>5, SameShown
<1>4. ASSUME NEW f \in Filer, f \notin history'.met, pc'[q] = "update", Target(q)' = f
      PROVE  txn'[q].newest = Shown(f, stored' \cup txn'[q].inserted)
  <2>1. Target(q) = f /\ f \notin history.met
    BY <1>4 DEF Target
  <2>2. Engaged(q, f)
    BY <1>4, <2>1 DEF Engaged, Holds, InCall
  <2>3. txn[q].newest = Shown(f, stored \cup txn[q].inserted)
    BY <1>1, <1>4, <2>1 DEF Following
  <2>4. Shown(f, stored' \cup txn'[q].inserted) = Shown(f, stored \cup txn[q].inserted)
    BY <1>3, <1>4, <2>2
  <2> QED BY <2>3, <2>4
<1>5. ASSUME NEW f \in Filer, f \in Touched(q)', f \notin history'.met
      PROVE  InCallOf(q, f)' \/ CutBy(q, f)' \/ Follows(q, f)'
  <2>1. f \in Touched(q) /\ f \notin history.met /\ Engaged(q, f)
    BY <1>5 DEF Touched, Engaged
  <2>2. InCallOf(q, f) \/ CutBy(q, f) \/ Follows(q, f)
    BY <1>1, <2>1 DEF Following
  <2>3. InCallOf(q, f) => InCallOf(q, f)'
    BY DEF InCallOf, Target
  <2>4. CutBy(q, f) => CutBy(q, f)'
    BY DEF CutBy
  <2>5. Shown(f, stored' \cup txn'[q].inserted) = Shown(f, stored \cup txn[q].inserted)
    BY <1>3, <1>5, <2>1
  <2>6. Follows(q, f) => Follows(q, f)'
    BY <2>5 DEF Follows
  <2> QED BY <2>2, <2>3, <2>4, <2>6
<1> QED BY <1>2, <1>4, <1>5 DEF Following

(* What a step of r has to show for itself.                                *)
LEMMA RunLatest ==
  ASSUME FilingsInv, LatestInv, NEW r \in Run,
         \A q \in Run : q # r => pc'[q] = pc[q] /\ at'[q] = at[q] /\ txn'[q] = txn[q],
         history.met \subseteq history'.met,
         \A g \in history.cut : g \notin txn[r].inserted => g \in history'.cut,
         stored \subseteq stored', stored' \subseteq stored \cup txn[r].inserted,
         \A f \in Filer : f \notin history'.met /\ Engaged(r, f)' =>
           \A q \in Run : q # r => ~ Engaged(q, f),
         WroteInPlan(r)', Following(r)', Settled'
  PROVE  LatestInv'
<1>1. ASSUME NEW q \in Run, q # r PROVE WroteInPlan(q)' /\ Following(q)'
  <2>1. \A g \in txn[q].inserted : g \notin txn[r].inserted
    BY <1>1 DEF FilingsInv, OneInserter
  <2>2. \A g \in txn[q].inserted : g \in history.cut => g \in history'.cut
    BY <2>1
  <2> QED BY <1>1, <2>2, OthersFollow
<1>2. ASSUME NEW q \in Run, q # r, NEW f PROVE Engaged(q, f)' <=> Engaged(q, f)
  BY <1>2 DEF Engaged, Holds, Touched, Target
<1>3. Alone'
  <2>1. SUFFICES ASSUME NEW f \in Filer, f \notin history'.met,
                        NEW p \in Run, NEW q \in Run, p # q,
                        Engaged(p, f)', Engaged(q, f)'
                 PROVE  FALSE
    BY DEF Alone
  <2>2. CASE p # r /\ q # r
    <3>1. Engaged(p, f) /\ Engaged(q, f) /\ f \notin history.met
      BY <1>2, <2>1, <2>2
    <3> QED BY <2>1, <3>1 DEF LatestInv, Alone
  <2>3. CASE p = r
    BY <1>2, <2>1, <2>3
  <2>4. CASE q = r
    BY <1>2, <2>1, <2>4
  <2> QED BY <2>2, <2>3, <2>4
<1> QED BY <1>1, <1>3 DEF LatestInv

(* What is settled stays settled while nothing is stored.                  *)
LEMMA StaysSettled ==
  ASSUME LatestInv, stored' = stored, latest' = latest, history.met \subseteq history'.met,
         \A g \in stored : g \in history.cut => g \in history'.cut
  PROVE  Settled'
BY DEF LatestInv, Settled

(* A run that takes up nobody new finds nobody else at its filers.         *)
LEMMA StaysAlone ==
  ASSUME LatestInv, NEW r \in Run, history.met \subseteq history'.met,
         \A f : Engaged(r, f)' => Engaged(r, f)
  PROVE  \A f \in Filer : f \notin history'.met /\ Engaged(r, f)' =>
           \A q \in Run : q # r => ~ Engaged(q, f)
BY DEF LatestInv, Alone

(* A step of the search for new filings, which may insert one of the filer *)
(* in hand.                                                                *)
LEMMA SearchFollows ==
  ASSUME FilingsInv, LatestInv, NEW r \in Run,
         \A q \in Run : q # r => pc'[q] = pc[q] /\ txn'[q] = txn[q],
         at' = at, stored' = stored, latest' = latest, history' = history,
         pc[r] \in {"list", "probe", "insert"}, pc'[r] \in {"probe", "insert"},
         txn'[r].wrote = txn[r].wrote, txn[r].inserted \subseteq txn'[r].inserted,
         \A g \in txn'[r].inserted : g \in txn[r].inserted \/ FilerOf[g] = Target(r)
  PROVE  LatestInv'
<1>1. Target(r)' = Target(r)
  BY DEF Target
<1>2. WroteInPlan(r) /\ Following(r)
  BY DEF LatestInv
<1>3. WroteInPlan(r)'
  BY <1>1, <1>2 DEF WroteInPlan
<1>4. Holds(r, Target(r)) /\ Holds(r, Target(r))'
  BY <1>1 DEF Holds, InCall
<1>5. ASSUME NEW f, Engaged(r, f)' PROVE Engaged(r, f)
  <2>1. CASE f = Target(r)
    BY <1>4, <2>1 DEF Engaged
  <2>2. CASE f # Target(r)
    BY <1>1, <1>5, <2>2 DEF Engaged, Holds, Touched
  <2> QED BY <2>1, <2>2
<1>6. Following(r)'
  <2>1. SUFFICES ASSUME NEW f \in Filer, f \notin history.met, f \in Touched(r)', f # Target(r)
                 PROVE  CutBy(r, f)' \/ Follows(r, f)'
    <3>1. \A f : f = Target(r) => InCallOf(r, f)'
      BY <1>1 DEF InCallOf
    <3> QED BY <3>1 DEF Following
  <2>2. f \in Touched(r)
    BY <2>1 DEF Touched
  <2>3. CutBy(r, f) \/ Follows(r, f)
    BY <1>2, <2>1, <2>2 DEF Following, InCallOf
  <2>4. CutBy(r, f) => CutBy(r, f)'
    BY DEF CutBy
  <2>5. Shown(f, stored \cup txn'[r].inserted) = Shown(f, stored \cup txn[r].inserted)
    <3>1. \A g : FilerOf[g] = f =>
            (g \in stored \cup txn'[r].inserted <=> g \in stored \cup txn[r].inserted)
      BY <2>1
    <3> QED BY <3>1, SameShown
  <2>6. Follows(r, f) => Follows(r, f)'
    BY <2>5 DEF Follows
  <2> QED BY <2>3, <2>4, <2>6
<1>7. Settled'
  BY StaysSettled
<1>8. \A f \in Filer : f \notin history'.met /\ Engaged(r, f)' =>
        \A q \in Run : q # r => ~ Engaged(q, f)
  BY <1>5, StaysAlone
<1> QED BY <1>3, <1>6, <1>7, <1>8, RunLatest

(* Listing, probing and inserting are such steps.                          *)
LEMMA SearchStepsFollow ==
  ASSUME FilingsInv, LatestInv, NEW r \in Run, ListFilings(r) \/ Probe(r) \/ Insert(r)
  PROVE  LatestInv'
<1>1. /\ RunSound(r) /\ DOMAIN txn[r] = Columns /\ DOMAIN txn = Run /\ DOMAIN pc = Run
  BY DEF FilingsInv, Typed, RunSound, RowsSound
<1>2. CASE ListFilings(r)
  <2> DEFINE t == [txn[r] EXCEPT !.todo = {g \in published : FilerOf[g] = Target(r)}]
  <2>1. Goto(r, "probe") /\ Becomes(r, t)
    BY <1>2 DEF ListFilings
  <2>2. t.inserted = txn[r].inserted /\ t.wrote = txn[r].wrote
    BY <1>1 DEF Columns
  <2> HIDE DEF t
  <2>3. /\ pc'[r] = "probe" /\ txn'[r] = t
        /\ \A q \in Run : q # r => pc'[q] = pc[q] /\ txn'[q] = txn[q]
    BY <2>1, OneRunMoves
  <2>4. pc[r] = "list" /\ at' = at /\ stored' = stored /\ latest' = latest /\ history' = history
    BY <1>2 DEF ListFilings
  <2> QED BY <2>2, <2>3, <2>4, SearchFollows
<1>3. CASE Probe(r)
  <2> DEFINE g == NewestOf(txn[r].todo)
             skip == [txn[r] EXCEPT !.todo = txn[r].todo \ {g}]
             take == [skip EXCEPT !.current = g]
  <2>1. pc[r] = "probe" /\ at' = at /\ stored' = stored /\ latest' = latest /\ history' = history
    BY <1>3 DEF Probe
  <2>2. \/ pc' = pc /\ Becomes(r, skip)
        \/ Goto(r, "insert") /\ Becomes(r, take)
    BY <1>3 DEF Probe
  <2>3. /\ DOMAIN skip = Columns
        /\ skip.inserted = txn[r].inserted /\ skip.wrote = txn[r].wrote
    BY <1>1 DEF Columns
  <2>4. take.inserted = txn[r].inserted /\ take.wrote = txn[r].wrote
    <3> HIDE DEF g
    <3>1. take = [skip EXCEPT !.current = g] OBVIOUS
    <3> HIDE DEF skip, take
    <3> QED BY <2>3, <3>1 DEF Columns
  <2> HIDE DEF skip, take, g
  <2>5. /\ \A q \in Run : q # r => pc'[q] = pc[q] /\ txn'[q] = txn[q]
        /\ txn'[r].inserted = txn[r].inserted /\ txn'[r].wrote = txn[r].wrote
        /\ pc'[r] \in {"probe", "insert"}
    <3>1. CASE pc' = pc /\ Becomes(r, skip)
      BY <1>1, <2>1, <2>3, <3>1 DEF Becomes
    <3>2. CASE Goto(r, "insert") /\ Becomes(r, take)
      BY <2>4, <3>2, OneRunMoves
    <3> QED BY <2>2, <3>1, <3>2
  <2> QED BY <2>1, <2>5, SearchFollows
<1>4. CASE Insert(r)
  <2> DEFINE g == txn[r].current
             t == [txn[r] EXCEPT !.inserted = txn[r].inserted \cup {g}]
  <2>1. Goto(r, "probe") /\ Becomes(r, t)
    BY <1>4 DEF Insert
  <2>2. /\ pc[r] = "insert" /\ at' = at /\ stored' = stored /\ latest' = latest
        /\ history' = history /\ FilerOf[g] = Target(r)
    BY <1>1, <1>4 DEF Insert, RunSound, InHand
  <2>3. t.inserted = txn[r].inserted \cup {g} /\ t.wrote = txn[r].wrote
    BY <1>1 DEF Columns
  <2> HIDE DEF t, g
  <2>4. /\ pc'[r] = "probe" /\ txn'[r] = t
        /\ \A q \in Run : q # r => pc'[q] = pc[q] /\ txn'[q] = txn[q]
    BY <2>1, OneRunMoves
  <2> QED BY <2>2, <2>3, <2>4, SearchFollows
<1> QED BY <1>2, <1>3, <1>4

(* What is read is the newest period of the filings stored and inserted; a *)
(* filer without any keeps its row.                                        *)
LEMMA ReadLatestFollows ==
  ASSUME FilingsInv, LatestInv, NEW r \in Run, ReadLatest(r) PROVE LatestInv'
<1> DEFINE own == stored \cup txn[r].inserted
           read == PeriodsOf(Target(r), own)
           t == [txn[r] EXCEPT !.newest = NewestOf(read)]
<1>1. /\ RunSound(r) /\ DOMAIN txn[r] = Columns /\ DOMAIN txn = Run /\ DOMAIN pc = Run
      /\ WroteInPlan(r) /\ Following(r)
  BY DEF FilingsInv, Typed, RunSound, RowsSound, LatestInv
<1>2. /\ pc[r] = "probe" /\ at' = at /\ stored' = stored /\ latest' = latest /\ history' = history
      /\ \/ read = {} /\ Goto(r, "notify") /\ txn' = txn
         \/ read # {} /\ Goto(r, "update") /\ Becomes(r, t)
  BY DEF ReadLatest
<1>3. t.inserted = txn[r].inserted /\ t.wrote = txn[r].wrote /\ t.newest = NewestOf(read)
  BY <1>1 DEF Columns
<1> HIDE DEF t
<1>4. /\ \A q \in Run : q # r => pc'[q] = pc[q] /\ txn'[q] = txn[q] /\ at'[q] = at[q]
      /\ txn'[r].inserted = txn[r].inserted /\ txn'[r].wrote = txn[r].wrote
      /\ \/ read = {} /\ pc'[r] = "notify"
         \/ read # {} /\ pc'[r] = "update" /\ txn'[r].newest = NewestOf(read)
  <2>1. CASE read = {} /\ Goto(r, "notify") /\ txn' = txn
    BY <1>1, <1>2, <2>1 DEF Goto
  <2>2. CASE read # {} /\ Goto(r, "update") /\ Becomes(r, t)
    BY <1>2, <1>3, <2>2, OneRunMoves
  <2> QED BY <1>2, <2>1, <2>2
<1>5. Target(r)' = Target(r)
  BY <1>2 DEF Target
<1>6. WroteInPlan(r)'
  BY <1>1, <1>2, <1>4, <1>5 DEF WroteInPlan
<1>7. read # {} => NewestOf(read) = Shown(Target(r), own)
  BY DEF Shown
<1>8. read = {} => \A g \in txn[r].inserted : FilerOf[g] # Target(r)
  BY DEF PeriodsOf
<1> HIDE DEF own, read
<1>9. Following(r)'
  <2>1. own = stored' \cup txn'[r].inserted
    BY <1>2, <1>4 DEF own
  <2>2. SUFFICES ASSUME NEW f \in Filer, f \notin history.met
                 PROVE  /\ pc'[r] = "update" /\ Target(r) = f =>
                             txn'[r].newest = Shown(f, own)
                        /\ f \in Touched(r)' => InCallOf(r, f)' \/ CutBy(r, f)' \/ Follows(r, f)'
    BY <1>2, <1>5, <2>1 DEF Following
  <2>3. pc'[r] = "update" /\ Target(r) = f => txn'[r].newest = Shown(f, own)
    BY <1>4, <1>7
  <2>4. ASSUME f \in Touched(r)' PROVE InCallOf(r, f)' \/ CutBy(r, f)' \/ Follows(r, f)'
    <3>1. f \in Touched(r)
      BY <1>4, <2>4 DEF Touched
    <3>2. CASE f = Target(r)
      <4>1. f \notin DOMAIN txn[r].wrote
        BY <1>1, <1>2, <3>2 DEF WroteInPlan
      <4>2. pc'[r] = "update"
        BY <1>4, <1>8, <3>1, <3>2, <4>1 DEF Touched
      <4> QED BY <1>5, <3>2, <4>2 DEF InCallOf
    <3>3. CASE f # Target(r)
      <4>1. CutBy(r, f) \/ Follows(r, f)
        BY <1>1, <2>2, <3>1, <3>3 DEF Following, InCallOf
      <4>2. CutBy(r, f) => CutBy(r, f)'
        BY <1>2, <1>4 DEF CutBy
      <4>3. Follows(r, f) => Follows(r, f)'
        BY <1>2, <1>4 DEF Follows
      <4> QED BY <4>1, <4>2, <4>3
    <3> QED BY <3>2, <3>3
  <2> QED BY <2>3, <2>4
<1>10. \A f : Engaged(r, f)' => Engaged(r, f)
  <2>1. \A f : f \in Touched(r)' => f \in Touched(r)
    BY <1>4 DEF Touched
  <2>2. Holds(r, Target(r))
    BY <1>2 DEF Holds, InCall
  <2> QED BY <1>5, <2>1, <2>2 DEF Engaged, Holds
<1>11. Settled'
  BY <1>2, StaysSettled
<1>12. \A f \in Filer : f \notin history'.met /\ Engaged(r, f)' =>
         \A q \in Run : q # r => ~ Engaged(q, f)
  BY <1>2, <1>10, StaysAlone
<1> QED BY <1>2, <1>4, <1>6, <1>9, <1>11, <1>12, RunLatest

(* What is written is what was read, and no other row is touched.          *)
LEMMA UpdateLatestFollows ==
  ASSUME FilingsInv, LatestInv, NEW r \in Run, UpdateLatest(r) PROVE LatestInv'
<1> DEFINE w == Put(txn[r].wrote, Target(r), txn[r].newest)
           t == [txn[r] EXCEPT !.wrote = w]
<1>1. /\ RunSound(r) /\ DOMAIN txn[r] = Columns /\ WroteInPlan(r) /\ Following(r)
  BY DEF FilingsInv, RunSound, RowsSound, LatestInv
<1>2. /\ pc[r] = "update" /\ at' = at /\ stored' = stored /\ latest' = latest /\ history' = history
      /\ Goto(r, "notify") /\ Becomes(r, t)
  BY DEF UpdateLatest
<1>3. t.inserted = txn[r].inserted /\ t.wrote = w
  <2> HIDE DEF w
  <2> QED BY <1>1 DEF Columns
<1>4. /\ DOMAIN w = DOMAIN txn[r].wrote \cup {Target(r)} /\ w[Target(r)] = txn[r].newest
      /\ \A f \in DOMAIN txn[r].wrote : f # Target(r) => w[f] = txn[r].wrote[f]
  BY DEF Put
<1> HIDE DEF t, w
<1>5. /\ \A q \in Run : q # r => pc'[q] = pc[q] /\ txn'[q] = txn[q] /\ at'[q] = at[q]
      /\ pc'[r] = "notify" /\ txn'[r].inserted = txn[r].inserted /\ txn'[r].wrote = w
  BY <1>2, <1>3, OneRunMoves
<1>6. Target(r)' = Target(r) /\ Target(r) = Plan[r][at[r]] /\ at[r] \in 1 .. at[r]
  <2>1. at[r] \in 0 .. Len(Plan[r]) /\ at[r] >= 1
    BY <1>1, <1>2 DEF RunSound, InPlan, InCall
  <2> QED BY <1>2, <2>1 DEF Target
<1>7. WroteInPlan(r)'
  BY <1>1, <1>2, <1>4, <1>5, <1>6 DEF WroteInPlan
<1>8. Following(r)'
  <2>1. SUFFICES ASSUME NEW f \in Filer, f \notin history.met, f \in Touched(r)'
                 PROVE  CutBy(r, f)' \/ Follows(r, f)'
    BY <1>2, <1>5 DEF Following
  <2>2. CASE f = Target(r)
    <3>1. txn[r].newest = Shown(f, stored \cup txn[r].inserted)
      BY <1>1, <1>2, <2>1, <2>2 DEF Following
    <3> QED BY <1>2, <1>4, <1>5, <2>2, <3>1 DEF Follows
  <2>3. CASE f # Target(r)
    <3>1. f \in Touched(r)
      BY <1>4, <1>5, <2>1, <2>3 DEF Touched
    <3>2. CutBy(r, f) \/ Follows(r, f)
      BY <1>1, <2>1, <2>3, <3>1 DEF Following, InCallOf
    <3>3. CutBy(r, f) => CutBy(r, f)'
      BY <1>2, <1>5 DEF CutBy
    <3>4. Follows(r, f) => Follows(r, f)'
      BY <1>2, <1>4, <1>5, <2>3 DEF Follows
    <3> QED BY <3>2, <3>3, <3>4
  <2> QED BY <2>2, <2>3
<1>9. \A f : Engaged(r, f)' => Engaged(r, f)
  <2>1. Holds(r, Target(r))
    BY <1>2 DEF Holds, InCall
  <2>2. ASSUME NEW f, f \in Touched(r)', f # Target(r) PROVE f \in Touched(r)
    BY <1>4, <1>5, <2>2 DEF Touched
  <2> QED BY <1>6, <2>1, <2>2 DEF Engaged, Holds
<1>10. Settled'
  BY <1>2, StaysSettled
<1>11. \A f \in Filer : f \notin history'.met /\ Engaged(r, f)' =>
         \A q \in Run : q # r => ~ Engaged(q, f)
  BY <1>2, <1>9, StaysAlone
<1> QED BY <1>2, <1>5, <1>7, <1>8, <1>10, <1>11, RunLatest

(* The end of a call leaves what it did of its filer.                      *)
LEMMA NotifyFollows ==
  ASSUME FilingsInv, LatestInv, NEW r \in Run, Notify(r) PROVE LatestInv'
<1> DEFINE N == NewlyInserted(r)
           t == [txn[r] EXCEPT !.announced = txn[r].announced \cup N]
<1>1. /\ DOMAIN txn[r] = Columns /\ WroteInPlan(r) /\ Following(r)
  BY DEF FilingsInv, RunSound, RowsSound, LatestInv
<1>2. /\ pc[r] = "notify" /\ at' = at /\ stored' = stored /\ latest' = latest /\ history' = history
      /\ Goto(r, "next") /\ Becomes(r, t)
  BY DEF Notify
<1>3. t.inserted = txn[r].inserted /\ t.wrote = txn[r].wrote
  BY <1>1 DEF Columns
<1> HIDE DEF t, N
<1>4. /\ \A q \in Run : q # r => pc'[q] = pc[q] /\ txn'[q] = txn[q] /\ at'[q] = at[q]
      /\ pc'[r] = "next" /\ txn'[r].inserted = txn[r].inserted /\ txn'[r].wrote = txn[r].wrote
  BY <1>2, <1>3, OneRunMoves
<1>5. WroteInPlan(r)'
  BY <1>1, <1>2, <1>4 DEF WroteInPlan
<1>6. \A f : f \in Touched(r)' <=> f \in Touched(r)
  BY <1>4 DEF Touched
<1>7. Following(r)'
  <2>1. SUFFICES ASSUME NEW f \in Filer, f \notin history.met, f \in Touched(r)
                 PROVE  CutBy(r, f)' \/ Follows(r, f)'
    BY <1>2, <1>4, <1>6 DEF Following
  <2>2. CutBy(r, f) \/ Follows(r, f)
    BY <1>1, <1>2, <2>1 DEF Following, InCallOf
  <2> QED BY <1>2, <1>4, <2>2 DEF CutBy, Follows
<1>8. \A f : Engaged(r, f)' => Engaged(r, f)
  BY <1>4, <1>6 DEF Engaged, Holds, InCall
<1>9. Settled'
  BY <1>2, StaysSettled
<1>10. \A f \in Filer : f \notin history'.met /\ Engaged(r, f)' =>
         \A q \in Run : q # r => ~ Engaged(q, f)
  BY <1>2, <1>8, StaysAlone
<1> QED BY <1>2, <1>4, <1>5, <1>7, <1>9, <1>10, RunLatest

(* A transaction that ended holds no filer.                                *)
LEMMA EndedHoldsNothing ==
  ASSUME NEW r \in Run, txn'[r] = NoTxn, pc'[r] \in Ended
  PROVE  /\ WroteInPlan(r)' /\ Following(r)'
         /\ \A f : ~ Engaged(r, f)'
<1>1. txn'[r].inserted = {} /\ DOMAIN txn'[r].wrote = {}
  BY DEF NoTxn
<1>2. \A f : f \notin Touched(r)'
  BY <1>1 DEF Touched
<1> QED BY <1>1, <1>2 DEF WroteInPlan, Following, Engaged, Holds, InCall, Ended

(* A commit makes the row what the run found, and the filings it found the *)
(* stored ones.                                                            *)
LEMMA CommitFollows ==
  ASSUME FilingsInv, LatestInv, NEW r \in Run, Commit(r) PROVE LatestInv'
<1>1. /\ WroteInPlan(r) /\ Following(r) /\ Settled
      /\ txn[r].inserted \cap stored = {}
  BY DEF FilingsInv, RunSound, RowsSound, LatestInv
<1>2. /\ pc[r] = "next" /\ at' = at /\ history' = history
      /\ stored' = stored \cup txn[r].inserted
      /\ latest' = [f \in Filer |-> IF f \in DOMAIN txn[r].wrote THEN txn[r].wrote[f]
                                                                 ELSE latest[f]]
      /\ Goto(r, "done") /\ Becomes(r, NoTxn)
  BY DEF Commit
<1>3. /\ \A q \in Run : q # r => pc'[q] = pc[q] /\ txn'[q] = txn[q] /\ at'[q] = at[q]
      /\ pc'[r] = "done" /\ txn'[r] = NoTxn
  BY <1>2, OneRunMoves
<1>4. WroteInPlan(r)' /\ Following(r)' /\ \A f : ~ Engaged(r, f)'
  BY <1>3, EndedHoldsNothing DEF Ended
<1>5. Settled'
  <2>1. SUFFICES ASSUME NEW f \in Filer, f \notin history.met
                 PROVE  \/ \E g \in history.cut : g \in stored' /\ FilerOf[g] = f
                        \/ latest'[f] = Shown(f, stored')
    BY <1>2 DEF Settled
  <2>2. CASE f \in Touched(r)
    <3>1. CutBy(r, f) \/ Follows(r, f)
      BY <1>1, <1>2, <2>1, <2>2 DEF Following, InCallOf
    <3>2. CutBy(r, f) => \E g \in history.cut : g \in stored' /\ FilerOf[g] = f
      BY <1>2 DEF CutBy
    <3>3. Follows(r, f) => latest'[f] = Shown(f, stored')
      BY <1>2 DEF Follows
    <3> QED BY <3>1, <3>2, <3>3
  <2>3. CASE f \notin Touched(r)
    <3>1. f \notin DOMAIN txn[r].wrote /\ \A g \in txn[r].inserted : FilerOf[g] # f
      BY <2>3 DEF Touched
    <3>2. latest'[f] = latest[f]
      BY <1>2, <3>1
    <3>3. \A g : FilerOf[g] = f => (g \in stored' <=> g \in stored)
      BY <1>2, <3>1
    <3>4. Shown(f, stored') = Shown(f, stored)
      BY <3>3, SameShown
    <3> QED BY <1>1, <1>2, <2>1, <3>2, <3>4 DEF Settled
  <2> QED BY <2>2, <2>3
<1> QED BY <1>2, <1>3, <1>4, <1>5, RunLatest

(* A rollback leaves the stored filings and their rows as they were.       *)
LEMMA AbortFollows ==
  ASSUME FilingsInv, LatestInv, NEW r \in Run, Abort(r) PROVE LatestInv'
<1>1. txn[r].inserted \cap stored = {}
  BY DEF FilingsInv, RunSound, RowsSound
<1>2. /\ at' = at /\ stored' = stored /\ latest' = latest
      /\ history'.met = history.met /\ history'.cut = history.cut \ txn[r].inserted
      /\ Goto(r, "failed") /\ Becomes(r, NoTxn)
  BY DEF Abort, Rollback
<1>3. /\ \A q \in Run : q # r => pc'[q] = pc[q] /\ txn'[q] = txn[q] /\ at'[q] = at[q]
      /\ pc'[r] = "failed" /\ txn'[r] = NoTxn
  BY <1>2, OneRunMoves
<1>4. WroteInPlan(r)' /\ Following(r)' /\ \A f : ~ Engaged(r, f)'
  BY <1>3, EndedHoldsNothing DEF Ended
<1>5. Settled'
  BY <1>1, <1>2, StaysSettled
<1> QED BY <1>2, <1>3, <1>4, <1>5, RunLatest

(* A call that an EDGAR error cuts short has not written the filer's row;  *)
(* what it inserted of the filer is cut short with it.                     *)
LEMMA EdgarErrorFollows ==
  ASSUME FilingsInv, LatestInv, NEW r \in Run, EdgarError(r) PROVE LatestInv'
<1>1. CASE r \notin Scheduled
  BY <1>1, AbortFollows DEF EdgarError
<1>2. CASE r \in Scheduled
  <2>1. /\ pc[r] \in {"list", "insert"} /\ WroteInPlan(r) /\ Following(r)
        /\ Goto(r, "next") /\ at' = at /\ txn' = txn /\ stored' = stored /\ latest' = latest
        /\ history' = [history EXCEPT !.cut = history.cut \cup NewlyInserted(r)]
    BY <1>2 DEF EdgarError, CutShort, LatestInv
  <2>2. /\ history'.met = history.met
        /\ history'.cut = history.cut \cup NewlyInserted(r)
    BY <2>1 DEF FilingsInv, Typed
  <2>3. /\ \A q \in Run : q # r => pc'[q] = pc[q]
        /\ pc'[r] = "next"
    BY <2>1 DEF Goto, FilingsInv, Typed
  <2>4. WroteInPlan(r)'
    BY <2>1, <2>3 DEF WroteInPlan
  <2>5. \A f : f \in Touched(r)' <=> f \in Touched(r)
    BY <2>1 DEF Touched
  <2>6. Following(r)'
    <3>1. SUFFICES ASSUME NEW f \in Filer, f \notin history.met, f \in Touched(r)
                   PROVE  CutBy(r, f)' \/ Follows(r, f)'
      BY <2>2, <2>3, <2>5 DEF Following
    <3>2. CASE f = Target(r)
      <4>1. f \notin DOMAIN txn[r].wrote
        BY <2>1, <3>2 DEF WroteInPlan
      <4>2. \E g \in txn[r].inserted : FilerOf[g] = f
        BY <3>1, <4>1 DEF Touched
      <4> QED BY <2>1, <2>2, <3>2, <4>2 DEF CutBy, NewlyInserted
    <3>3. CASE f # Target(r)
      <4>1. CutBy(r, f) \/ Follows(r, f)
        BY <2>1, <3>1, <3>3 DEF Following, InCallOf
      <4> QED BY <2>1, <2>2, <4>1 DEF CutBy, Follows
    <3> QED BY <3>2, <3>3
  <2>7. \A f : Engaged(r, f)' => Engaged(r, f)
    BY <2>3, <2>5 DEF Engaged, Holds, InCall
  <2>8. Settled'
    BY <2>1, <2>2, StaysSettled
  <2>9. \A f \in Filer : f \notin history'.met /\ Engaged(r, f)' =>
          \A q \in Run : q # r => ~ Engaged(q, f)
    BY <2>2, <2>7, StaysAlone
  <2> QED BY <2>1, <2>2, <2>3, <2>4, <2>6, <2>8, <2>9, RunLatest
<1> QED BY <1>1, <1>2

(* Nothing is engaged by loading the filers.                               *)
LEMMA StartFollows ==
  ASSUME FilingsInv, LatestInv, NEW r \in Run, Start(r) PROVE LatestInv'
<1> DEFINE t == [txn[r] EXCEPT !.loaded = latest]
<1>1. /\ DOMAIN txn[r] = Columns /\ WroteInPlan(r) /\ Following(r)
      /\ pc[r] = "waiting" => txn[r].inserted = {}
  BY DEF FilingsInv, RunSound, RowsSound, InPlan, LatestInv
<1>2. /\ pc[r] = "waiting" /\ at' = at /\ stored' = stored /\ latest' = latest
      /\ history' = history /\ Goto(r, "next") /\ Becomes(r, t)
  BY DEF Start
<1>3. t.inserted = txn[r].inserted /\ t.wrote = txn[r].wrote
  BY <1>1 DEF Columns
<1> HIDE DEF t
<1>4. /\ \A q \in Run : q # r => pc'[q] = pc[q] /\ txn'[q] = txn[q] /\ at'[q] = at[q]
      /\ pc'[r] = "next" /\ txn'[r].inserted = {} /\ DOMAIN txn'[r].wrote = {}
  BY <1>1, <1>2, <1>3, OneRunMoves DEF WroteInPlan
<1>5. \A f : f \notin Touched(r)'
  BY <1>4 DEF Touched
<1>6. WroteInPlan(r)' /\ Following(r)' /\ \A f : ~ Engaged(r, f)'
  BY <1>4, <1>5 DEF WroteInPlan, Following, Engaged, Holds, InCall
<1>7. Settled'
  BY <1>2, StaysSettled
<1> QED BY <1>2, <1>4, <1>6, <1>7, RunLatest

(* A filer taken up is not among those the run has written, for its plan   *)
(* repeats none; if another run holds it, the two have met.                *)
LEMMA TakeFilerFollows ==
  ASSUME FilingsInv, LatestInv, NEW r \in Run, TakeFiler(r) PROVE LatestInv'
<1> DEFINE f1 == Plan[r][at[r] + 1]
<1>1. /\ pc[r] = "next" /\ at[r] < Len(Plan[r]) /\ WroteInPlan(r) /\ Following(r)
      /\ txn' = txn /\ stored' = stored /\ latest' = latest
      /\ at' = [at EXCEPT ![r] = at[r] + 1] /\ DOMAIN at = Run /\ DOMAIN pc = Run
  BY DEF TakeFiler, LatestInv, FilingsInv, Typed
<1>2. at[r] \in Nat /\ Len(Plan[r]) \in Nat
  <2>1. Plan[r] \in Seq(Filer)
    BY FilingsAssumption
  <2>2. Len(Plan[r]) \in Nat
    BY <2>1
  <2>3. at[r] \in 0 .. Len(Plan[r])
    BY DEF FilingsInv, RunSound, InPlan
  <2> QED BY <2>2, <2>3
<1>3. /\ history'.cut = history.cut /\ history.met \subseteq history'.met
  BY DEF TakeFiler, FilingsInv, Typed
<1>4. PICK label \in {"list", "next", "refused"} :
        /\ Goto(r, label)
        /\ label = "list" /\ Meeting(r, f1) => f1 \in history'.met
  <2>1. CASE Fresh(r, f1) \/ LockedHere(r, f1)
    <3>1. Goto(r, IF r \in Scheduled THEN "next" ELSE "refused")
      BY <2>1 DEF TakeFiler
    <3> QED BY <3>1
  <2>2. CASE ~ (Fresh(r, f1) \/ LockedHere(r, f1))
    <3>1. /\ Goto(r, "list")
          /\ Meeting(r, f1) => history' = [history EXCEPT !.met = history.met \cup {f1}]
      BY <2>2 DEF TakeFiler
    <3>2. Meeting(r, f1) => f1 \in history'.met
      BY <3>1 DEF FilingsInv, Typed
    <3> QED BY <3>1, <3>2
  <2> QED BY <2>1, <2>2
<1>5. /\ pc'[r] = label /\ at'[r] = at[r] + 1
      /\ \A q \in Run : q # r => pc'[q] = pc[q] /\ txn'[q] = txn[q] /\ at'[q] = at[q]
  BY <1>1, <1>4 DEF Goto
<1>6. Target(r)' = f1
  BY <1>5 DEF Target
<1>7. f1 \notin DOMAIN txn[r].wrote
  <2>1. ASSUME NEW i \in 1 .. at[r] PROVE f1 # Plan[r][i]
    <3>1. i \in 1 .. Len(Plan[r]) /\ at[r] + 1 \in 1 .. Len(Plan[r]) /\ i # at[r] + 1
      BY <1>1, <1>2
    <3> QED BY <3>1, FilingsAssumption
  <2> QED BY <1>1, <2>1 DEF WroteInPlan
<1>8. WroteInPlan(r)'
  <2>1. 1 .. at[r] \subseteq 1 .. at'[r]
    BY <1>2, <1>5
  <2>2. \A f \in DOMAIN txn'[r].wrote : \E i \in 1 .. at'[r] : f = Plan[r][i]
    BY <1>1, <2>1 DEF WroteInPlan
  <2> QED BY <1>1, <1>5, <1>6, <1>7, <2>2 DEF WroteInPlan
<1>9. \A f : f \in Touched(r)' <=> f \in Touched(r)
  BY <1>1 DEF Touched
<1>10. Following(r)'
  <2>1. SUFFICES ASSUME NEW f \in Filer, f \notin history.met, f \in Touched(r)
                 PROVE  CutBy(r, f)' \/ Follows(r, f)'
    BY <1>3, <1>5, <1>9 DEF Following
  <2>2. CutBy(r, f) \/ Follows(r, f)
    BY <1>1, <2>1 DEF Following, InCallOf
  <2> QED BY <1>1, <1>3, <2>2 DEF CutBy, Follows
<1> HIDE DEF f1
<1>11. ASSUME NEW f \in Filer, f \notin history'.met, Engaged(r, f)',
              NEW q \in Run, q # r
       PROVE  ~ Engaged(q, f)
  <2>1. CASE f \in Touched(r)
    BY <1>3, <1>11, <2>1 DEF LatestInv, Alone, Engaged
  <2>2. CASE f \notin Touched(r)
    <3>1. label = "list" /\ f = f1
      BY <1>5, <1>6, <1>9, <1>11, <2>2 DEF Engaged, Holds, InCall
    <3>2. ~ Meeting(r, f1)
      BY <1>4, <1>11, <3>1
    <3> QED BY <1>11, <3>1, <3>2 DEF Meeting, Engaged
  <2> QED BY <2>1, <2>2
<1>12. Settled'
  BY <1>1, <1>3, StaysSettled
<1>13. \A f \in Filer : f \notin history'.met /\ Engaged(r, f)' =>
         \A q \in Run : q # r => ~ Engaged(q, f)
  BY <1>11
<1> QED BY <1>1, <1>3, <1>5, <1>8, <1>10, <1>12, <1>13, RunLatest

(* Nothing is engaged, stored or shown at the start.                       *)
LEMMA InitLatestInv == InitFilings => LatestInv
<1>1. SUFFICES ASSUME InitFilings PROVE LatestInv
  OBVIOUS
<1>2. /\ \A q \in Run : pc[q] = "waiting" /\ txn[q] = NoTxn
      /\ stored = {} /\ \A f \in Filer : latest[f] = NoPeriod
  BY <1>1 DEF InitFilings
<1>3. \A q \in Run : txn[q].inserted = {} /\ DOMAIN txn[q].wrote = {}
  BY <1>2 DEF NoTxn
<1>4. ASSUME NEW q \in Run PROVE \A f : f \notin Touched(q) /\ ~ Engaged(q, f)
  BY <1>2, <1>3 DEF Touched, Engaged, Holds, InCall
<1>5. Alone
  BY <1>4 DEF Alone
<1>6. \A q \in Run : WroteInPlan(q) /\ Following(q)
  BY <1>2, <1>3, <1>4 DEF WroteInPlan, Following
<1>7. Settled
  <2>1. \A f : PeriodsOf(f, {}) = {}
    BY DEF PeriodsOf
  <2>2. \A f : Shown(f, {}) = NoPeriod
    BY <2>1 DEF Shown
  <2> QED BY <1>2, <2>2 DEF Settled
<1> QED BY <1>5, <1>6, <1>7 DEF LatestInv

(* Every step of FilingsNext keeps what the runs show for their filers.    *)
LEMMA StepFollows == FilingsInv /\ LatestInv /\ [FilingsNext]_filingVars => LatestInv'
<1>1. SUFFICES ASSUME FilingsInv, LatestInv, [FilingsNext]_filingVars PROVE LatestInv'
  OBVIOUS
<1>2. CASE Publish \/ UNCHANGED filingVars
  <2>1. UNCHANGED <<stored, latest, pc, at, txn, history>>
    BY <1>2 DEF Publish, filingVars
  <2>2. \A q \in Run : \A f : Engaged(q, f)' <=> Engaged(q, f)
    BY <2>1 DEF Engaged, Holds, Touched, Target
  <2>3. Alone' /\ Settled'
    BY <1>1, <2>1, <2>2 DEF LatestInv, Alone, Settled
  <2>4. ASSUME NEW q \in Run PROVE WroteInPlan(q)' /\ Following(q)'
    BY <1>1, <2>1 DEF LatestInv, WroteInPlan, Following, Touched, Target,
                      InCallOf, CutBy, Follows
  <2> QED BY <2>3, <2>4 DEF LatestInv
<1>3. ASSUME NEW r \in Run, Step(r) PROVE LatestInv'
  <2>1. CASE TakeFiler(r) \/ ReadLatest(r)
    BY <1>1, <2>1, TakeFilerFollows, ReadLatestFollows
  <2>2. CASE ListFilings(r) \/ Probe(r) \/ Insert(r)
    BY <1>1, <2>2, SearchStepsFollow
  <2>3. CASE UpdateLatest(r) \/ Notify(r)
    BY <1>1, <2>3, UpdateLatestFollows, NotifyFollows
  <2>4. CASE Commit(r)
    BY <1>1, <2>4, CommitFollows
  <2>5. CASE Duplicate(r) \/ BreakDeadlock(r)
    BY <1>1, <2>5, AbortFollows DEF Duplicate, BreakDeadlock
  <2> QED BY <1>3, <2>1, <2>2, <2>3, <2>4, <2>5 DEF Step
<1>4. ASSUME NEW r \in Run, Start(r) \/ EdgarError(r) \/ Crash(r) PROVE LatestInv'
  <2>1. CASE Start(r)
    BY <1>1, <2>1, StartFollows
  <2>2. CASE EdgarError(r)
    BY <1>1, <2>2, EdgarErrorFollows
  <2>3. CASE Crash(r)
    BY <1>1, <2>3, AbortFollows DEF Crash
  <2> QED BY <1>4, <2>1, <2>2, <2>3
<1> QED BY <1>1, <1>2, <1>3, <1>4 DEF FilingsNext

(* A filer no two runs ever met at shows the newest period stored of it at *)
(* every moment, whatever EDGAR published, amended or refused in between   *)
(* and however often runs rolled back, unless one of its stored filings    *)
(* belongs to a call an EDGAR error cut short (_do_refresh, step 5).       *)
THEOREM LatestDateFollows == FilingsSpec => []LatestFollowsFilings
<1>1. LatestInv => LatestFollowsFilings
  BY DEF LatestInv, Settled, Shown, LatestFollowsFilings
<1>2. FilingsInv /\ LatestInv /\ [FilingsNext]_filingVars => FilingsInv' /\ LatestInv'
  BY StepKeeps, StepFollows
<1> QED BY <1>1, <1>2, InitFilingsInv, InitLatestInv, PTL DEF FilingsSpec
================================================================================
