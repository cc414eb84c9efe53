-------------------------------- MODULE Alerts --------------------------------
(***************************************************************************)
(* Alert rules (services/alerts): AlertService and evaluate_for_tier, which *)
(* a scheduler in every server process runs over all users of a tier in ONE *)
(* transaction, beside the requests of the users.                          *)
(*                                                                         *)
(* A rule is ACTIVE, PAUSED or TRIGGERED.  An evaluation lists the ACTIVE  *)
(* rules of a user, awaits the quotes, and for each rule sends the message *)
(* first and then updates the row; a miss updates it too, to move the time *)
(* of the last evaluation, and writes the status again.  The rows stay     *)
(* locked until the run commits.  Users pause, re-arm, delete and evaluate *)
(* rules in transactions of their own.  READ COMMITTED throughout.         *)
(*                                                                         *)
(* Whether a rule's condition holds is up to the market.  An evaluation    *)
(* sees the quotes of the moment at which it listed the rules.  A message  *)
(* counts when the dispatcher is called: a channel that fails changes      *)
(* nothing else.  The quota of create_rule is left out.                    *)
(***************************************************************************)
EXTENDS Sums, FiniteSets

CONSTANTS
  Rule,         \* ids of alert_rules
  User,         \* the active users of the tier
  OwnerOf,      \* the user of each rule
  Existing,     \* the rules that are there, and ACTIVE, at first
  Holding,      \* the rules whose condition holds at first
  Scheduler,    \* server processes, each with the job of the tier
  Client,       \* connections that serve the users' requests
  MaxRequests,  \* bound: requests of users
  MaxFlips,     \* bound: changes of the market
  MaxFailures   \* bound: errors and crashes

ASSUME AlertsAssumption ==
  /\ Rule \subseteq Nat
  /\ OwnerOf \in [Rule -> User] /\ Existing \subseteq Rule /\ Holding \subseteq Rule
  /\ Scheduler \cap Client = {}
  /\ MaxRequests \in Nat /\ MaxFlips \in Nat /\ MaxFailures \in Nat

VARIABLES
  ruleStatus, \* committed status of each rule; "new" before, "gone" after
  holds,      \* whether the condition of each rule holds
  due,        \* the processes whose job has yet to start this hour
  pc,         \* what each connection does next
  txn,        \* what its transaction has read and written
  counts,     \* requests, flips and failures so far
  intent,     \* history: what its user last made of each rule
  told,       \* history: the rules a message was sent for since then
  crossed,    \* history: the rules a user changed during an evaluation
  met,        \* history: the rules two evaluations had at the same time
  credit      \* history: messages each rule was armed for and did not send

historyVars == <<intent, told, crossed, met, credit>>
alertVars == <<ruleStatus, holds, due, pc, txn, counts, historyVars>>

Connection == Scheduler \cup Client

Kept == {"ACTIVE", "PAUSED", "TRIGGERED"}

(* The users still to process; the rules in hand, those whose condition    *)
(* held, and the status each is given on a miss; the status to write to    *)
(* the next rule, if it is evaluated; what was written and sent.           *)
Txn(users, rules, hits, seen, wrote, sent) ==
  [users |-> users, rules |-> rules, hits |-> hits, seen |-> seen,
   wrote |-> wrote, sent |-> sent]

NoTxn == Txn({}, {}, {}, <<>>, <<>>, {})

InitAlerts ==
  /\ ruleStatus = [r \in Rule |-> IF r \in Existing THEN "ACTIVE" ELSE "new"]
  /\ holds = [r \in Rule |-> r \in Holding]
  /\ due = Scheduler
  /\ pc = [c \in Connection |-> "idle"]
  /\ txn = [c \in Connection |-> NoTxn]
  /\ counts = [requests |-> 0, flips |-> 0, failures |-> 0]
  /\ intent = ruleStatus
  /\ told = {} /\ crossed = {} /\ met = {}
  /\ credit = [r \in Rule |-> IF r \in Existing THEN 1 ELSE 0]

Goto(c, label) == pc' = [pc EXCEPT ![c] = label]

NextRule(c) == CHOOSE r \in txn[c].rules : \A q \in txn[c].rules : r <= q

(* The transaction of c becomes t. *)
Becomes(c, t) == txn' = [txn EXCEPT ![c] = t]

(* The row locks of a run last until it ends. *)
RowLocked(c, r) == \E d \in Connection \ {c} : r \in DOMAIN txn[d].wrote

(* History: r is in hand when an evaluation has listed it and has not yet  *)
(* written it.                                                             *)
InHand(r) == \E c \in Connection : r \in txn[c].rules
Evaluating(c, r) == r \in txn[c].rules \cup DOMAIN txn[c].wrote

--------------------------------------------------------------------------------
(* An evaluation, scheduled or on request. *)

(* History: rules that two evaluations have at the same time. *)
MeetingOver(c, rules) ==
  {r \in rules : \E d \in Connection \ {c} : Evaluating(d, r)}

(* Mutation: the rules of the tier are listed whatever their status. *)
ListActive_All(u) == {r \in Rule : OwnerOf[r] = u /\ ruleStatus[r] \in Kept}

(* list_active_by_user *)
ListActive(u) == {r \in Rule : OwnerOf[r] = u /\ ruleStatus[r] = "ACTIVE"}

(* The transaction of c after it listed rules, and users are left to do. *)
Listed(c, users, rules, seen) ==
  Txn(users, rules, {r \in rules : holds[r]}, seen, txn[c].wrote, txn[c].sent)

NoteMeeting(c, rules) ==
  /\ met' = met \cup MeetingOver(c, rules)
  /\ UNCHANGED <<intent, told, crossed>>

(* Mutation: one user of the tier is left out. *)
TierUsers_AllButOne == User \ {CHOOSE u \in User : TRUE}

(* The users evaluate_for_tier selects. *)
TierUsers == User

(* The cron trigger fires at the same minute in every process; a run takes *)
(* less than an hour.                                                      *)
Tick ==
  /\ due = {} /\ \A s \in Scheduler : pc[s] = "idle"
  /\ due' = Scheduler
  /\ UNCHANGED <<ruleStatus, holds, pc, txn, counts, historyVars>>

(* The job selects the users of the tier, and evaluate_user_rules takes    *)
(* one after the other, in no particular order.                            *)
ListRules(s) ==
  LET users == IF pc[s] = "idle" THEN TierUsers ELSE txn[s].users
  IN  /\ pc[s] = "user" \/ (pc[s] = "idle" /\ s \in due)
      /\ due' = due \ {s}
      /\ \E u \in users :
           LET rules == ListActive(u)
           IN  /\ Becomes(s, Listed(s, users \ {u}, rules, [r \in rules |-> "ACTIVE"]))
               /\ Goto(s, IF rules = {} THEN "user" ELSE "rule")
               /\ NoteMeeting(s, rules)
      /\ UNCHANGED <<ruleStatus, holds, counts, credit>>

(* The rule triggered: its message goes out. *)
Dispatch(c) ==
  /\ pc[c] = "rule"
  /\ LET r == NextRule(c)
     IN  /\ r \in txn[c].hits
         /\ Becomes(c, [txn[c] EXCEPT !.sent = @ \cup {r}])
         /\ told' = told \cup {r}
         /\ credit' = [credit EXCEPT ![r] = @ - 1]
  /\ Goto(c, "mark")
  /\ UNCHANGED <<ruleStatus, holds, due, counts, intent, crossed, met>>

(* What evaluate_rule found is to be written: a hit was told before. *)
ToMark(c) == pc[c] = "mark" \/ (pc[c] = "rule" /\ NextRule(c) \notin txn[c].hits)

(* Mutation: the rule goes on watching after it fired. *)
Verdict_StaysArmed(c, r) == txn[c].seen[r]

(* "Pause after firing so the user isn't spammed"; a miss writes back what *)
(* the evaluation read.                                                    *)
Verdict(c, r) == IF r \in txn[c].hits THEN "TRIGGERED" ELSE txn[c].seen[r]

(* update_status in a scheduled run: the row of a deleted rule is not      *)
(* there to be updated.                                                    *)
MarkRule(s) ==
  LET r == NextRule(s)
      rest == txn[s].rules \ {r}
  IN  /\ s \in Scheduler /\ ToMark(s)
      /\ ~ RowLocked(s, r)
      /\ Becomes(s, Txn(txn[s].users, rest, txn[s].hits, txn[s].seen,
                        IF ruleStatus[r] = "gone" THEN txn[s].wrote
                        ELSE Put(txn[s].wrote, r, Verdict(s, r)), txn[s].sent))
      /\ Goto(s, IF rest = {} THEN "user" ELSE "rule")
      /\ UNCHANGED <<ruleStatus, holds, due, counts, historyVars>>

(* All users are done: COMMIT. *)
CommitRun(s) ==
  /\ pc[s] = "user" /\ txn[s].users = {}
  /\ ruleStatus' = [r \in Rule |-> IF r \in DOMAIN txn[s].wrote THEN txn[s].wrote[r]
                                                           ELSE ruleStatus[r]]
  /\ Goto(s, "idle")
  /\ Becomes(s, NoTxn)
  /\ UNCHANGED <<holds, due, counts, historyVars>>

(* What was sent cannot be taken back: those rules may be told again. *)
Abort(c) ==
  /\ Goto(c, "idle")
  /\ Becomes(c, NoTxn)
  /\ credit' = [r \in Rule |-> credit[r] + IF r \in txn[c].sent THEN 1 ELSE 0]
  /\ UNCHANGED <<ruleStatus, holds, due, intent, told, crossed, met>>

WaitsFor(c, d) ==
  /\ c # d
  /\ ToMark(c) /\ NextRule(c) \in DOMAIN txn[d].wrote

(* Runs that met the users in different orders; PostgreSQL cancels one.    *)
(* Its later statements fail, and its COMMIT rolls back.                   *)
Deadlocked(s) == \E d \in Scheduler : WaitsFor(s, d) /\ WaitsFor(d, s)

BreakDeadlock(s) ==
  /\ Deadlocked(s)
  /\ Abort(s)
  /\ UNCHANGED counts

--------------------------------------------------------------------------------
(* Failures. *)

Failing ==
  /\ counts.failures < MaxFailures
  /\ counts' = [counts EXCEPT !.failures = @ + 1]

(* The quotes or a message raise: "one user's bad rule cannot abort the    *)
(* whole tier run", which goes on with the next user.                      *)
UserFails(s) ==
  /\ s \in Scheduler /\ pc[s] = "rule"
  /\ Failing
  /\ Goto(s, "user")
  /\ Becomes(s, [txn[s] EXCEPT !.rules = {}])
  /\ UNCHANGED <<ruleStatus, holds, due, historyVars>>

(* The process or its connection is lost. *)
Crash(c) ==
  /\ pc[c] # "idle"
  /\ Failing
  /\ Abort(c)

--------------------------------------------------------------------------------
(* The users. *)

Asking(c) ==
  /\ pc[c] = "idle"
  /\ counts.requests < MaxRequests
  /\ counts' = [counts EXCEPT !.requests = @ + 1]

(* History: a user's word is committed, with an evaluation under way or    *)
(* not; ACTIVE asks for one message more.                                  *)
UserSays(r, s) ==
  /\ intent' = [intent EXCEPT ![r] = s]
  /\ told' = told \ {r}
  /\ crossed' = crossed \cup (IF InHand(r) THEN {r} ELSE {})
  /\ credit' = [credit EXCEPT ![r] = @ + IF s = "ACTIVE" THEN 1 ELSE 0]
  /\ UNCHANGED met

(* create_rule *)
Create(c, r) ==
  /\ Asking(c)
  /\ ruleStatus[r] = "new"
  /\ ruleStatus' = [ruleStatus EXCEPT ![r] = "ACTIVE"]
  /\ UserSays(r, "ACTIVE")
  /\ UNCHANGED <<holds, due, pc, txn>>

(* update_rule reads the row; nothing is written when it already is so. *)
BeginEdit(c, r, s) ==
  /\ Asking(c)
  /\ ruleStatus[r] \in Kept
  /\ IF ruleStatus[r] = s
     THEN UNCHANGED <<pc, txn>>
     ELSE /\ Goto(c, "edit")
          /\ Becomes(c, Txn({}, {}, {}, Put(<<>>, r, s), <<>>, {}))
  /\ UNCHANGED <<ruleStatus, holds, due, historyVars>>

(* The UPDATE, once the row is free, and COMMIT; an error if it is gone. *)
Edit(c) ==
  /\ pc[c] = "edit"
  /\ \E r \in DOMAIN txn[c].seen :
       /\ ~ RowLocked(c, r)
       /\ IF ruleStatus[r] = "gone" THEN UNCHANGED <<ruleStatus, historyVars>>
          ELSE /\ ruleStatus' = [ruleStatus EXCEPT ![r] = txn[c].seen[r]]
               /\ UserSays(r, txn[c].seen[r])
  /\ Goto(c, "idle")
  /\ Becomes(c, NoTxn)
  /\ UNCHANGED <<holds, due, counts>>

(* delete_rule *)
Delete(c, r) ==
  /\ Asking(c)
  /\ ruleStatus[r] \in Kept
  /\ ~ RowLocked(c, r)
  /\ ruleStatus' = [ruleStatus EXCEPT ![r] = "gone"]
  /\ UserSays(r, "gone")
  /\ UNCHANGED <<holds, due, pc, txn>>

(* evaluate_one, "evaluate now", on a rule of any status: the user asks    *)
(* for a message.                                                          *)
BeginEvaluateOne(c, r) ==
  /\ Asking(c)
  /\ ruleStatus[r] \in Kept
  /\ Becomes(c, Listed(c, {}, {r}, [q \in {r} |-> ruleStatus[r]]))
  /\ Goto(c, "rule")
  /\ NoteMeeting(c, {r})
  /\ credit' = [credit EXCEPT ![r] = @ + 1]
  /\ UNCHANGED <<ruleStatus, holds, due>>

(* update_status and COMMIT. *)
EndEvaluateOne(c) ==
  LET r == NextRule(c)
  IN  /\ c \in Client /\ ToMark(c)
      /\ ~ RowLocked(c, r)
      /\ ruleStatus' = [ruleStatus EXCEPT ![r] = IF @ = "gone" THEN @ ELSE Verdict(c, r)]
      /\ Goto(c, "idle")
      /\ Becomes(c, NoTxn)
      /\ UNCHANGED <<holds, due, counts, historyVars>>

(* The market moves. *)
Flip(r) ==
  /\ counts.flips < MaxFlips
  /\ counts' = [counts EXCEPT !.flips = @ + 1]
  /\ holds' = [holds EXCEPT ![r] = ~ @]
  /\ UNCHANGED <<ruleStatus, due, pc, txn, historyVars>>

RunStep(s) == ListRules(s) \/ Dispatch(s) \/ MarkRule(s) \/ CommitRun(s) \/ BreakDeadlock(s)

Request(c) ==
  \E r \in Rule :
    \/ Create(c, r) \/ Delete(c, r) \/ BeginEvaluateOne(c, r)
    \/ \E s \in Kept : BeginEdit(c, r, s)

RequestStep(c) == Edit(c) \/ Dispatch(c) \/ EndEvaluateOne(c)

AlertsNext ==
  \/ Tick
  \/ \E s \in Scheduler : RunStep(s) \/ UserFails(s)
  \/ \E c \in Client : Request(c) \/ RequestStep(c)
  \/ \E c \in Connection : Crash(c)
  \/ \E r \in Rule : Flip(r)

(* Every hour comes, and a run or a request that can go on does.  Users    *)
(* and the market promise nothing.                                         *)
AlertsSpec ==
  /\ InitAlerts /\ [][AlertsNext]_alertVars
  /\ WF_alertVars(Tick)
  /\ \A s \in Scheduler : WF_alertVars(RunStep(s))
  /\ \A c \in Client : WF_alertVars(RequestStep(c))

--------------------------------------------------------------------------------
(* Properties. *)

(* A rule is what its user last made of it, or TRIGGERED with a message    *)
(* sent since: runs of several processes, rollbacks after the message and  *)
(* rules deleted under an evaluation change nothing.  Only a user's change *)
(* that fell into an evaluation of that rule may be lost.                  *)
UsersWordStands ==
  \A r \in Rule \ crossed :
    \/ ruleStatus[r] = intent[r]
    \/ ruleStatus[r] = "TRIGGERED" /\ r \in told

(* "Pause after firing so the user isn't spammed": a rule sends one        *)
(* message each time it is armed or evaluated on request, and one more for *)
(* each message of a run that rolled back, unless two evaluations of it    *)
(* met (every server process runs the scheduler).                          *)
OneMessagePerArming ==
  \A r \in Rule \ met : credit[r] >= 0

(* An armed rule whose condition lasts is answered: the tier is run again  *)
(* and again, and neither a failing user, a crash, a rollback nor a        *)
(* deadlock of two runs keeps it from firing forever.                      *)
ArmedRuleFires ==
  \A r \in Rule :
    ruleStatus[r] = "ACTIVE" /\ holds[r] ~> ruleStatus[r] # "ACTIVE" \/ ~ holds[r]

(* A rule that is ACTIVE is one its user wants active: a miss means to     *)
(* "keep current state" (alert_service.py, evaluate_user_rules).           *)
MissKeepsState ==
  \A r \in Rule : ruleStatus[r] = "ACTIVE" => intent[r] = "ACTIVE"
================================================================================
