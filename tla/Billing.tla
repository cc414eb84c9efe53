-------------------------------- MODULE Billing --------------------------------
(***************************************************************************)
(* Subscriptions and tiers: the Stripe webhook and the cancel request      *)
(* (api/v1/billing.py), with Stripe as their environment.                  *)
(*                                                                         *)
(* Stripe delivers every event at least once and in any order: again until *)
(* it is answered 200, also while an earlier delivery is still at work.    *)
(* Each delivery is one transaction, statement by statement, on PostgreSQL *)
(* at READ COMMITTED.  An INSERT of an event id waits while another        *)
(* transaction has inserted it and not ended.  The flush updates only the  *)
(* columns of the user that differ from the row the session loaded, and    *)
(* waits while another transaction has written that row.                   *)
(*                                                                         *)
(* The signature is taken to be right, every checkout to name a user and a *)
(* known tier; customer ids, metrics and log lines are left out.  Other    *)
(* events, invoice.payment_failed among them, leave nothing but their id.  *)
(***************************************************************************)
EXTENDS Naturals, FiniteSets, Sequences

CONSTANTS
  User, Sub,    \* users and Stripe subscriptions
  Owner,        \* who buys a subscription
  TierOf,       \* the tier it is for
  Delivery,     \* webhook requests that may be in progress at once
  None,         \* NULL, and what is absent
  MaxFailures   \* bound: requests that die or whose answer is lost

Kind == {"completed", "deleted"}
Event == Kind \X Sub

ASSUME BillingAssumption ==
  /\ Owner \in [Sub -> User] /\ TierOf \in [Sub -> {"BASIC", "PRO"}]
  /\ None \notin Sub \cup User /\ Sub \cap Event = {} /\ MaxFailures \in Nat

VARIABLES
  sent,        \* user -> the events Stripe has for its subscriptions, in order
  cancelling,  \* subscriptions that end with their period
  acked,       \* events Stripe was answered 200 for
  processed,   \* rows of processed_webhook_events
  users,       \* user -> its row
  audit,       \* event or subscription -> its rows in audit_logs
  pc,          \* what each delivery does next
  event,       \* the event it delivers
  loaded,      \* the user row its session holds: whose, and as it was read
  failures,    \* how many requests have died
  orderly      \* history, user -> its events came one by one and in order

stripeVars == <<sent, cancelling>>
tables == <<processed, users, audit>>
vars == <<sent, cancelling, acked, processed, users, audit, pc, event, loaded, failures, orderly>>

UserRow == [tier : {"FREE", "BASIC", "PRO"}, sub : Sub \cup {None}]

FreeRow == [tier |-> "FREE", sub |-> None]
NoUser == [who |-> None, row |-> FreeRow]

Init ==
  /\ sent = [u \in User |-> <<>>]
  /\ cancelling = {} /\ acked = {} /\ processed = {}
  /\ users = [u \in User |-> FreeRow]
  /\ audit = [x \in Event \cup Sub |-> 0]
  /\ pc = [d \in Delivery |-> "idle"]
  /\ event = [d \in Delivery |-> None]
  /\ loaded = [d \in Delivery |-> NoUser]
  /\ failures = 0
  /\ orderly = [u \in User |-> TRUE]

--------------------------------------------------------------------------------
(* Stripe. *)

SentTo(u) == {sent[u][i] : i \in DOMAIN sent[u]}
Sent == UNION {SentTo(u) : u \in User}
Active(s) == <<"completed", s>> \in Sent /\ <<"deleted", s>> \notin Sent

Emit(kind, s) == sent' = [sent EXCEPT ![Owner[s]] = Append(@, <<kind, s>>)]

(* A checkout is paid for.  create_checkout does not ask whether the user  *)
(* has a subscription already.                                             *)
Subscribe(s) ==
  /\ <<"completed", s>> \notin Sent
  /\ Emit("completed", s)
  /\ orderly' = [orderly EXCEPT ![Owner[s]] =
                   @ /\ \A t \in Sub : Owner[t] = Owner[s] => ~ Active(t)]
  /\ UNCHANGED <<cancelling, acked, tables, pc, event, loaded, failures>>

(* The period of a cancelled subscription is over, or Stripe gives up.     *)
EndSubscription(s) ==
  /\ Active(s)
  /\ Emit("deleted", s)
  /\ UNCHANGED <<cancelling, acked, tables, pc, event, loaded, failures, orderly>>

--------------------------------------------------------------------------------
(* stripe_webhook. *)

Subject(e) == Owner[e[2]]

Goto(d, label) == pc' = [pc EXCEPT ![d] = label]

(* Its transaction has inserted the event id. *)
Inserted(d) == pc[d] \in {"find", "flush", "commit"}

Receive(d) ==
  /\ pc[d] = "idle"
  /\ \E e \in Sent \ acked : event' = [event EXCEPT ![d] = e]
  /\ Goto(d, "insert")
  /\ UNCHANGED <<stripeVars, acked, tables, loaded, failures, orderly>>

(* The earlier events of the user are processed. *)
InTurn(e) ==
  \A i, j \in DOMAIN sent[Subject(e)] :
    (i < j /\ sent[Subject(e)][j] = e) => sent[Subject(e)][i] \in processed

(* Mutation: a SELECT looks for the event before an INSERT records it. *)
InsertEvent_NoWait(d) ==
  /\ pc[d] = "insert"
  /\ IF event[d] \in processed
     THEN Goto(d, "answer") /\ UNCHANGED orderly
     ELSE /\ Goto(d, "find")
          /\ orderly' = [orderly EXCEPT ![Subject(event[d])] = @ /\ InTurn(event[d])]
  /\ UNCHANGED <<stripeVars, acked, tables, event, loaded, failures>>

(* INSERT ... ON CONFLICT DO NOTHING RETURNING; no row means a duplicate,  *)
(* which is answered like the first: its commit has nothing to write.      *)
InsertEvent(d) ==
  /\ pc[d] = "insert"
  /\ \A c \in Delivery : Inserted(c) => event[c] # event[d]
  /\ IF event[d] \in processed
     THEN Goto(d, "answer") /\ UNCHANGED orderly
     ELSE /\ Goto(d, "find")
          /\ orderly' = [orderly EXCEPT ![Subject(event[d])] = @ /\ InTurn(event[d])]
  /\ UNCHANGED <<stripeVars, acked, tables, event, loaded, failures>>

(* The users the SELECT finds: by id for a checkout, by their present      *)
(* subscription for its end.                                               *)
Matching(e) ==
  IF e[1] = "completed" THEN {Subject(e)} ELSE {u \in User : users[u].sub = e[2]}

FindUser(d) ==
  /\ pc[d] = "find"
  /\ \/ /\ Matching(event[d]) = {}
        /\ Goto(d, "commit")
        /\ UNCHANGED loaded
     \/ \E u \in Matching(event[d]) :
          /\ loaded' = [loaded EXCEPT ![d] = [who |-> u, row |-> users[u]]]
          /\ Goto(d, "flush")
  /\ UNCHANGED <<stripeVars, acked, tables, event, failures, orderly>>

(* Mutation: the end of a subscription leaves its id with the user. *)
Wanted_KeepsId(e) ==
  IF e[1] = "completed" THEN [tier |-> TierOf[e[2]], sub |-> e[2]]
  ELSE [tier |-> "FREE", sub |-> e[2]]

(* What the handler assigns to the user. *)
Wanted(e) ==
  IF e[1] = "completed" THEN [tier |-> TierOf[e[2]], sub |-> e[2]] ELSE FreeRow

Writes(d, u) ==
  /\ pc[d] = "commit" /\ loaded[d].who = u
  /\ Wanted(event[d]) # loaded[d].row

(* log_audit_event flushes: INSERT of the audit row, UPDATE of the user.   *)
Flush(d) ==
  /\ pc[d] = "flush"
  /\ Wanted(event[d]) # loaded[d].row =>
       \A c \in Delivery : ~ Writes(c, loaded[d].who)
  /\ Goto(d, "commit")
  /\ UNCHANGED <<stripeVars, acked, tables, event, loaded, failures, orderly>>

Changed(new, old, now) == IF new = old THEN now ELSE new

(* The row after an UPDATE of the columns that differ from those loaded.   *)
Updated(now, old, new) ==
  [tier |-> Changed(new.tier, old.tier, now.tier),
   sub  |-> Changed(new.sub, old.sub, now.sub)]

Audited(rows, x) == [rows EXCEPT ![x] = @ + 1]

(* Mutation: the side effects are committed before the event id is. *)
Commit_EffectOnly(d) ==
  /\ pc[d] = "commit"
  /\ IF loaded[d].who = None \/ event[d] \in processed
     THEN UNCHANGED <<users, audit>> /\ processed' = processed \cup {event[d]}
     ELSE /\ users' = [users EXCEPT ![loaded[d].who] =
                         Updated(@, loaded[d].row, Wanted(event[d]))]
          /\ audit' = Audited(audit, event[d])
          /\ UNCHANGED processed
  /\ loaded' = [loaded EXCEPT ![d] = NoUser]
  /\ Goto(d, "answer")
  /\ UNCHANGED <<stripeVars, acked, event, failures, orderly>>

(* Everything at once: the event id, the user and the audit row. *)
Commit(d) ==
  /\ pc[d] = "commit"
  /\ processed' = processed \cup {event[d]}
  /\ IF loaded[d].who = None
     THEN UNCHANGED <<users, audit>>
     ELSE /\ users' = [users EXCEPT ![loaded[d].who] =
                         Updated(@, loaded[d].row, Wanted(event[d]))]
          /\ audit' = Audited(audit, event[d])
  /\ loaded' = [loaded EXCEPT ![d] = NoUser]
  /\ Goto(d, "answer")
  /\ UNCHANGED <<stripeVars, acked, event, failures, orderly>>

Answer(d) ==
  /\ pc[d] = "answer"
  /\ acked' = acked \cup {event[d]}
  /\ event' = [event EXCEPT ![d] = None]
  /\ Goto(d, "idle")
  /\ UNCHANGED <<stripeVars, tables, loaded, failures, orderly>>

(* The process or its connection dies, which rolls back what it has not    *)
(* committed; after the commit, only the answer is lost.                   *)
Die(d) ==
  /\ pc[d] # "idle" /\ failures < MaxFailures
  /\ failures' = failures + 1
  /\ event' = [event EXCEPT ![d] = None]
  /\ loaded' = [loaded EXCEPT ![d] = NoUser]
  /\ Goto(d, "idle")
  /\ UNCHANGED <<stripeVars, acked, tables, orderly>>

--------------------------------------------------------------------------------
(* cancel_subscription: Stripe is told first, and refuses an ended         *)
(* subscription; the audit row is missing if the request dies then.  Asking *)
(* again for the same subscription would only add an audit row.            *)
Cancel(u) ==
  \E s \in Sub \ cancelling :
    /\ users[u].sub = s
    /\ Active(s)
    /\ cancelling' = cancelling \cup {s}
    /\ \/ audit' = Audited(audit, s) /\ UNCHANGED failures
       \/ failures < MaxFailures /\ failures' = failures + 1 /\ UNCHANGED audit
    /\ UNCHANGED <<sent, acked, processed, users, pc, event, loaded, orderly>>

--------------------------------------------------------------------------------

Statement(d) ==
  \/ InsertEvent(d) \/ FindUser(d) \/ Flush(d) \/ Commit(d) \/ Answer(d)

Next ==
  \/ \E s \in Sub : Subscribe(s) \/ EndSubscription(s)
  \/ \E d \in Delivery : Receive(d) \/ Statement(d) \/ Die(d)
  \/ \E u \in User : Cancel(u)

Spec == Init /\ [][Next]_vars

(* Stripe repeats what it has no answer to and ends what is cancelled; a   *)
(* delivery that does not die goes on.                                     *)
FairSpec ==
  /\ Spec
  /\ \A s \in Sub : WF_vars(s \in cancelling /\ EndSubscription(s))
  /\ \A e \in Event : WF_vars(\E d \in Delivery : Receive(d) /\ event'[d] = e)
  /\ \A d \in Delivery : WF_vars(Statement(d))

--------------------------------------------------------------------------------
(* Properties. *)

(* Duplicates, overlapping deliveries, crashes and lost answers            *)
(* notwithstanding, an event takes effect once, and its row in             *)
(* processed_webhook_events is there exactly when its effect is            *)
(* (billing.py: "we've already processed this event and must skip").       *)
EachEventOnce ==
  \A e \in Event :
    /\ audit[e] <= 1
    /\ audit[e] = 1 => e \in processed
    /\ e \in processed /\ e[1] = "completed" => audit[e] = 1

Handled(u) == {i \in DOMAIN sent[u] : sent[u][i] \in processed}

(* A user who has one subscription at a time and whose events came one by  *)
(* one, in order, has exactly what the last of them says: duplicates and   *)
(* crashes add nothing to it, and the users do not touch one another.      *)
OrderlyEventsSetTier ==
  \A u \in User :
    orderly[u] /\ Handled(u) # {} =>
      LET last == sent[u][CHOOSE i \in Handled(u) : \A j \in Handled(u) : j <= i]
      IN  users[u] = IF last[1] = "deleted" THEN FreeRow
                     ELSE [tier |-> TierOf[last[2]], sub |-> last[2]]

(* Once a user has cancelled, their row lets go of the subscription for    *)
(* good, in whatever order and however often Stripe's events arrive        *)
(* (cancel_subscription: "until Stripe fires customer.subscription.deleted"). *)
CancelledForGood ==
  \A s \in Sub : s \in cancelling ~> [](users[Owner[s]].sub # s)

(* "The user keeps tier access until Stripe fires                          *)
(* customer.subscription.deleted" (billing.py): when every event is        *)
(* answered, whoever pays for a subscription has a paid tier.              *)
PayersKeepTier ==
  Sent \subseteq acked =>
    \A s \in Sub : Active(s) => users[Owner[s]].tier # "FREE"

(* When every event is answered, a paid tier is paid for. *)
PaidTierIsPaidFor ==
  Sent \subseteq acked =>
    \A u \in User : users[u].tier # "FREE" => \E s \in Sub : Owner[s] = u /\ Active(s)
================================================================================
