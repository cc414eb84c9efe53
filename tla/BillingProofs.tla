----------------------------- MODULE BillingProofs -----------------------------
(***************************************************************************)
(* The Stripe webhook, for any number of users, subscriptions, deliveries  *)
(* and failures: every event takes effect once, and a subscription that a  *)
(* user has been rid of never comes back.  While a user's events come one  *)
(* by one and in order, OrderInv keeps what was handled a prefix of what   *)
(* was sent, with at most the next event at work, on the row as it is.     *)
(***************************************************************************)
EXTENDS Billing, TLAPS

(* The types the proofs need. *)
TablesTyped ==
  /\ sent \in [User -> Seq(Event)]
  /\ processed \subseteq Event
  /\ users \in [User -> UserRow]
  /\ audit \in [Event \cup Sub -> Nat]
  /\ pc \in [Delivery -> {"idle", "insert", "find", "flush", "commit", "answer"}]
  /\ event \in [Delivery -> Event \cup {None}]
  /\ loaded \in [Delivery -> [who : User \cup {None}, row : UserRow]]

(* Whoever does anything has an event to do it for. *)
BusyHasEvent == \A d \in Delivery : pc[d] # "idle" => event[d] \in Event

(* The unique key of processed_webhook_events, uncommitted rows included.  *)
InsertedOnce ==
  /\ \A d \in Delivery : Inserted(d) => event[d] \notin processed
  /\ \A c, d \in Delivery : Inserted(c) /\ Inserted(d) /\ event[c] = event[d] => c = d

(* A completed checkout has found its user by the time it is flushed. *)
BuyerFound ==
  \A d \in Delivery :
    pc[d] \in {"flush", "commit"} /\ event[d][1] = "completed" =>
      loaded[d].who = Subject(event[d])

BillingInv == TablesTyped /\ BusyHasEvent /\ InsertedOnce /\ BuyerFound /\ EachEventOnce

(* What an event is made of.                                               *)
LEMMA EventParts ==
  ASSUME NEW e \in Event
  PROVE  e[1] \in Kind /\ e[2] \in Sub /\ Subject(e) \in User /\ Wanted(e) \in UserRow
  <1>1. e[1] \in Kind /\ e[2] \in Sub
    BY DEF Event
  <1> QED
    BY <1>1, BillingAssumption DEF Subject, Wanted, UserRow, FreeRow

(* No event is there at the start.                                         *)
LEMMA InitBilling == Init => BillingInv
  <1> SUFFICES ASSUME Init PROVE BillingInv
    OBVIOUS
  <1>1. FreeRow \in UserRow /\ NoUser \in [who : User \cup {None}, row : UserRow]
    BY DEF FreeRow, NoUser, UserRow
  <1>2. TablesTyped
    BY <1>1 DEF Init, TablesTyped
  <1>3. BusyHasEvent /\ InsertedOnce /\ BuyerFound
    BY DEF Init, BusyHasEvent, InsertedOnce, BuyerFound, Inserted
  <1>4. EachEventOnce
    BY DEF Init, EachEventOnce
  <1> QED
    BY <1>2, <1>3, <1>4 DEF BillingInv

(* What Stripe does touches nothing but the events it has. *)
LEMMA StripeKeeps ==
  ASSUME BillingInv, NEW s \in Sub, NEW kind \in Kind, Emit(kind, s),
         UNCHANGED <<tables, pc, event, loaded>>
  PROVE  BillingInv'
  <1>1. Owner[s] \in User /\ <<kind, s>> \in Event
    BY BillingAssumption DEF Event
  <1>2. sent' \in [User -> Seq(Event)]
    BY <1>1 DEF BillingInv, TablesTyped, Emit
  <1>3. TablesTyped'
    BY <1>2 DEF BillingInv, TablesTyped, tables
  <1>4. BusyHasEvent' /\ InsertedOnce' /\ BuyerFound' /\ EachEventOnce'
    BY DEF BillingInv, BusyHasEvent, InsertedOnce, BuyerFound, EachEventOnce, Inserted, tables
  <1> QED
    BY <1>3, <1>4 DEF BillingInv

(* A delivery takes up one of the events sent.                             *)
LEMMA ReceiveKeeps ==
  ASSUME BillingInv, NEW d \in Delivery, Receive(d)
  PROVE  BillingInv'
  <1>1. PICK e \in Sent : event' = [event EXCEPT ![d] = e]
    BY DEF Receive
  <1>2. e \in Event
    <2>1. PICK u \in User : e \in SentTo(u)
      BY DEF Sent
    <2>2. PICK i \in DOMAIN sent[u] : e = sent[u][i]
      BY <2>1 DEF SentTo
    <2>3. sent[u] \in Seq(Event)
      BY DEF BillingInv, TablesTyped
    <2> QED
      BY <2>2, <2>3
  <1>3. TablesTyped'
    BY <1>1, <1>2 DEF BillingInv, TablesTyped, Receive, Goto, tables, stripeVars
  <1>4. BusyHasEvent'
    BY <1>1, <1>2 DEF BillingInv, TablesTyped, BusyHasEvent, Receive, Goto
  <1>5. InsertedOnce' /\ BuyerFound'
    BY <1>1 DEF BillingInv, TablesTyped, InsertedOnce, BuyerFound, Inserted, Receive, Goto, tables
  <1>6. EachEventOnce'
    BY DEF BillingInv, EachEventOnce, Receive, tables
  <1> QED
    BY <1>3, <1>4, <1>5, <1>6 DEF BillingInv

(* An event id goes in only when nobody else has it.                       *)
LEMMA InsertEventKeeps ==
  ASSUME BillingInv, NEW d \in Delivery, InsertEvent(d)
  PROVE  BillingInv'
  <1>1. TablesTyped' /\ BusyHasEvent' /\ EachEventOnce'
    BY DEF BillingInv, TablesTyped, BusyHasEvent, EachEventOnce, InsertEvent, Goto, tables, stripeVars
  <1>2. InsertedOnce'
    BY ZenonT(40) DEF BillingInv, TablesTyped, InsertedOnce, Inserted, InsertEvent, Goto, tables
  <1>3. BuyerFound'
    BY DEF BillingInv, TablesTyped, BuyerFound, InsertEvent, Goto
  <1> QED
    BY <1>1, <1>2, <1>3 DEF BillingInv

(* A checkout finds its buyer.                                             *)
LEMMA FindUserKeeps ==
  ASSUME BillingInv, NEW d \in Delivery, FindUser(d)
  PROVE  BillingInv'
  <1>0. event[d] \in Event /\ pc[d] = "find"
    BY DEF BillingInv, BusyHasEvent, FindUser
  <1>1. Matching(event[d]) \subseteq User
        /\ (event[d][1] = "completed" => Matching(event[d]) = {Subject(event[d])})
    BY <1>0, EventParts DEF Matching
  <1>2. \/ /\ loaded' = loaded /\ pc' = [pc EXCEPT ![d] = "commit"]
           /\ event[d][1] # "completed"
        \/ \E u \in Matching(event[d]) :
             /\ loaded' = [loaded EXCEPT ![d] = [who |-> u, row |-> users[u]]]
             /\ pc' = [pc EXCEPT ![d] = "flush"]
    BY <1>1 DEF FindUser, Goto
  <1>3. UNCHANGED <<sent, processed, users, audit, event>>
    BY DEF FindUser, stripeVars, tables
  <1>4. loaded' \in [Delivery -> [who : User \cup {None}, row : UserRow]]
    <2>1. CASE loaded' = loaded
      BY <2>1 DEF BillingInv, TablesTyped
    <2>2. ASSUME NEW u \in Matching(event[d]),
                 loaded' = [loaded EXCEPT ![d] = [who |-> u, row |-> users[u]]]
          PROVE  loaded' \in [Delivery -> [who : User \cup {None}, row : UserRow]]
      <3>1. [who |-> u, row |-> users[u]] \in [who : User \cup {None}, row : UserRow]
        BY <1>1 DEF BillingInv, TablesTyped
      <3> QED
        BY <2>2, <3>1 DEF BillingInv, TablesTyped
    <2> QED
      BY <1>2, <2>1, <2>2
  <1>5. pc' \in [Delivery -> {"idle", "insert", "find", "flush", "commit", "answer"}]
    BY <1>2 DEF BillingInv, TablesTyped
  <1>6. TablesTyped'
    BY <1>3, <1>4, <1>5 DEF BillingInv, TablesTyped
  <1>7. \A c \in Delivery : Inserted(c)' <=> Inserted(c)
    BY <1>0, <1>2 DEF BillingInv, TablesTyped, Inserted
  <1>8. InsertedOnce' /\ EachEventOnce'
    BY <1>3, <1>7 DEF BillingInv, InsertedOnce, EachEventOnce
  <1>9. BusyHasEvent'
    BY <1>0, <1>2, <1>3 DEF BillingInv, TablesTyped, BusyHasEvent
  <1>10. BuyerFound'
    <2> SUFFICES ASSUME NEW c \in Delivery, pc'[c] \in {"flush", "commit"},
                        event[c][1] = "completed"
                 PROVE  loaded'[c].who = Subject(event[c])
      BY <1>3 DEF BuyerFound, Subject
    <2>1. CASE c # d
      BY <1>2, <2>1 DEF BillingInv, TablesTyped, BuyerFound
    <2>2. CASE c = d
      <3>1. PICK u \in Matching(event[d]) :
              loaded' = [loaded EXCEPT ![d] = [who |-> u, row |-> users[u]]]
        BY <1>2, <2>2
      <3>2. loaded'[d] = [who |-> u, row |-> users[u]]
        BY <3>1 DEF BillingInv, TablesTyped
      <3> QED
        BY <1>1, <2>2, <3>1, <3>2
    <2> QED
      BY <2>1, <2>2
  <1> QED
    BY <1>6, <1>8, <1>9, <1>10 DEF BillingInv

(* A flush leaves the tables alone.                                        *)
LEMMA FlushKeeps ==
  ASSUME BillingInv, NEW d \in Delivery, Flush(d)
  PROVE  BillingInv'
  <1>1. TablesTyped' /\ BusyHasEvent' /\ EachEventOnce'
    BY DEF BillingInv, TablesTyped, BusyHasEvent, EachEventOnce, Flush, Goto, tables, stripeVars
  <1>2. InsertedOnce'
    BY DEF BillingInv, TablesTyped, InsertedOnce, Inserted, Flush, Goto, tables
  <1>3. BuyerFound'
    BY DEF BillingInv, TablesTyped, BuyerFound, Flush, Goto, Subject
  <1> QED
    BY <1>1, <1>2, <1>3 DEF BillingInv

(* The event id goes in with its only effect.                              *)
LEMMA CommitKeeps ==
  ASSUME BillingInv, NEW d \in Delivery, Commit(d)
  PROVE  BillingInv'
  <1> DEFINE e == event[d]  u == loaded[d].who
  <1>0. e \in Event /\ e \notin processed /\ pc[d] = "commit" /\ u \in User \cup {None}
    BY DEF BillingInv, TablesTyped, BusyHasEvent, InsertedOnce, Inserted, Commit
  <1>1. Wanted(e) \in UserRow /\ loaded[d].row \in UserRow
    BY <1>0, EventParts DEF BillingInv, TablesTyped
  <1>2. ASSUME NEW now \in UserRow
        PROVE  Updated(now, loaded[d].row, Wanted(e)) \in UserRow
    BY <1>1 DEF Updated, Changed, UserRow
  <1>3. users' \in [User -> UserRow]
    <2>1. CASE u = None
      BY <2>1 DEF BillingInv, TablesTyped, Commit
    <2>2. CASE u # None
      <3>1. u \in User /\ users[u] \in UserRow
        BY <1>0, <2>2 DEF BillingInv, TablesTyped
      <3>2. users' = [users EXCEPT ![u] = Updated(users[u], loaded[d].row, Wanted(e))]
        BY <2>2 DEF Commit
      <3>3. Updated(users[u], loaded[d].row, Wanted(e)) \in UserRow
        BY <1>2, <3>1
      <3> QED
        BY <3>1, <3>2, <3>3, Zenon DEF BillingInv, TablesTyped
    <2> QED
      BY <2>1, <2>2
  <1>4. audit[e] = 0
    BY <1>0 DEF BillingInv, EachEventOnce, TablesTyped
  <1>5. audit' \in [Event \cup Sub -> Nat]
        /\ \A f \in Event : audit'[f] = IF f = e /\ u # None THEN 1 ELSE audit[f]
    BY <1>0, <1>4 DEF BillingInv, TablesTyped, Commit, Audited
  <1>6. processed' = processed \cup {e}
    BY DEF Commit
  <1>7. TablesTyped'
    BY <1>0, <1>3, <1>5, <1>6 DEF BillingInv, TablesTyped, Commit, Goto, NoUser, FreeRow, UserRow, stripeVars
  <1>8. BusyHasEvent'
    BY DEF BillingInv, TablesTyped, BusyHasEvent, Commit, Goto
  <1>9. InsertedOnce'
    BY <1>0, <1>6 DEF BillingInv, TablesTyped, InsertedOnce, Inserted, Commit, Goto
  <1>10. BuyerFound'
    BY DEF BillingInv, TablesTyped, BuyerFound, Commit, Goto, Subject
  <1>11. e[1] = "completed" => u # None
    BY <1>0, EventParts, BillingAssumption DEF BillingInv, BuyerFound
  <1>12. EachEventOnce'
    BY <1>4, <1>5, <1>6, <1>11 DEF BillingInv, EachEventOnce
  <1> QED
    BY <1>7, <1>8, <1>9, <1>10, <1>12 DEF BillingInv

(* An answer leaves the tables alone.                                      *)
LEMMA AnswerKeeps ==
  ASSUME BillingInv, NEW d \in Delivery, Answer(d)
  PROVE  BillingInv'
  <1>1. TablesTyped' /\ BusyHasEvent' /\ EachEventOnce'
    BY DEF BillingInv, TablesTyped, BusyHasEvent, EachEventOnce, Answer, Goto, tables, stripeVars
  <1>2. InsertedOnce' /\ BuyerFound'
    BY DEF BillingInv, TablesTyped, InsertedOnce, BuyerFound, Inserted, Answer, Goto, tables
  <1> QED
    BY <1>1, <1>2 DEF BillingInv

(* A death leaves the tables alone.                                        *)
LEMMA DieKeeps ==
  ASSUME BillingInv, NEW d \in Delivery, Die(d)
  PROVE  BillingInv'
  <1>1. TablesTyped' /\ BusyHasEvent' /\ EachEventOnce'
    BY DEF BillingInv, TablesTyped, BusyHasEvent, EachEventOnce, Die, Goto, NoUser, FreeRow,
           UserRow, tables, stripeVars
  <1>2. InsertedOnce' /\ BuyerFound'
    BY DEF BillingInv, TablesTyped, InsertedOnce, BuyerFound, Inserted, Die, Goto, tables
  <1> QED
    BY <1>1, <1>2 DEF BillingInv

(* A cancellation has audit rows of its own.                               *)
LEMMA CancelKeeps ==
  ASSUME BillingInv, NEW u \in User, Cancel(u)
  PROVE  BillingInv'
  <1>1. PICK s \in Sub : audit' = Audited(audit, s) \/ UNCHANGED audit
    BY DEF Cancel
  <1>2. s \notin Event
    BY BillingAssumption
  <1>3. audit' \in [Event \cup Sub -> Nat] /\ \A e \in Event : audit'[e] = audit[e]
    BY <1>1, <1>2 DEF BillingInv, TablesTyped, Audited
  <1>4. UNCHANGED <<sent, processed, users, pc, event, loaded>>
    BY DEF Cancel
  <1>5. TablesTyped'
    BY <1>3, <1>4 DEF BillingInv, TablesTyped
  <1>6. BusyHasEvent' /\ InsertedOnce' /\ BuyerFound'
    BY <1>4 DEF BillingInv, BusyHasEvent, InsertedOnce, BuyerFound, Inserted
  <1>7. EachEventOnce'
    BY <1>3, <1>4 DEF BillingInv, EachEventOnce
  <1> QED
    BY <1>5, <1>6, <1>7 DEF BillingInv

(* Every step of Next keeps the invariant.                                 *)
LEMMA BillingStep == BillingInv /\ [Next]_vars => BillingInv'
  <1> SUFFICES ASSUME BillingInv, [Next]_vars PROVE BillingInv'
    OBVIOUS
  <1>1. ASSUME NEW s \in Sub, Subscribe(s) PROVE BillingInv'
    BY <1>1, StripeKeeps DEF Subscribe, Kind
  <1>2. ASSUME NEW s \in Sub, EndSubscription(s) PROVE BillingInv'
    BY <1>2, StripeKeeps DEF EndSubscription, Kind
  <1>3. ASSUME NEW d \in Delivery, Receive(d) \/ Statement(d) \/ Die(d) PROVE BillingInv'
    BY <1>3, ReceiveKeeps, InsertEventKeeps, FindUserKeeps, FlushKeeps, CommitKeeps,
       AnswerKeeps, DieKeeps DEF Statement
  <1>4. ASSUME NEW u \in User, Cancel(u) PROVE BillingInv'
    BY <1>4, CancelKeeps
  <1>5. CASE UNCHANGED vars
    <2>1. UNCHANGED <<sent, processed, users, audit, pc, event, loaded>>
      BY <1>5 DEF vars
    <2> QED
      BY <2>1 DEF BillingInv, TablesTyped, BusyHasEvent, InsertedOnce, BuyerFound,
                  EachEventOnce, Inserted
  <1> QED
    BY <1>1, <1>2, <1>3, <1>4, <1>5 DEF Next

(* The invariant holds at every moment.                                    *)
LEMMA BillingInvariant == Spec => []BillingInv
  BY InitBilling, BillingStep, PTL DEF Spec

(* Every event takes effect once, however often, in whatever order and on  *)
(* however many connections it is delivered (stripe_webhook).              *)
THEOREM EventsTakeEffectOnce == Spec => []EachEventOnce
  <1>1. BillingInv => EachEventOnce
    BY DEF BillingInv
  <1> QED
    BY <1>1, BillingInvariant, PTL

(* Once its checkout is processed, a subscription that is not the one of   *)
(* its user never becomes that again: what CancelledForGood takes for      *)
(* granted after the row has let go (stripe_webhook, both branches).       *)
NeverAgain ==
  \A s \in Sub :
    <<"completed", s>> \in processed /\ users[Owner[s]].sub # s => users'[Owner[s]].sub # s

(* A commit gives its user the subscription of an event not processed      *)
(* before, or none.                                                        *)
LEMMA CommitGivesOnlyNew ==
  ASSUME BillingInv, NEW d \in Delivery, Commit(d), NEW s \in Sub,
         <<"completed", s>> \in processed, users[Owner[s]].sub # s
  PROVE  users'[Owner[s]].sub # s
  <1> DEFINE e == event[d]  u == loaded[d].who
  <1>1. e \in Event /\ e \notin processed /\ Owner[s] \in User
    BY BillingAssumption DEF BillingInv, BusyHasEvent, InsertedOnce, Inserted, Commit
  <1>2. Wanted(e).sub # s
    <2>1. CASE e[1] = "completed"
      <3>1. e = <<"completed", e[2]>>
        BY <1>1, <2>1 DEF Event
      <3>2. e[2] # s
        BY <1>1, <3>1
      <3> QED
        BY <2>1, <3>2 DEF Wanted
    <2>2. CASE e[1] # "completed"
      BY <2>2, BillingAssumption DEF Wanted, FreeRow
    <2> QED
      BY <2>1, <2>2
  <1>3. users'[Owner[s]] = users[Owner[s]]
        \/ users'[Owner[s]] = Updated(users[Owner[s]], loaded[d].row, Wanted(e))
    BY <1>1 DEF BillingInv, TablesTyped, Commit
  <1> QED
    BY <1>2, <1>3 DEF Updated, Changed

(* In no step does a subscription come back to a user whose row has let    *)
(* go of it after its checkout was processed.                              *)
THEOREM ReleasedForGood == Spec => [][NeverAgain]_vars
  <1>1. ASSUME BillingInv, [Next]_vars PROVE [NeverAgain]_vars
    <2>1. ASSUME NEW d \in Delivery, Commit(d) PROVE NeverAgain
      BY <1>1, <2>1, CommitGivesOnlyNew DEF NeverAgain
    <2>2. CASE UNCHANGED users
      BY <2>2 DEF NeverAgain
    <2>3. UNCHANGED users \/ \E d \in Delivery : Commit(d)
      BY <1>1 DEF Next, Subscribe, EndSubscription, Receive, Statement, InsertEvent, FindUser,
                  Flush, Answer, Die, Cancel, tables, vars
    <2> QED
      BY <2>1, <2>2, <2>3
  <1> QED
    BY <1>1, BillingInvariant, PTL DEF Spec

--------------------------------------------------------------------------------
(* A user with one subscription at a time whose events come in order.      *)

(* What Stripe has sent: every event once, to the user it is about. *)
SentOnce ==
  \A u \in User :
    /\ \A i \in DOMAIN sent[u] : Subject(sent[u][i]) = u
    /\ \A i, j \in DOMAIN sent[u] : sent[u][i] = sent[u][j] => i = j

Known ==
  /\ processed \subseteq Sent
  /\ \A d \in Delivery : pc[d] # "idle" => event[d] \in Sent

(* Rows hold subscriptions of their own user, sessions the user of their   *)
(* event.                                                                  *)
OwnRows ==
  /\ \A u \in User : users[u].sub # None => Owner[users[u].sub] = u
  /\ \A d \in Delivery :
       IF pc[d] \in {"flush", "commit"} THEN loaded[d].who \in {None, Subject(event[d])}
                                        ELSE loaded[d].who = None

(* One subscription at a time: a subscription ends right after it began,   *)
(* and the one that is active began last.                                  *)
OneAtATime(u) ==
  orderly[u] =>
    /\ \A s \in Sub : \A i \in DOMAIN sent[u] :
         sent[u][i] = <<"deleted", s>> =>
           i - 1 \in DOMAIN sent[u] /\ sent[u][i - 1] = <<"completed", s>>
    /\ \A s \in Sub : Owner[s] = u /\ Active(s) =>
         Len(sent[u]) \in DOMAIN sent[u] /\ sent[u][Len(sent[u])] = <<"completed", s>>

(* The first n events of u are handled, the row is what the last of them   *)
(* says, and only the next one may be at work, on the row as it is.        *)
HandledUpTo(u, n) ==
  /\ Handled(u) = 1 .. n
  /\ n >= 1 => users[u] = Wanted(sent[u][n])
  /\ \A d \in Delivery : Inserted(d) /\ Subject(event[d]) = u =>
       /\ n + 1 \in DOMAIN sent[u] /\ event[d] = sent[u][n + 1]
       /\ pc[d] \in {"flush", "commit"} => loaded[d] = [who |-> u, row |-> users[u]]

InOrder(u) == orderly[u] => \E n \in 0 .. Len(sent[u]) : HandledUpTo(u, n)

OrderInv ==
  /\ orderly \in [User -> BOOLEAN]
  /\ SentOnce /\ Known /\ OwnRows
  /\ \A u \in User : OneAtATime(u) /\ InOrder(u)

(* At the start nothing is sent and nothing handled.                       *)
LEMMA InitOrdered == Init => OrderInv
  <1> SUFFICES ASSUME Init PROVE OrderInv
    OBVIOUS
  <1>1. /\ \A u \in User : sent[u] = <<>> /\ orderly[u] = TRUE /\ users[u] = FreeRow
        /\ processed = {} /\ orderly \in [User -> BOOLEAN]
        /\ \A d \in Delivery : pc[d] = "idle" /\ loaded[d] = NoUser
    BY DEF Init
  <1>2. SentOnce /\ Known
    BY <1>1 DEF SentOnce, Known
  <1>3. OwnRows
    BY <1>1 DEF OwnRows, FreeRow, NoUser
  <1>4. ASSUME NEW u \in User PROVE OneAtATime(u) /\ InOrder(u)
    <2>1. \A s \in Sub : ~ Active(s)
      BY <1>1 DEF Active, Sent, SentTo
    <2>2. OneAtATime(u)
      BY <1>1, <2>1 DEF OneAtATime
    <2>3. Handled(u) = 1 .. 0
      BY <1>1 DEF Handled
    <2>4. HandledUpTo(u, 0)
      BY <1>1, <2>3 DEF HandledUpTo, Inserted
    <2>5. 0 \in 0 .. Len(sent[u])
      BY <1>1
    <2> QED
      BY <2>2, <2>4, <2>5 DEF InOrder
  <1> QED
    BY <1>1, <1>2, <1>3, <1>4 DEF OrderInv

(* A step that sends nothing leaves what was sent in order.                *)
LEMMA NothingSent ==
  ASSUME OrderInv, sent' = sent
  PROVE  /\ Sent' = Sent /\ SentOnce'
         /\ \A u \in User : (orderly'[u] => orderly[u]) => OneAtATime(u)'
  <1>1. Sent' = Sent
    BY DEF Sent, SentTo
  <1>2. \A s : Active(s)' <=> Active(s)
    BY <1>1 DEF Active
  <1>3. SentOnce'
    BY DEF OrderInv, SentOnce
  <1>4. ASSUME NEW u \in User, orderly'[u] => orderly[u] PROVE OneAtATime(u)'
    BY <1>2, <1>4 DEF OrderInv, OneAtATime
  <1> QED
    BY <1>1, <1>3, <1>4

(* A delivery that does not hold an event id is nobody's next event.       *)
LEMMA IdleOrdered ==
  ASSUME OrderInv, NEW d \in Delivery,
         UNCHANGED <<sent, processed, users, orderly>>,
         \A c \in Delivery : c # d =>
           pc'[c] = pc[c] /\ event'[c] = event[c] /\ loaded'[c] = loaded[c],
         pc'[d] \in {"idle", "insert", "answer"}, loaded'[d].who = None,
         pc'[d] # "idle" => event'[d] \in Sent
  PROVE  OrderInv'
  <1>1. /\ Sent' = Sent /\ SentOnce'
        /\ \A u \in User : OneAtATime(u)'
    BY NothingSent
  <1>2. Known'
    BY <1>1 DEF OrderInv, Known
  <1>3. OwnRows'
    BY DEF OrderInv, OwnRows, Subject
  <1>4. ASSUME NEW u \in User PROVE InOrder(u)'
    <2>1. \A n : HandledUpTo(u, n) => HandledUpTo(u, n)'
      BY DEF HandledUpTo, Handled, Inserted, Subject
    <2> QED
      BY <2>1 DEF OrderInv, InOrder
  <1> QED
    BY <1>1, <1>2, <1>3, <1>4 DEF OrderInv

(* Who gets an event that is at work is the user it is about.              *)
LEMMA PlaceOfEvent ==
  ASSUME BillingInv, OrderInv, NEW e \in Sent
  PROVE  /\ e \in Event /\ Subject(e) \in User
         /\ \E i \in DOMAIN sent[Subject(e)] : sent[Subject(e)][i] = e
  <1>1. PICK u \in User : e \in SentTo(u)
    BY DEF Sent
  <1>2. PICK i \in DOMAIN sent[u] : sent[u][i] = e
    BY <1>1 DEF SentTo
  <1>3. sent[u] \in Seq(Event)
    BY DEF BillingInv, TablesTyped
  <1>4. Subject(e) = u
    BY <1>2 DEF OrderInv, SentOnce
  <1> QED
    BY <1>2, <1>3, <1>4

(* The event whose id goes in is the first one of its user that is not     *)
(* handled, if the user is to stay an orderly one.                         *)
LEMMA InsertEventOrdered ==
  ASSUME BillingInv, OrderInv, NEW d \in Delivery, InsertEvent(d)
  PROVE  OrderInv'
  <1> DEFINE e == event[d]  u == Subject(e)
  <1>1. /\ pc[d] = "insert" /\ e \in Sent /\ loaded[d].who = None
        /\ UNCHANGED <<sent, processed, users, event, loaded>>
    BY DEF InsertEvent, OrderInv, Known, OwnRows, stripeVars, tables
  <1>2. e \in Event /\ u \in User
    BY <1>1, PlaceOfEvent
  <1>3. PICK i \in DOMAIN sent[u] : sent[u][i] = e
    BY <1>1, PlaceOfEvent
  <1>4. sent[u] \in Seq(Event)
    BY <1>2 DEF BillingInv, TablesTyped
  <1>5. CASE e \in processed
    <2>1. pc' = [pc EXCEPT ![d] = "answer"] /\ orderly' = orderly
      BY <1>5 DEF InsertEvent, Goto
    <2>2. \A c \in Delivery : pc'[c] = IF c = d THEN "answer" ELSE pc[c]
      BY <2>1 DEF BillingInv, TablesTyped
    <2> QED
      BY <1>1, <2>1, <2>2, IdleOrdered
  <1>6. CASE e \notin processed
    <2>1. /\ pc' = [pc EXCEPT ![d] = "find"]
          /\ orderly' = [orderly EXCEPT ![u] = orderly[u] /\ InTurn(e)]
      BY <1>6 DEF InsertEvent, Goto
    <2>2. \A c \in Delivery : pc'[c] = IF c = d THEN "find" ELSE pc[c]
      BY <2>1 DEF BillingInv, TablesTyped
    <2>3. /\ orderly' \in [User -> BOOLEAN]
          /\ \A v \in User : orderly'[v] => orderly[v]
          /\ orderly'[u] => InTurn(e)
      <3>1. (orderly[u] /\ InTurn(e)) \in BOOLEAN
        OBVIOUS
      <3> QED
        BY <1>2, <2>1, <3>1, Zenon DEF OrderInv
    <2> HIDE DEF e, u
    <2>4. /\ Sent' = Sent /\ SentOnce'
          /\ \A v \in User : OneAtATime(v)'
      BY <1>1, <2>3, NothingSent
    <2>5. Known'
      BY <1>1, <2>2, <2>4 DEF OrderInv, Known, e
    <2>6. OwnRows'
      BY <1>1, <2>2 DEF OrderInv, OwnRows, Subject
    <2>7. ASSUME NEW v \in User PROVE InOrder(v)'
      <3>1. SUFFICES ASSUME orderly'[v] PROVE \E n \in 0 .. Len(sent[v]) : HandledUpTo(v, n)'
        BY <1>1 DEF InOrder
      <3>2. PICK n \in 0 .. Len(sent[v]) : HandledUpTo(v, n)
        BY <2>3, <3>1 DEF OrderInv, InOrder
      <3>3. v = u => n + 1 \in DOMAIN sent[u] /\ sent[u][n + 1] = e
        <4>1. SUFFICES ASSUME v = u PROVE i = n + 1
          BY <1>3
        <4>2. i \in 1 .. Len(sent[u]) /\ Len(sent[u]) \in Nat
          BY <1>3, <1>4
        <4>3. Handled(u) = 1 .. n /\ i \notin Handled(u)
          BY <1>3, <1>6, <3>2, <4>1 DEF HandledUpTo, Handled
        <4>4. ASSUME n + 1 < i PROVE FALSE
          <5>1. n + 1 \in DOMAIN sent[u]
            BY <1>4, <3>2, <4>1, <4>2, <4>4
          <5>2. sent[u][n + 1] \in processed
            BY <1>3, <2>3, <3>1, <4>1, <4>4, <5>1 DEF InTurn, u
          <5>3. n + 1 \in Handled(u)
            BY <5>1, <5>2 DEF Handled
          <5> QED
            BY <3>2, <4>3, <5>3
        <4> QED
          BY <3>2, <4>1, <4>2, <4>3, <4>4
      <3>4. HandledUpTo(v, n)'
        BY <1>1, <2>2, <3>2, <3>3 DEF HandledUpTo, Handled, Inserted, Subject, e, u
      <3> QED
        BY <3>4
    <2> QED
      BY <2>3, <2>4, <2>5, <2>6, <2>7 DEF OrderInv
  <1> QED
    BY <1>5, <1>6

(* In order, the end of a subscription finds it in the row it began in.    *)
LEMMA FindUserOrdered ==
  ASSUME BillingInv, OrderInv, NEW d \in Delivery, FindUser(d)
  PROVE  OrderInv'
  <1> DEFINE e == event[d]
  <1>1. /\ pc[d] = "find" /\ e \in Sent /\ e \in Event /\ loaded[d].who = None
        /\ UNCHANGED <<sent, processed, users, event, orderly>>
    BY DEF BillingInv, BusyHasEvent, FindUser, OrderInv, Known, OwnRows, stripeVars, tables
  <1>2. e[1] \in Kind /\ e[2] \in Sub /\ e = <<e[1], e[2]>> /\ Subject(e) \in User
    BY <1>1, EventParts DEF Event
  <1>3. \A w \in Matching(e) : w = Subject(e)
    BY <1>2, BillingAssumption DEF Matching, OrderInv, OwnRows, Subject
  <1>4. \/ /\ Matching(e) = {} /\ loaded' = loaded
           /\ pc' = [pc EXCEPT ![d] = "commit"]
        \/ /\ Subject(e) \in Matching(e)
           /\ loaded' = [loaded EXCEPT ![d] = [who |-> Subject(e), row |-> users[Subject(e)]]]
           /\ pc' = [pc EXCEPT ![d] = "flush"]
    BY <1>3 DEF FindUser, Goto
  <1>5. /\ \A c \in Delivery : c # d => pc'[c] = pc[c] /\ loaded'[c] = loaded[c]
        /\ \/ Matching(e) = {} /\ pc'[d] = "commit" /\ loaded'[d] = loaded[d]
           \/ /\ Subject(e) \in Matching(e) /\ pc'[d] = "flush"
              /\ loaded'[d] = [who |-> Subject(e), row |-> users[Subject(e)]]
    BY <1>4 DEF BillingInv, TablesTyped
  <1>6. /\ Sent' = Sent /\ SentOnce'
        /\ \A v \in User : OneAtATime(v)'
    BY <1>1, NothingSent
  <1>7. Known'
    BY <1>1, <1>5, <1>6 DEF OrderInv, Known
  <1>8. OwnRows'
    BY <1>1, <1>5 DEF OrderInv, OwnRows, Subject
  <1>9. ASSUME NEW v \in User PROVE InOrder(v)'
    <2>1. SUFFICES ASSUME orderly[v] PROVE \E n \in 0 .. Len(sent[v]) : HandledUpTo(v, n)'
      BY <1>1 DEF InOrder
    <2>2. PICK n \in 0 .. Len(sent[v]) : HandledUpTo(v, n)
      BY <2>1 DEF OrderInv, InOrder
    <2>3. ASSUME Subject(e) = v
          PROVE  /\ n + 1 \in DOMAIN sent[v] /\ e = sent[v][n + 1]
                 /\ v \in Matching(e)
      <3>1. n + 1 \in DOMAIN sent[v] /\ e = sent[v][n + 1]
        BY <1>1, <2>2, <2>3 DEF HandledUpTo, Inserted
      <3>2. CASE e[1] = "completed"
        BY <2>3, <3>1, <3>2 DEF Matching
      <3>3. CASE e[1] = "deleted"
        <4>1. sent[v][n + 1] = <<"deleted", e[2]>>
          BY <1>2, <3>1, <3>3
        <4>2. n \in Nat /\ DOMAIN sent[v] = 1 .. Len(sent[v])
          <5>1. sent[v] \in Seq(Event)
            BY DEF BillingInv, TablesTyped
          <5> QED
            BY <2>2, <5>1
        <4>3. n >= 1 /\ sent[v][n] = <<"completed", e[2]>>
          <5>1. ASSUME NEW j \in DOMAIN sent[v], sent[v][j] = <<"deleted", e[2]>>,
                       NEW k, k = j - 1
                PROVE  k \in DOMAIN sent[v] /\ sent[v][k] = <<"completed", e[2]>>
            BY <1>2, <2>1, <5>1 DEF OrderInv, OneAtATime
          <5>2. n = (n + 1) - 1
            BY <4>2
          <5>3. n \in DOMAIN sent[v] /\ sent[v][n] = <<"completed", e[2]>>
            BY <3>1, <4>1, <5>1, <5>2
          <5> QED
            BY <4>2, <5>3
        <4>4. users[v].sub = e[2]
          BY <2>2, <4>3 DEF HandledUpTo, Wanted
        <4> QED
          BY <3>1, <3>3, <4>4 DEF Matching
      <3> QED
        BY <1>2, <3>2, <3>3 DEF Kind
    <2>4. ASSUME NEW c \in Delivery, Inserted(c)', Subject(event[c]) = v
          PROVE  /\ n + 1 \in DOMAIN sent[v] /\ event[c] = sent[v][n + 1]
                 /\ pc'[c] \in {"flush", "commit"} =>
                      loaded'[c] = [who |-> v, row |-> users[v]]
      <3>1. CASE c = d
        BY <1>5, <2>3, <2>4, <3>1
      <3>2. CASE c # d
        BY <1>5, <2>2, <2>4, <3>2 DEF HandledUpTo, Inserted
      <3> QED
        BY <3>1, <3>2
    <2>5. HandledUpTo(v, n)'
      BY <1>1, <2>2, <2>4 DEF HandledUpTo, Handled, Subject
    <2> QED
      BY <2>5
  <1> QED
    BY <1>1, <1>6, <1>7, <1>8, <1>9 DEF OrderInv

(* A flush writes nothing yet.                                             *)
LEMMA FlushOrdered ==
  ASSUME BillingInv, OrderInv, NEW d \in Delivery, Flush(d)
  PROVE  OrderInv'
  <1>1. /\ pc[d] = "flush" /\ pc' = [pc EXCEPT ![d] = "commit"]
        /\ UNCHANGED <<sent, processed, users, event, loaded, orderly>>
    BY DEF Flush, Goto, stripeVars, tables
  <1>2. \A c \in Delivery : pc'[c] = IF c = d THEN "commit" ELSE pc[c]
    BY <1>1 DEF BillingInv, TablesTyped
  <1>3. /\ Sent' = Sent /\ SentOnce'
        /\ \A u \in User : OneAtATime(u)'
    BY <1>1, NothingSent
  <1>4. Known' /\ OwnRows'
    BY <1>1, <1>2, <1>3 DEF OrderInv, Known, OwnRows, Subject
  <1>5. ASSUME NEW u \in User PROVE InOrder(u)'
    <2>1. \A n : HandledUpTo(u, n) => HandledUpTo(u, n)'
      BY <1>1, <1>2 DEF HandledUpTo, Handled, Inserted, Subject
    <2> QED
      BY <1>1, <2>1 DEF OrderInv, InOrder
  <1> QED
    BY <1>1, <1>3, <1>4, <1>5 DEF OrderInv

(* A commit handles the next event of its user and makes the row what it   *)
(* says; the rows of the others stay.                                      *)
LEMMA CommitOrdered ==
  ASSUME BillingInv, OrderInv, NEW d \in Delivery, Commit(d)
  PROVE  OrderInv'
  <1> DEFINE e == event[d]  u == Subject(e)
             new == Updated(users[u], loaded[d].row, Wanted(e))
  <1>1. /\ pc[d] = "commit" /\ e \in Sent /\ e \in Event /\ u \in User
        /\ loaded[d].who \in {None, u} /\ e[2] \in Sub
    BY EventParts DEF Commit, BillingInv, BusyHasEvent, OrderInv, Known, OwnRows
  <1>2. /\ UNCHANGED <<sent, event, orderly>> /\ processed' = processed \cup {e}
        /\ pc' = [pc EXCEPT ![d] = "answer"] /\ loaded' = [loaded EXCEPT ![d] = NoUser]
    BY DEF Commit, Goto, stripeVars
  <1>3. /\ \A v \in User : v # u => users'[v] = users[v]
        /\ loaded[d].who = None => users' = users
        /\ loaded[d].who = u => users'[u] = new
    <2>1. CASE loaded[d].who = None
      BY <1>1, <2>1, BillingAssumption DEF Commit
    <2>2. CASE loaded[d].who # None
      <3>1. users' = [users EXCEPT ![u] = new]
        BY <1>1, <2>2 DEF Commit
      <3> HIDE DEF u, new
      <3>2. DOMAIN users = User
        BY DEF BillingInv, TablesTyped
      <3> QED
        BY <1>1, <2>2, <3>1, <3>2
    <2> QED
      BY <2>1, <2>2
  <1>4. /\ \A c \in Delivery : pc'[c] = IF c = d THEN "answer" ELSE pc[c]
        /\ \A c \in Delivery : loaded'[c] = IF c = d THEN NoUser ELSE loaded[c]
    BY <1>2 DEF BillingInv, TablesTyped
  <1>5. /\ Sent' = Sent /\ SentOnce'
        /\ \A v \in User : OneAtATime(v)'
    BY <1>2, NothingSent
  <1>6. Known'
    BY <1>1, <1>2, <1>4, <1>5 DEF OrderInv, Known
  <1>7. OwnRows'
    <2>1. new.sub \in {users[u].sub, None, e[2]} /\ Owner[e[2]] = u
      BY DEF Updated, Changed, Wanted, FreeRow, Subject
    <2> HIDE DEF new
    <2>2. ASSUME NEW v \in User, users'[v].sub # None PROVE Owner[users'[v].sub] = v
      BY <1>1, <1>3, <2>1, <2>2 DEF OrderInv, OwnRows
    <2>3. ASSUME NEW c \in Delivery
          PROVE  IF pc'[c] \in {"flush", "commit"} THEN loaded'[c].who \in {None, Subject(event[c])}
                                                   ELSE loaded'[c].who = None
      BY <1>4 DEF OrderInv, OwnRows, NoUser
    <2> QED
      BY <1>2, <2>2, <2>3 DEF OwnRows, Subject
  <1>8. ASSUME NEW v \in User PROVE InOrder(v)'
    <2>1. SUFFICES ASSUME orderly[v] PROVE \E n \in 0 .. Len(sent[v]) : HandledUpTo(v, n)'
      BY <1>2 DEF InOrder
    <2>2. PICK n \in 0 .. Len(sent[v]) : HandledUpTo(v, n)
      BY <2>1 DEF OrderInv, InOrder
    <2>3. CASE v # u
      <3>1. \A i \in DOMAIN sent[v] : sent[v][i] # e
        BY <2>3 DEF OrderInv, SentOnce
      <3> HIDE DEF e, new
      <3>2. Handled(v)' = Handled(v)
        BY <1>2, <3>1 DEF Handled
      <3>3. HandledUpTo(v, n)'
        BY <1>2, <1>3, <1>4, <2>2, <2>3, <3>2 DEF HandledUpTo, Inserted, Subject, e
      <3> QED
        BY <3>3
    <2>4. CASE v = u
      <3>1. /\ n + 1 \in DOMAIN sent[u] /\ e = sent[u][n + 1]
            /\ loaded[d] = [who |-> u, row |-> users[u]]
        BY <1>1, <2>2, <2>4 DEF HandledUpTo, Inserted
      <3>2. users'[u] = Wanted(e)
        <4>1. Wanted(e) \in UserRow /\ users[u] \in UserRow
          BY <1>1, EventParts DEF BillingInv, TablesTyped
        <4>2. Wanted(e) = [tier |-> Wanted(e).tier, sub |-> Wanted(e).sub]
          BY <4>1 DEF UserRow
        <4>3. new = Wanted(e)
          <5>1. loaded[d].row = users[u]
            BY <3>1
          <5> QED
            BY <4>2, <5>1 DEF Updated, Changed
        <4> QED
          BY <1>3, <3>1, <4>3
      <3>3. Handled(u)' = 1 .. n + 1 /\ n + 1 \in 0 .. Len(sent[u])
        <4>1. DOMAIN sent[u] = 1 .. Len(sent[u]) /\ Len(sent[u]) \in Nat
          <5>1. sent[u] \in Seq(Event)
            BY <1>1 DEF BillingInv, TablesTyped
          <5> QED
            BY <5>1
        <4>2. \A i \in DOMAIN sent[u] : sent[u][i] = e <=> i = n + 1
          BY <1>1, <3>1 DEF OrderInv, SentOnce
        <4>3. Handled(u)' = Handled(u) \cup {n + 1}
          BY <1>2, <3>1, <4>2 DEF Handled
        <4>4. Handled(u) = 1 .. n /\ n \in Nat
          BY <2>2, <2>4, <4>1 DEF HandledUpTo
        <4>5. (1 .. n) \cup {n + 1} = 1 .. n + 1
          BY <4>4
        <4> QED
          BY <3>1, <4>1, <4>3, <4>4, <4>5
      <3>4. ASSUME NEW c \in Delivery, Inserted(c)', Subject(event[c]) = u PROVE FALSE
        <4>1. c # d /\ Inserted(c)
          BY <1>4, <3>4 DEF Inserted
        <4>2. event[c] = e
          BY <2>2, <2>4, <3>1, <3>4, <4>1 DEF HandledUpTo
        <4> QED
          BY <1>1, <4>1, <4>2 DEF BillingInv, InsertedOnce, Inserted
      <3>5. HandledUpTo(v, n + 1)'
        BY <1>2, <2>4, <3>1, <3>2, <3>3, <3>4 DEF HandledUpTo, Subject
      <3> QED
        BY <2>4, <3>3, <3>5
    <2> QED
      BY <2>3, <2>4
  <1> QED
    BY <1>2, <1>5, <1>6, <1>7, <1>8 DEF OrderInv

(* A new event comes after all others of its user and is not handled yet.  *)
LEMMA EmitOrdered ==
  ASSUME BillingInv, OrderInv, NEW s \in Sub, NEW kind \in Kind, Emit(kind, s),
         <<kind, s>> \notin Sent, UNCHANGED <<tables, pc, event, loaded>>,
         \A u \in User : orderly'[u] => orderly[u]
  PROVE  /\ SentOnce' /\ Known' /\ OwnRows' /\ \A u \in User : InOrder(u)'
         /\ Sent' = Sent \cup {<<kind, s>>}
         /\ \A u \in User : Len(sent[u]) \in Nat /\ DOMAIN sent[u] = 1 .. Len(sent[u])
         /\ \A u \in User : u # Owner[s] => sent'[u] = sent[u]
         /\ DOMAIN sent'[Owner[s]] = 1 .. Len(sent[Owner[s]]) + 1
         /\ Len(sent'[Owner[s]]) = Len(sent[Owner[s]]) + 1
         /\ sent'[Owner[s]][Len(sent[Owner[s]]) + 1] = <<kind, s>>
         /\ \A i \in 1 .. Len(sent[Owner[s]]) : sent'[Owner[s]][i] = sent[Owner[s]][i]
  <1> DEFINE e == <<kind, s>>  o == Owner[s]  last == Len(sent[o]) + 1
  <1>1. o \in User /\ e \in Event /\ Subject(e) = o
    BY BillingAssumption DEF Event, Subject
  <1>2. sent' = [sent EXCEPT ![o] = Append(sent[o], e)] /\ sent \in [User -> Seq(Event)]
    BY DEF Emit, BillingInv, TablesTyped
  <1>3. UNCHANGED <<processed, users, pc, event, loaded>>
    BY DEF tables
  <1>4. ASSUME NEW u \in User PROVE Len(sent[u]) \in Nat /\ DOMAIN sent[u] = 1 .. Len(sent[u])
    <2>1. sent[u] \in Seq(Event)
      BY <1>2
    <2> QED
      BY <2>1
  <1>5. e \notin Sent
    OBVIOUS
  <1> HIDE DEF e
  <1>6. /\ \A u \in User : u # o => sent'[u] = sent[u]
        /\ DOMAIN sent'[o] = 1 .. last /\ Len(sent'[o]) = last /\ sent'[o][last] = e
        /\ \A i \in 1 .. Len(sent[o]) : sent'[o][i] = sent[o][i]
    <2>1. sent[o] \in Seq(Event) /\ sent'[o] = Append(sent[o], e)
      BY <1>1, <1>2
    <2> HIDE DEF o
    <2>2. \A u \in User : u # o => sent'[u] = sent[u]
      BY <1>2
    <2> QED
      BY <1>1, <2>1, <2>2
  <1>7. ASSUME NEW u \in User, NEW i \in DOMAIN sent[u]
        PROVE  i \in DOMAIN sent'[u] /\ sent'[u][i] = sent[u][i] /\ sent[u][i] # e
    <2>1. sent[u][i] # e
      BY <1>5 DEF Sent, SentTo
    <2>2. CASE u # o
      BY <1>6, <2>1, <2>2
    <2>3. CASE u = o
      BY <1>4, <1>6, <2>1, <2>3, SMTT(30)
    <2> QED
      BY <2>2, <2>3
  <1>8. ASSUME NEW u \in User, NEW i \in DOMAIN sent'[u], i \notin DOMAIN sent[u]
        PROVE  u = o /\ sent'[u][i] = e /\ i = last
    BY <1>1, <1>4, <1>6, <1>8
  <1> HIDE DEF o, last
  <1>9. SentOnce'
    <2>1. \A u \in User : \A i \in DOMAIN sent'[u] : Subject(sent'[u][i]) = u
      BY <1>1, <1>7, <1>8 DEF OrderInv, SentOnce
    <2>2. \A u \in User : \A i, j \in DOMAIN sent'[u] : sent'[u][i] = sent'[u][j] => i = j
      BY <1>7, <1>8 DEF OrderInv, SentOnce
    <2> QED
      BY <2>1, <2>2 DEF SentOnce, Subject
  <1>10. Sent' = Sent \cup {e}
    <2>1. Sent \subseteq Sent'
      BY <1>7 DEF Sent, SentTo
    <2>2. last \in DOMAIN sent'[o]
      BY <1>1, <1>4, <1>6 DEF last
    <2>3. e \in Sent'
      BY <1>1, <1>6, <2>2 DEF Sent, SentTo
    <2>4. ASSUME NEW f \in Sent' PROVE f \in Sent \cup {e}
      <3>1. PICK u \in User : f \in {sent'[u][i] : i \in DOMAIN sent'[u]}
        BY <2>4 DEF Sent, SentTo
      <3>2. PICK i \in DOMAIN sent'[u] : f = sent'[u][i]
        BY <3>1
      <3> QED
        BY <1>7, <1>8, <3>2 DEF Sent, SentTo
    <2> QED
      BY <2>1, <2>3, <2>4
  <1>11. Known'
    BY <1>3, <1>10 DEF OrderInv, Known
  <1>12. OwnRows'
    BY <1>3 DEF OrderInv, OwnRows, Subject
  <1>13. ASSUME NEW u \in User PROVE InOrder(u)'
    <2>1. SUFFICES ASSUME orderly'[u] PROVE \E n \in 0 .. Len(sent'[u]) : HandledUpTo(u, n)'
      BY DEF InOrder
    <2>2. PICK n \in 0 .. Len(sent[u]) : HandledUpTo(u, n)
      BY <2>1 DEF OrderInv, InOrder
    <2>3. n \in 0 .. Len(sent'[u])
      <3>1. CASE u # o
        BY <1>6, <3>1
      <3>2. CASE u = o
        BY <1>4, <1>6, <3>2 DEF last
      <3> QED
        BY <3>1, <3>2
    <2>4. e \notin processed
      BY <1>5 DEF OrderInv, Known
    <2>5. Handled(u)' = Handled(u)
      BY <1>3, <1>7, <1>8, <2>4 DEF Handled
    <2>6. n >= 1 => n \in DOMAIN sent[u]
      BY <1>4
    <2>7. HandledUpTo(u, n)'
      BY <1>3, <1>7, <2>2, <2>5, <2>6 DEF HandledUpTo, Inserted, Subject
    <2> QED
      BY <2>3, <2>7
  <1> QED
    BY <1>4, <1>6, <1>9, <1>10, <1>11, <1>12, <1>13 DEF e, o, last

(* A second checkout beside an active subscription ends the order.         *)
LEMMA SubscribeOrdered ==
  ASSUME BillingInv, OrderInv, NEW s \in Sub, Subscribe(s)
  PROVE  OrderInv'
  <1> DEFINE o == Owner[s]
             alone == \A t \in Sub : Owner[t] = o => ~ Active(t)
             last == Len(sent[o]) + 1
  <1>1. /\ Emit("completed", s) /\ "completed" \in Kind /\ <<"completed", s>> \notin Sent
        /\ UNCHANGED <<tables, pc, event, loaded>> /\ o \in User
        /\ orderly' = [orderly EXCEPT ![o] = orderly[o] /\ alone]
    BY BillingAssumption DEF Subscribe, Kind
  <1>2. /\ orderly' \in [User -> BOOLEAN]
        /\ \A u \in User : orderly'[u] => orderly[u]
        /\ orderly'[o] => alone
    <2>1. (orderly[o] /\ alone) \in BOOLEAN
      OBVIOUS
    <2> HIDE DEF o, alone
    <2> QED
      BY <1>1, <2>1, Zenon DEF OrderInv
  <1>3. /\ SentOnce' /\ Known' /\ OwnRows' /\ \A u \in User : InOrder(u)'
        /\ Sent' = Sent \cup {<<"completed", s>>}
        /\ \A u \in User : u # o => sent'[u] = sent[u]
        /\ Len(sent[o]) \in Nat /\ DOMAIN sent[o] = 1 .. Len(sent[o])
        /\ DOMAIN sent'[o] = 1 .. last /\ Len(sent'[o]) = last
        /\ sent'[o][last] = <<"completed", s>>
        /\ \A i \in 1 .. Len(sent[o]) : sent'[o][i] = sent[o][i]
    BY <1>1, <1>2, EmitOrdered
  <1>4. \A t \in Sub : t # s => (Active(t)' <=> Active(t))
    BY <1>3 DEF Active
  <1> HIDE DEF o, last
  <1>5. ASSUME NEW u \in User PROVE OneAtATime(u)'
    <2>1. CASE u # o
      BY <1>2, <1>3, <1>4, <2>1 DEF OrderInv, OneAtATime, o
    <2>2. CASE u = o /\ orderly'[o]
      <3>1. ASSUME NEW t \in Sub, NEW i \in DOMAIN sent'[o], sent'[o][i] = <<"deleted", t>>
            PROVE  i - 1 \in DOMAIN sent'[o] /\ sent'[o][i - 1] = <<"completed", t>>
        <4>1. i \in 1 .. Len(sent[o])
          BY <1>3, <3>1 DEF last
        <4>2. sent[o][i] = <<"deleted", t>> /\ i \in DOMAIN sent[o]
          BY <1>3, <3>1, <4>1
        <4>3. i - 1 \in DOMAIN sent[o] /\ sent[o][i - 1] = <<"completed", t>>
          BY <1>1, <1>2, <2>2, <4>2 DEF OrderInv, OneAtATime
        <4>4. DOMAIN sent[o] \subseteq DOMAIN sent'[o]
          BY <1>3 DEF last
        <4> QED
          BY <1>3, <4>3, <4>4
      <3>2. ASSUME NEW t \in Sub, Owner[t] = o, Active(t)'
            PROVE  last \in DOMAIN sent'[o] /\ sent'[o][last] = <<"completed", t>>
        <4>1. t = s
          BY <1>2, <1>4, <2>2, <3>2
        <4>2. last \in 1 .. last
          BY <1>3 DEF last
        <4> QED
          BY <1>3, <4>1, <4>2
      <3> QED
        BY <1>3, <2>2, <3>1, <3>2 DEF OneAtATime
    <2>3. CASE u = o /\ ~ orderly'[o]
      BY <2>3 DEF OneAtATime
    <2> QED
      BY <2>1, <2>2, <2>3
  <1> QED
    BY <1>2, <1>3, <1>5 DEF OrderInv

(* The subscription that ends is the one that began last.                  *)
LEMMA EndSubscriptionOrdered ==
  ASSUME BillingInv, OrderInv, NEW s \in Sub, EndSubscription(s)
  PROVE  OrderInv'
  <1> DEFINE o == Owner[s]  last == Len(sent[o]) + 1
  <1>1. /\ Emit("deleted", s) /\ "deleted" \in Kind /\ <<"deleted", s>> \notin Sent
        /\ UNCHANGED <<tables, pc, event, loaded>> /\ o \in User
        /\ orderly' = orderly /\ Active(s)
    BY BillingAssumption DEF EndSubscription, Kind, Active
  <1>2. /\ SentOnce' /\ Known' /\ OwnRows' /\ \A u \in User : InOrder(u)'
        /\ Sent' = Sent \cup {<<"deleted", s>>}
        /\ \A u \in User : u # o => sent'[u] = sent[u]
        /\ Len(sent[o]) \in Nat /\ DOMAIN sent[o] = 1 .. Len(sent[o])
        /\ DOMAIN sent'[o] = 1 .. last /\ Len(sent'[o]) = last
        /\ sent'[o][last] = <<"deleted", s>>
        /\ \A i \in 1 .. Len(sent[o]) : sent'[o][i] = sent[o][i]
    BY <1>1, EmitOrdered
  <1>3. /\ \A t \in Sub : t # s => (Active(t)' <=> Active(t))
        /\ ~ Active(s)'
    BY <1>2 DEF Active
  <1> HIDE DEF o, last
  <1>4. ASSUME NEW u \in User PROVE OneAtATime(u)'
    <2>1. CASE u # o
      BY <1>1, <1>2, <1>3, <2>1 DEF OrderInv, OneAtATime, o
    <2>2. CASE u = o /\ orderly[o]
      <3>0. Len(sent[o]) \in DOMAIN sent[o] /\ sent[o][Len(sent[o])] = <<"completed", s>>
        BY <1>1, <2>2 DEF OrderInv, OneAtATime, o
      <3>1. ASSUME NEW t \in Sub, NEW i \in DOMAIN sent'[o], sent'[o][i] = <<"deleted", t>>
            PROVE  i - 1 \in DOMAIN sent'[o] /\ sent'[o][i - 1] = <<"completed", t>>
        <4>1. DOMAIN sent[o] \subseteq DOMAIN sent'[o]
          BY <1>2 DEF last
        <4>2. CASE i \in 1 .. Len(sent[o])
          <5>1. sent[o][i] = <<"deleted", t>> /\ i \in DOMAIN sent[o]
            BY <1>2, <3>1, <4>2
          <5>2. i - 1 \in DOMAIN sent[o] /\ sent[o][i - 1] = <<"completed", t>>
            BY <1>1, <2>2, <5>1 DEF OrderInv, OneAtATime
          <5> QED
            BY <1>2, <4>1, <5>2
        <4>3. CASE i = last
          <5>1. t = s /\ i - 1 = Len(sent[o])
            BY <1>2, <3>1, <4>3 DEF last
          <5> QED
            BY <1>2, <3>0, <4>1, <5>1
        <4> QED
          BY <1>2, <4>2, <4>3 DEF last
      <3>2. ASSUME NEW t \in Sub, Owner[t] = o, Active(t)' PROVE FALSE
        <4>1. t # s /\ Active(t)
          BY <1>3, <3>2
        <4>2. sent[o][Len(sent[o])] = <<"completed", t>>
          BY <1>1, <2>2, <3>2, <4>1 DEF OrderInv, OneAtATime
        <4> QED
          BY <3>0, <4>1, <4>2
      <3> QED
        BY <2>2, <3>1, <3>2 DEF OneAtATime
    <2>3. CASE u = o /\ ~ orderly[o]
      BY <1>1, <2>3 DEF OneAtATime
    <2> QED
      BY <2>1, <2>2, <2>3
  <1> QED
    BY <1>1, <1>2, <1>4 DEF OrderInv

(* Every step of Next keeps the order.                                     *)
LEMMA OrderStep == BillingInv /\ OrderInv /\ [Next]_vars => OrderInv'
  <1> SUFFICES ASSUME BillingInv, OrderInv, [Next]_vars PROVE OrderInv'
    OBVIOUS
  <1>1. ASSUME NEW s \in Sub, Subscribe(s) \/ EndSubscription(s) PROVE OrderInv'
    BY <1>1, SubscribeOrdered, EndSubscriptionOrdered
  <1>2. ASSUME NEW d \in Delivery, Receive(d) PROVE OrderInv'
    <2>1. PICK e \in Sent : event' = [event EXCEPT ![d] = e]
      BY <1>2 DEF Receive
    <2>2. /\ UNCHANGED <<sent, processed, users, loaded, orderly>>
          /\ pc' = [pc EXCEPT ![d] = "insert"] /\ pc[d] = "idle"
      BY <1>2 DEF Receive, Goto, tables, stripeVars
    <2>3. /\ \A c \in Delivery : c # d =>
               pc'[c] = pc[c] /\ event'[c] = event[c] /\ loaded'[c] = loaded[c]
          /\ pc'[d] = "insert" /\ event'[d] = e
      BY <2>1, <2>2 DEF BillingInv, TablesTyped
    <2>4. loaded'[d].who = None
      BY <2>2 DEF OrderInv, OwnRows
    <2> QED
      BY <2>2, <2>3, <2>4, IdleOrdered
  <1>3. ASSUME NEW d \in Delivery, Answer(d) PROVE OrderInv'
    <2>1. /\ UNCHANGED <<sent, processed, users, loaded, orderly>>
          /\ pc' = [pc EXCEPT ![d] = "idle"] /\ pc[d] = "answer"
          /\ event' = [event EXCEPT ![d] = None]
      BY <1>3 DEF Answer, Goto, tables, stripeVars
    <2>2. /\ \A c \in Delivery : c # d =>
               pc'[c] = pc[c] /\ event'[c] = event[c] /\ loaded'[c] = loaded[c]
          /\ pc'[d] = "idle"
      BY <2>1 DEF BillingInv, TablesTyped
    <2>3. loaded'[d].who = None
      BY <2>1 DEF OrderInv, OwnRows
    <2> QED
      BY <2>1, <2>2, <2>3, IdleOrdered
  <1>4. ASSUME NEW d \in Delivery, Die(d) PROVE OrderInv'
    <2>1. /\ UNCHANGED <<sent, processed, users, orderly>>
          /\ pc' = [pc EXCEPT ![d] = "idle"] /\ event' = [event EXCEPT ![d] = None]
          /\ loaded' = [loaded EXCEPT ![d] = NoUser]
      BY <1>4 DEF Die, Goto, tables, stripeVars
    <2>2. /\ \A c \in Delivery : c # d =>
               pc'[c] = pc[c] /\ event'[c] = event[c] /\ loaded'[c] = loaded[c]
          /\ pc'[d] = "idle" /\ loaded'[d].who = None
      BY <2>1 DEF BillingInv, TablesTyped, NoUser
    <2> QED
      BY <2>1, <2>2, IdleOrdered
  <1>5. ASSUME NEW d \in Delivery, InsertEvent(d) \/ FindUser(d) \/ Flush(d) \/ Commit(d)
        PROVE  OrderInv'
    BY <1>5, InsertEventOrdered, FindUserOrdered, FlushOrdered, CommitOrdered
  <1>6. CASE (\E u \in User : Cancel(u)) \/ UNCHANGED vars
    <2>1. UNCHANGED <<sent, processed, users, pc, event, loaded, orderly>>
      BY <1>6 DEF Cancel, vars
    <2>2. /\ Sent' = Sent /\ SentOnce'
          /\ \A u \in User : OneAtATime(u)'
      BY <2>1, NothingSent
    <2>3. Known' /\ OwnRows'
      BY <2>1, <2>2 DEF OrderInv, Known, OwnRows, Subject
    <2>4. ASSUME NEW u \in User PROVE InOrder(u)'
      <3>1. \A n : HandledUpTo(u, n) => HandledUpTo(u, n)'
        BY <2>1 DEF HandledUpTo, Handled, Inserted, Subject
      <3> QED
        BY <2>1, <3>1 DEF OrderInv, InOrder
    <2> QED
      BY <2>1, <2>2, <2>3, <2>4 DEF OrderInv
  <1> QED
    BY <1>1, <1>2, <1>3, <1>4, <1>5, <1>6 DEF Next, Statement

(* A user who has one subscription at a time and whose events come in      *)
(* order has, at every moment, exactly what the last handled event says,   *)
(* through duplicates, overlapping deliveries, crashes and whatever        *)
(* happens to other users (stripe_webhook).                                *)
THEOREM OrderlyUsersGetTheirTier == Spec => []OrderlyEventsSetTier
  <1>1. ASSUME BillingInv, OrderInv PROVE OrderlyEventsSetTier
    <2>1. SUFFICES ASSUME NEW u \in User, orderly[u], Handled(u) # {},
                          NEW k, k = CHOOSE i \in Handled(u) : \A j \in Handled(u) : j <= i
                   PROVE  users[u] = IF sent[u][k][1] = "deleted" THEN FreeRow
                                     ELSE [tier |-> TierOf[sent[u][k][2]], sub |-> sent[u][k][2]]
      BY DEF OrderlyEventsSetTier
    <2>2. PICK n \in 0 .. Len(sent[u]) : HandledUpTo(u, n)
      BY <1>1, <2>1 DEF OrderInv, InOrder
    <2>3. sent[u] \in Seq(Event)
      BY <1>1 DEF BillingInv, TablesTyped
    <2>4. n \in Nat /\ Handled(u) = 1 .. n /\ n >= 1
      <3>1. n \in Nat /\ Handled(u) = 1 .. n
        BY <2>2, <2>3 DEF HandledUpTo
      <3> QED
        BY <2>1, <3>1
    <2>5. k = n
      <3>1. n \in Handled(u) /\ \A j \in Handled(u) : j <= n
        BY <2>4
      <3>2. k \in Handled(u) /\ \A j \in Handled(u) : j <= k
        BY <2>1, <3>1
      <3> QED
        BY <2>4, <3>1, <3>2
    <2>6. users[u] = Wanted(sent[u][n]) /\ sent[u][n][1] \in Kind
      <3>1. n \in 1 .. Len(sent[u])
        BY <2>2, <2>4
      <3>2. sent[u][n] \in Event
        BY <2>3, <3>1
      <3> QED
        BY <2>2, <2>4, <3>2, EventParts DEF HandledUpTo
    <2> QED
      BY <2>5, <2>6 DEF Wanted, Kind
  <1> QED
    BY <1>1, InitOrdered, OrderStep, BillingInvariant, PTL DEF Spec
================================================================================
