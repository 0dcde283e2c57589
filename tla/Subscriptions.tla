---------------------------- MODULE Subscriptions ----------------------------
(***************************************************************************)
(* The subscriptions of one project (services/config): the checkout at     *)
(* Stripe, the webhooks that book and update a subscription, the credits   *)
(* they give, and the daily worker that warns the owner of an expired      *)
(* subscription and finally frees the project's storage.  (The worker that *)
(* makes RPC rows inactive on the day they expire is left out.)            *)
(*                                                                         *)
(* Stripe delivers an event until it is handled, in any order and possibly *)
(* twice; two deliveries may be handled at the same time, each in a        *)
(* transaction of its own.  A day passes only between two invocations.     *)
(***************************************************************************)
EXTENDS Naturals, FiniteSets

CONSTANTS
    Checkouts,    \* the Stripe subscriptions the owner may pay for
    Packages,     \* the subscription packages, a higher number is a better one
    Rpc,          \* the RPC plan, which may be held beside another package
    Hooks,        \* slots for concurrent invocations of the webhook
    Levels,       \* the ages, in days, at which a warning is sent
    Window,       \* days an expired subscription stays in the worker's query
    Period,       \* days a payment lasts
    Limits        \* bounds: a behaviour keeps to one of these, see limits

ASSUME SubscriptionsAssumption ==
    /\ Packages \subseteq Nat \ {0} /\ Hooks \subseteq Nat
    /\ Levels \in SUBSET (Nat \ {0}) /\ Levels # {} /\ IsFiniteSet(Levels)
    /\ {Window, Period} \subseteq Nat
    /\ Limits \subseteq [checkouts : SUBSET Checkouts, packages : SUBSET Packages,
                         hooks : SUBSET Hooks, days : Nat, updates : Nat,
                         rows : Nat, faults : Nat]

VARIABLES
    limits,     \* the bounds of this behaviour: the checkouts, packages and
                \* slots used, the days, the changes of a subscription at
                \* Stripe, the rows ever inserted, the failed handlers and
                \* lost answers
    now,        \* today
    stripe,     \* per checkout: what Stripe holds of it
    events,     \* the events Stripe has not yet seen acknowledged
    rows,       \* the committed rows of the subscription table
    lastId,     \* the last id the table gave out
    hooks,      \* per invocation: the event in work and what was read for it
    worker,     \* the row the daily worker has in hand
    credits,    \* the credits given: the row they refer to and its package
    booked,     \* history, per checkout: how often its purchase was booked
    applied,    \* history, per checkout: the latest event applied
    stale,      \* history: checkouts that had an event applied out of order
    raced,      \* history: a webhook wrote while another one was in work
    warned,     \* history, per checkout: the expiry last warned of
    freed,      \* history: the storage releases
    faults      \* faults so far

stripeVars == <<stripe, events>>
dbVars     == <<rows, lastId, credits>>
history    == <<booked, applied, stale, raced>>
quotaVars  == <<worker, warned, freed>>
vars == <<limits, now, stripeVars, dbVars, hooks, history, quotaVars, faults>>

NONE     == 0       \* no warning was sent yet
LAST     == CHOOSE k \in Levels : \A l \in Levels : l <= k
RELEASED == LAST + 1

Idle == [pc |-> "idle"]

-----------------------------------------------------------------------------
(* What the queries find.                                                  *)

Active(r) == r.status = "ACTIVE" /\ r.until > now

\* checkForActiveSubscription: no row of the project is active, those of the
\* RPC plan not counted.  It is asked before any package is bought, the RPC
\* plan among them.
NoneActive == \A r \in rows : Active(r) => r.package = Rpc

OfStripe(s) == {r \in rows : r.sub = s}

\* populateByStripeId: the row of a Stripe id that was created last.
Latest(s) == CHOOSE r \in OfStripe(s) : \A q \in OfStripe(s) : q.id <= r.id

\* getProjectSubscription: the package was never subscribed to before.
\* seeded fault: only an active subscription counts as a previous one
FirstActive(p) == \A r \in rows : r.package # p \/ ~Active(r)
First(p) == \A r \in rows : r.package # p

\* getExpiredSubscriptions: in the window, whatever the row's status; of the
\* project's rows the first one is kept.
Expired == {r \in rows : r.until <= now /\ now <= r.until + Window}
Lookup  == CHOOSE r \in Expired : \A q \in Expired : r.id <= q.id

Fault == faults < limits.faults /\ faults' = faults + 1

-----------------------------------------------------------------------------
(* Stripe and the owner.                                                   *)

\* The owner opens a payment page, which asks for no active subscription, for
\* a package; the page may be paid much later.
OpenCheckout(s, p) ==
    /\ s \in limits.checkouts /\ p \in limits.packages
    /\ stripe[s].pc = "none"
    /\ NoneActive
    /\ stripe' = [stripe EXCEPT ![s].pc = "open", ![s].package = p]
    /\ UNCHANGED <<limits, now, events, dbVars, hooks, history, quotaVars,
                   faults>>

\* What an event says: the state of the subscription and, as the one thing
\* asked of its previous attributes, that it was active until this change.
Event(s, type, st) ==
    [sub |-> s, type |-> type, package |-> st.package, until |-> st.until,
     ended |-> st.ended, seq |-> st.seq]

Pay(s) ==
    /\ stripe[s].pc = "open"
    /\ LET st == [stripe[s] EXCEPT !.pc = "paid", !.until = now + Period]
       IN  /\ stripe' = [stripe EXCEPT ![s] = st]
           /\ events' = events \cup {Event(s, "completed", st)}
    /\ UNCHANGED <<limits, now, dbVars, hooks, history, quotaVars, faults>>

\* Stripe changes a paid subscription and sends the event of it.
Change(s, st) ==
    /\ stripe[s].pc = "paid"
    /\ stripe[s].seq < limits.updates
    /\ LET new == [st EXCEPT !.ended = ~stripe[s].over /\ st.over,
                             !.seq = stripe[s].seq + 1]
       IN  /\ stripe' = [stripe EXCEPT ![s] = new]
           /\ events' = events \cup {Event(s, "updated", new)}
    /\ UNCHANGED <<limits, now, dbVars, hooks, history, quotaVars, faults>>

\* Its next period begins, whether it is paid for or overdue.
Renew(s) ==
    /\ stripe[s].until <= now
    /\ Change(s, [stripe[s] EXCEPT !.until = now + Period])

\* The owner moves to another package, whatever the status.
ChangePlan(s, p) ==
    /\ p \in limits.packages \ {stripe[s].package}
    /\ Change(s, [stripe[s] EXCEPT !.package = p])

\* A payment fails and it is no longer active; an overdue one is paid and it is
\* active again; or something else of it changes: past_due becomes unpaid, the
\* owner cancels it at the end of the period.
Turn(s, over) == Change(s, [stripe[s] EXCEPT !.over = over])

-----------------------------------------------------------------------------
(* The webhook: stripeWebhookEventHandler and what it calls.               *)

Busy(h) == hooks[h].pc # "idle"

\* An invocation takes the first slot that is free.
Slot(h) == /\ h \in limits.hooks /\ ~Busy(h)
           /\ \A g \in Hooks : g < h => Busy(g)

Raced(h) == raced' = (raced \/ \E g \in Hooks \ {h} : Busy(g))

\* The answer reaches Stripe, or is lost and the event is sent again.
Acknowledge(e) ==
    \/ events' = events \ {e} /\ UNCHANGED faults
    \/ UNCHANGED events /\ Fault

\* The history of an event that is applied.
Note(e) ==
    /\ stale' = IF e.seq < applied[e.sub] THEN stale \cup {e.sub} ELSE stale
    /\ applied' = [applied EXCEPT ![e.sub] = IF e.seq > @ THEN e.seq ELSE @]

\* AUTO_INCREMENT: an id is given out once, even if its row is rolled back.
\* seeded fault: the id is counted from the rows that are committed
NextIdCommitted == Cardinality(rows) + 1
NextId == lastId + 1

\* handleSubscriptionPurchase: no subscription is active; the expiry is read
\* from Stripe; the row is inserted, still uncommitted.  Whether the package is
\* new to the project was read just before, on another connection.
Begin(h, e) ==
    /\ Slot(h)
    /\ e \in events /\ e.type = "completed"
    /\ NoneActive
    /\ lastId < limits.rows
    /\ lastId' = NextId
    /\ hooks' = [hooks EXCEPT ![h] =
         [pc |-> "inserted", event |-> e, first |-> First(e.package),
          row |-> [id |-> NextId, sub |-> e.sub, package |-> e.package,
                   until |-> stripe[e.sub].until, status |-> "ACTIVE",
                   level |-> NONE]]]
    /\ UNCHANGED <<limits, now, stripeVars, rows, credits, history, quotaVars,
                   faults>>

\* addCredit is called without the connection of the transaction: the credits
\* of a first subscription are committed on their own.
Credit(h) ==
    /\ hooks[h].pc = "inserted" /\ hooks[h].first
    /\ credits' = credits \cup {[ref     |-> hooks[h].row.id,
                                 package |-> hooks[h].row.package]}
    /\ hooks' = [hooks EXCEPT ![h].pc = "credited"]
    /\ UNCHANGED <<limits, now, stripeVars, rows, lastId, history, quotaVars,
                   faults>>

\* The invoice is inserted and the transaction committed.
Book(h) ==
    /\ \/ hooks[h].pc = "credited"
       \/ hooks[h].pc = "inserted" /\ ~hooks[h].first
    /\ rows' = rows \cup {hooks[h].row}
    /\ Acknowledge(hooks[h].event)
    /\ booked' = [booked EXCEPT ![hooks[h].row.sub] = @ + 1]
    /\ Note(hooks[h].event)
    /\ Raced(h)
    /\ hooks' = [hooks EXCEPT ![h] = Idle]
    /\ UNCHANGED <<limits, now, stripe, lastId, credits, quotaVars>>

\* updateSubscription reads the latest row of the Stripe id; where there is
\* none it throws, and Stripe sends the event again.
Read(h, e) ==
    /\ Slot(h)
    /\ e \in events /\ e.type = "updated"
    /\ OfStripe(e.sub) # {}
    /\ hooks' = [hooks EXCEPT ![h] =
                   [pc |-> "read", event |-> e, row |-> Latest(e.sub)]]
    /\ UNCHANGED <<limits, now, stripeVars, dbVars, history, quotaVars, faults>>

Put(old, seen) == (rows \ {old}) \cup {seen}
Stored(id)     == CHOOSE r \in rows : r.id = id

\* The expiry an update carries: a subscription that was active until this
\* change of its status is over as of now.  A later change of one that is not
\* active carries the end of its period again.
\* seeded fault: the end of the period, whatever the status
ExpiryPeriod(e) == e.until
Expiry(e) == IF e.ended THEN now ELSE e.until

\* The same package: the row is written back whole, with the new expiry and
\* everything else as it was read.
SaveSame(row, e) ==
    /\ row.package = e.package
    /\ rows' = Put(Stored(row.id), [row EXCEPT !.until = Expiry(e)])
    /\ UNCHANGED <<lastId, credits>>

\* seeded fault: the row of the old package stays active
RetireNot(row) == row
Retire(row) == [row EXCEPT !.status = "INACTIVE"]

\* Another package: a copy of the row is inserted for it and the row becomes
\* inactive; an upgrade to a package that is new to the project gives credits,
\* in the same transaction.
SavePackage(row, e) ==
    /\ row.package # e.package
    /\ lastId < limits.rows
    /\ lastId' = NextId
    /\ LET new == [row EXCEPT !.until = Expiry(e)]
       IN  rows' = Put(Stored(row.id), Retire(new))
                     \cup {[new EXCEPT !.id = NextId, !.package = e.package]}
    /\ credits' = IF e.package > row.package /\ First(e.package)
                    THEN credits \cup {[ref |-> NextId, package |-> e.package]}
                    ELSE credits

Save(h) ==
    /\ hooks[h].pc = "read"
    /\ LET e   == hooks[h].event
           row == hooks[h].row
       IN  /\ SaveSame(row, e) \/ SavePackage(row, e)
           /\ Acknowledge(e)
           /\ Note(e)
    /\ Raced(h)
    /\ hooks' = [hooks EXCEPT ![h] = Idle]
    /\ UNCHANGED <<limits, now, stripe, booked, quotaVars>>

\* seeded fault: a failed handler answers that the event was handled
AbortAcknowledged(h) ==
    /\ Busy(h)
    /\ Fault
    /\ hooks' = [hooks EXCEPT ![h] = Idle]
    /\ events' = events \ {hooks[h].event}
    /\ UNCHANGED <<limits, now, stripe, dbVars, history, quotaVars>>
\* A handler fails or its process dies: its transaction is rolled back, the
\* credits committed beside it are not, and the event is not acknowledged.
Abort(h) ==
    /\ Busy(h)
    /\ Fault
    /\ hooks' = [hooks EXCEPT ![h] = Idle]
    /\ UNCHANGED <<limits, now, stripeVars, dbVars, history, quotaVars>>

-----------------------------------------------------------------------------
(* ExpiredSubscriptionsWorker, once or more often a day.                   *)

Due(row) == {k \in Levels : k > row.level /\ row.until + k <= now}

\* After the last warning the storage is freed, at the next pass.
\* seeded fault: any warning will do
ReleasableWarned(row) == row.level \in Levels
Releasable(row) == row.level = LAST

\* The first expired row of the project is read.  The worker goes on with it
\* if the project's storage is over its quota, which it may be or not, and if
\* there is something to do for its age and level.
Look ==
    /\ worker.pc = "idle"
    /\ Expired # {}
    /\ Due(Lookup) # {} \/ Releasable(Lookup)
    /\ worker' = [pc |-> "seen", row |-> Lookup]
    /\ UNCHANGED <<limits, now, stripeVars, dbVars, hooks, history, warned,
                   freed, faults>>

\* updateQuotaWarningLevel: every row of the Stripe id.
SetLevel(s, k) ==
    rows' = {IF r.sub = s THEN [r EXCEPT !.level = k] ELSE r : r \in rows}

\* The lowest warning that is due and was not sent yet.
Warn ==
    /\ worker.pc = "seen"
    /\ LET row == worker.row
           due == Due(row)
       IN  /\ due # {}
           /\ SetLevel(row.sub, CHOOSE k \in due : \A l \in due : k <= l)
           /\ warned' = [warned EXCEPT ![row.sub] = row.until]
    /\ worker' = Idle
    /\ UNCHANGED <<limits, now, stripeVars, lastId, credits, hooks, history,
                   freed, faults>>

Release ==
    /\ worker.pc = "seen"
    /\ LET row == worker.row
       IN  /\ Due(row) = {} /\ Releasable(row)
           /\ SetLevel(row.sub, RELEASED)
           /\ freed' = freed \cup {[age |-> now - row.until,
                                    renewed |-> warned[row.sub] # row.until]}
    /\ worker' = Idle
    /\ UNCHANGED <<limits, now, stripeVars, lastId, credits, hooks, history,
                   warned, faults>>

Tick ==
    /\ now < limits.days
    /\ \A h \in Hooks : ~Busy(h)
    /\ worker.pc = "idle"
    /\ now' = now + 1
    /\ UNCHANGED <<limits, stripeVars, dbVars, hooks, history, quotaVars,
                   faults>>

-----------------------------------------------------------------------------
Init ==
    /\ limits \in Limits
    /\ now = 0
    /\ stripe = [s \in Checkouts |-> [pc |-> "none", package |-> 0,
                                      until |-> 0, over |-> FALSE,
                                      ended |-> FALSE, seq |-> 0]]
    /\ events = {} /\ rows = {} /\ credits = {} /\ lastId = 0
    /\ hooks = [h \in Hooks |-> Idle]
    /\ worker = Idle
    /\ booked = [s \in Checkouts |-> 0]
    /\ applied = [s \in Checkouts |-> 0]
    /\ stale = {} /\ raced = FALSE
    /\ warned = [s \in Checkouts |-> 0]
    /\ freed = {}
    /\ faults = 0

Handle(h) == \/ \E e \in events : Begin(h, e) \/ Read(h, e)
             \/ Credit(h) \/ Book(h) \/ Save(h)

Next ==
    \/ \E s \in Checkouts :
         \/ Pay(s) \/ Renew(s)
         \/ \E over \in BOOLEAN : Turn(s, over)
         \/ \E p \in Packages : OpenCheckout(s, p) \/ ChangePlan(s, p)
    \/ \E h \in Hooks : Handle(h) \/ Abort(h)
    \/ Look \/ Warn \/ Release \/ Tick

Spec == Init /\ [][Next]_vars

\* A webhook in work runs to its end, and Stripe delivers an event until it is
\* acknowledged.
FairSpec == Spec /\ \A h \in Hooks : WF_vars(Handle(h))

-----------------------------------------------------------------------------
Row == [id : 1..limits.rows, sub : Checkouts, package : Packages,
        until : 0..(limits.days + Period), status : {"ACTIVE", "INACTIVE"},
        level : Levels \cup {NONE, RELEASED}]

StripeEvent == [sub : Checkouts, type : {"completed", "updated"},
                package : Packages, until : 0..(limits.days + Period),
                ended : BOOLEAN, seq : 0..limits.updates]

\* Types, and the key of the table: an id names one row, a row in an open
\* transaction has an id that no stored row has.
TypeOK ==
    /\ limits \in Limits
    /\ now \in 0..limits.days /\ lastId \in 0..limits.rows /\ faults \in 0..limits.faults
    /\ \A s \in Checkouts :
         stripe[s] \in [pc : {"none", "open", "paid"},
                        package : Packages \cup {0},
                        until : 0..(limits.days + Period),
                        over : BOOLEAN, ended : BOOLEAN, seq : 0..limits.updates]
    /\ events \subseteq StripeEvent
    /\ rows \subseteq Row
    /\ credits \subseteq [ref : 1..limits.rows, package : Packages]
    /\ worker.pc \in {"idle", "seen"}
    /\ \A r, q \in rows : r.id = q.id => r = q
    /\ \A h \in Hooks :
         hooks[h].pc \in {"inserted", "credited"} =>
           \A r \in rows : r.id # hooks[h].row.id

\* The credits of a package are given to a project for its first subscription
\* only: of the credits given for a package at most one refer to a row that
\* exists, unless two webhooks were handled at the same time.  (The credits of
\* a purchase that was rolled back refer to no row; they stay, and the purchase
\* Stripe sends again gives them a second time.)
CreditsOnce ==
    raced \/ \A p \in Packages :
      Cardinality({c \in credits : /\ c.package = p
                                   /\ \E r \in rows : r.id = c.ref}) <= 1

\* A Stripe subscription has as many active rows as its purchase was booked,
\* however often its package was changed, unless two webhooks were handled at
\* the same time.
OneRowPerPurchase ==
    raced \/ \A s \in Checkouts :
      Cardinality({r \in OfStripe(s) : r.status = "ACTIVE"}) <= booked[s]

\* When every event of a booked subscription was handled, in the order Stripe
\* sent them and one at a time, the latest row says what the last of them says:
\* the package, and the end of the period, or an expiry that is past if that
\* event ended the subscription.  (A subscription that is not active and is
\* changed again has the end of its period as the expiry of its row.)
UpToDate ==
    \A s \in Checkouts :
      /\ OfStripe(s) # {} /\ ~raced /\ s \notin stale
      /\ \A e \in events : e.sub # s
      /\ \A h \in Hooks : Busy(h) => hooks[h].event.sub # s
      => /\ Latest(s).package = stripe[s].package
         /\ IF stripe[s].ended THEN Latest(s).until <= now
                               ELSE Latest(s).until = stripe[s].until

\* Storage is freed before the age of the last warning only if the expiry was
\* moved after it was warned of, or it was that of another row, since the level
\* is kept per subscription and not reset; or if two webhooks were handled at
\* the same time and one wrote back an old level.
EarlyOnlyIfExtended ==
    raced \/ \A f \in freed : f.age >= LAST \/ f.renewed

\* A paid subscription is booked in the end, unless the project has another
\* that is active (or the bound on the rows is reached).
PaidBooked ==
    \A s \in Checkouts :
      <>[](stripe[s].pc = "paid" =>
             booked[s] > 0 \/ ~NoneActive \/ lastId = limits.rows)
=============================================================================
