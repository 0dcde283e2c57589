------------------------- MODULE SubscriptionsProofs --------------------------
(***************************************************************************)
(* Proofs about Subscriptions, for any checkouts, packages, concurrent     *)
(* invocations, levels of warning and bounds.                              *)
(***************************************************************************)
EXTENDS Subscriptions, Integers, FiniteSetTheorems, WellFoundedInduction, TLAPS

-----------------------------------------------------------------------------
(* The inductive invariant, in the parts that the proofs need one by one.  *)

(* The records an invocation keeps while its transaction is open and while *)
(* it has a row to update, and the worker between two of its steps.        *)
InsertRecord == [pc : {"inserted", "credited"}, event : StripeEvent,
                 first : BOOLEAN, row : Row]
ReadRecord == [pc : {"read"}, event : StripeEvent, row : Row]
SeenRecord == [pc : {"seen"}, row : Row]
StripeRecord == [pc : {"none", "open", "paid"}, package : Packages \cup {0},
                 until : 0..(limits.days + Period), over : BOOLEAN,
                 ended : BOOLEAN, seq : 0..limits.updates]
CreditRecord == [ref : 1..limits.rows, package : Packages]
Records ==
    /\ stripe \in [Checkouts -> StripeRecord]
    /\ hooks \in [Hooks -> {Idle} \cup InsertRecord \cup ReadRecord]
    /\ worker \in {Idle} \cup SeenRecord
    /\ booked \in [Checkouts -> Nat]
    /\ applied \in [Checkouts -> Nat]
    /\ warned \in [Checkouts -> Nat]
    /\ freed \subseteq [age : Nat, renewed : BOOLEAN]

Open(h) == hooks[h].pc \in {"inserted", "credited"}
Reading(h) == hooks[h].pc = "read"

(* Ids are given out once, and the rows that are read stay. *)
Keys ==
    /\ \A r \in rows : r.id <= lastId
    /\ \A c \in credits : c.ref <= lastId
    /\ \A h \in Hooks : Open(h) => hooks[h].row.id <= lastId
    /\ \A g, h \in Hooks :
         Open(g) /\ Open(h) /\ hooks[g].row.id = hooks[h].row.id => g = h
    /\ \A h \in Hooks : Reading(h) =>
         \E r \in rows : r.id = hooks[h].row.id /\ r.sub = hooks[h].row.sub
    /\ worker.pc = "seen" =>
         /\ \E r \in rows : r.id = worker.row.id /\ r.sub = worker.row.sub
         /\ worker.row.until <= now

(* An event says what Stripe says if nothing came after it. *)
Fits(e) ==
    /\ stripe[e.sub].pc = "paid"
    /\ e.seq <= stripe[e.sub].seq
    /\ e.seq = stripe[e.sub].seq =>
         /\ e.package = stripe[e.sub].package
         /\ e.until = stripe[e.sub].until
         /\ e.ended = stripe[e.sub].ended
    /\ e.type = "completed" => e.seq = 0

(* What Stripe sends: the last change was applied or is still to come. *)
Sent ==
    \A s \in Checkouts :
      /\ stripe[s].pc # "none" => stripe[s].package \in Packages
      /\ stripe[s].pc # "paid" => stripe[s].seq = 0
      /\ stripe[s].seq = 0 => ~ stripe[s].ended
      /\ applied[s] <= stripe[s].seq
      /\ \/ stripe[s].seq <= applied[s]
         \/ \E e \in events : e.sub = s /\ e.seq = stripe[s].seq

(* What an invocation is to insert is what was paid for. *)
Purchase(h) ==
    LET row == hooks[h].row IN
    /\ hooks[h].event.type = "completed"
    /\ row.status = "ACTIVE" /\ row.level = NONE
    /\ stripe[row.sub].seq = 0 =>
         row.until = stripe[row.sub].until /\ row.package = stripe[row.sub].package
Sold ==
    /\ Sent
    /\ \A r \in rows : stripe[r.sub].pc = "paid"
    /\ \A e \in events : Fits(e)
    /\ \A h \in Hooks : Busy(h) =>
         Fits(hooks[h].event) /\ hooks[h].row.sub = hooks[h].event.sub
    /\ \A h \in Hooks : Open(h) => Purchase(h)

IsLatest(r) == r \in rows /\ \A q \in rows : q.sub = r.sub => q.id <= r.id

(* Two versions of a row that differ at most in the level. *)
Alike(q, r) == /\ q.id = r.id /\ q.sub = r.sub /\ q.package = r.package
               /\ q.until = r.until /\ q.status = r.status

(* As long as no two webhooks wrote at the same time, what an invocation   *)
(* has read of the rows is still so, but for the level.                    *)
Undisturbed ==
    /\ \A h \in Hooks : Open(h) =>
         /\ \A r \in rows : r.id < hooks[h].row.id
         /\ hooks[h].first => First(hooks[h].row.package)
         /\ hooks[h].pc = "credited" => hooks[h].first
    /\ \A h \in Hooks : Reading(h) =>
         \E r \in rows : IsLatest(r) /\ Alike(hooks[h].row, r)

(* Credits are for the package of the row they refer to, and credits for   *)
(* a package that refer to rows are the same ones.                         *)
Refers(c) == \E r \in rows : r.id = c.ref
Referred ==
    /\ \A c \in credits, r \in rows : c.ref = r.id => c.package = r.package
    /\ \A c \in credits, h \in Hooks : Open(h) /\ c.ref = hooks[h].row.id =>
         c.package = hooks[h].row.package /\ hooks[h].first
    /\ \A c, d \in credits :
         c.package = d.package /\ Refers(c) /\ Refers(d) => c = d

ActiveRows(s) == {r \in OfStripe(s) : r.status = "ACTIVE"}
Counted == \A s \in Checkouts : Cardinality(ActiveRows(s)) <= booked[s]

(* The latest row of a subscription says what the last change said. *)
Matches(r, st) == /\ r.package = st.package
                  /\ IF st.ended THEN r.until <= now ELSE r.until = st.until
Current ==
    \A r \in rows :
      IsLatest(r) /\ r.sub \notin stale /\ applied[r.sub] = stripe[r.sub].seq
        => Matches(r, stripe[r.sub])

(* A later row of a subscription has no higher level than an earlier one,  *)
(* nor has what an invocation has read; and once a row says that the last  *)
(* warning was sent, the expiry warned of is that old.                     *)
Copies == {hooks[h].row : h \in {g \in Hooks : Reading(g)}}
Seen == IF worker.pc = "seen" THEN {worker.row} ELSE {}
Lower ==
    /\ \A q, r \in rows : q.sub = r.sub /\ q.id <= r.id => r.level <= q.level
    /\ \A c \in Copies, r \in rows : r.sub = c.sub => c.level <= r.level
    /\ \A w \in Seen, r \in rows :
         r.sub = w.sub /\ w.id <= r.id => r.level <= w.level
    /\ \A w \in Seen, c \in Copies : c.sub = w.sub => c.level <= w.level
Overdue ==
    \A r \in rows \cup Copies \cup Seen :
      r.level = LAST => warned[r.sub] + LAST <= now

Calm == Undisturbed /\ Referred /\ Counted /\ Current /\ Lower /\ Overdue

IInv == /\ TypeOK /\ Records /\ Keys /\ Sold
        /\ EarlyOnlyIfExtended
        /\ raced \/ Calm

-----------------------------------------------------------------------------
(* Sets of naturals: the smallest and, of what is bounded, the largest     *)
(* member; so the CHOOSEs of the queries and of LAST choose one.           *)

LEMMA LargestFinite ==
  ASSUME NEW S, S \subseteq Nat, S # {}, IsFiniteSet(S)
  PROVE  \E m \in S : \A k \in S : k <= m
<1> DEFINE Max(T) == \E m \in T : \A k \in T : k <= m
           Bad == {T \in SUBSET S : T # {} /\ ~ Max(T)}
           R == StrictSubsetOrdering(S)
<1>1. IsWellFoundedOn(R, FiniteSubsetsOf(S))
  BY FS_StrictSubsetOrderingWellFounded
<1>2. Bad \subseteq FiniteSubsetsOf(S)
  BY FS_Subset DEF FiniteSubsetsOf
<1>3. SUFFICES ASSUME Bad # {} PROVE FALSE
  OBVIOUS
<1>4. \A T, U \in SUBSET S : T \subseteq U /\ T # U => <<T, U>> \in R
  BY DEF StrictSubsetOrdering
<1> HIDE DEF R
<1> HIDE DEF Bad
<1>5. PICK T \in Bad : \A U \in Bad : ~ (<<U, T>> \in R)
  BY <1>1, <1>2, <1>3, WFMin
<1> USE DEF Bad
<1>6. PICK x \in T : TRUE
  OBVIOUS
<1>7. T \ {x} \in SUBSET S /\ T \ {x} # T /\ T \ {x} \notin Bad
  BY <1>4, <1>5, <1>6
<1>8. CASE T = {x}
  BY <1>5, <1>8
<1>9. CASE T # {x}
  <2>1. PICK m \in T \ {x} : \A k \in T \ {x} : k <= m
    BY <1>6, <1>7, <1>9
  <2>2. m <= x \/ x <= m
    BY <1>5
  <2>3. Max(T)
    BY <1>5, <2>1, <2>2
  <2> QED BY <1>5, <2>3
<1> QED BY <1>8, <1>9

LEMMA Largest ==
  ASSUME NEW S, S \subseteq Nat, S # {}, NEW n \in Nat, \A k \in S : k <= n
  PROVE  \E m \in S : \A k \in S : k <= m
<1>1. IsFiniteSet(S)
  BY FS_BoundedSetOfNaturals
<1> QED BY <1>1, LargestFinite

LEMMA Smallest ==
  ASSUME NEW S, S \subseteq Nat, S # {}
  PROVE  \E m \in S : \A k \in S : m <= k
<1>1. PICK n \in S : TRUE
  OBVIOUS
<1> n \in Nat
  BY <1>1
<1> DEFINE T == {j \in 0..n : n - j \in S}
<1>2. 0 \in T
  BY <1>1
<1>3. T \subseteq Nat /\ T # {} /\ \A j \in T : j <= n
  BY <1>2
<1> HIDE DEF T
<1>4. PICK j \in T : \A k \in T : k <= j
  BY <1>3, Largest
<1> USE DEF T
<1>5. n - j \in S /\ j \in Nat /\ j <= n
  BY <1>4
<1>6. ASSUME NEW k \in S
      PROVE  n - j <= k
  <2>1. k \in Nat
    BY <1>6
  <2>2. CASE k <= n
    <3>1. n - k \in 0..n /\ n - (n - k) = k
      BY <2>1, <2>2
    <3>2. n - k \in T
      BY <3>1, <1>6
    <3>3. n - k <= j
      BY <1>4, <3>2
    <3> QED BY <1>5, <2>1, <3>3
  <2>3. CASE ~ (k <= n)
    BY <1>5, <2>1, <2>3
  <2> QED BY <2>2, <2>3
<1> QED BY <1>5, <1>6

-----------------------------------------------------------------------------
(* What the CHOOSEs find. *)

LEMMA Last ==
    /\ LAST \in Levels /\ LAST \in Nat \ {0}
    /\ \A k \in Levels : k \in Nat \ {0} /\ k <= LAST
    /\ RELEASED \in Nat /\ \A k \in Levels \cup {NONE, RELEASED} : k \in Nat /\ k <= RELEASED
    /\ NONE # LAST /\ RELEASED # LAST /\ NONE \in Nat
<1>1. Levels \subseteq Nat \ {0} /\ Levels # {} /\ IsFiniteSet(Levels)
  BY SubscriptionsAssumption
<1>2. \E m \in Levels : \A k \in Levels : k <= m
  BY <1>1, LargestFinite
<1>3. LAST \in Levels /\ \A k \in Levels : k <= LAST
  BY <1>2 DEF LAST
<1> HIDE DEF LAST
<1> QED BY <1>1, <1>3 DEF RELEASED, NONE

LEMMA Bounds ==
  ASSUME limits \in Limits
  PROVE  /\ limits.days \in Nat /\ limits.updates \in Nat /\ limits.rows \in Nat
         /\ limits.faults \in Nat /\ Period \in Nat /\ Window \in Nat
BY SubscriptionsAssumption

LEMMA Rows ==
  ASSUME limits \in Limits, NEW r \in Row
  PROVE  /\ r.id \in Nat /\ r.id \in 1..limits.rows /\ r.sub \in Checkouts
         /\ r.package \in Packages /\ r.until \in Nat
         /\ r.until \in 0..(limits.days + Period)
         /\ r.status \in {"ACTIVE", "INACTIVE"}
         /\ r.level \in Levels \cup {NONE, RELEASED} /\ r.level \in Nat
<1>1. /\ r.id \in 1..limits.rows /\ r.sub \in Checkouts /\ r.package \in Packages
      /\ r.until \in 0..(limits.days + Period) /\ r.status \in {"ACTIVE", "INACTIVE"}
      /\ r.level \in Levels \cup {NONE, RELEASED}
  BY DEF Row
<1>2. r.level \in Nat
  BY <1>1, Last
<1> QED BY <1>1, <1>2, Bounds

LEMMA LatestIs ==
  ASSUME limits \in Limits, rows \subseteq Row, \A q, r \in rows : q.id = r.id => q = r,
         NEW s, OfStripe(s) # {}
  PROVE  IsLatest(Latest(s)) /\ Latest(s).sub = s
<1> DEFINE Ids == {n \in Nat : \E r \in OfStripe(s) : r.id = n}
<1>1. \A r \in OfStripe(s) : r \in Row /\ r.id \in Nat /\ r.id <= limits.rows
  BY Rows, Bounds DEF OfStripe
<1>2. Ids \subseteq Nat /\ Ids # {} /\ \A n \in Ids : n <= limits.rows
  BY <1>1
<1> HIDE DEF Ids
<1>3. PICK m \in Ids : \A k \in Ids : k <= m
  BY <1>2, Largest, Bounds
<1>4. \E r \in OfStripe(s) : \A q \in OfStripe(s) : q.id <= r.id
  BY <1>1, <1>3 DEF Ids
<1>5. Latest(s) \in OfStripe(s) /\ \A q \in OfStripe(s) : q.id <= Latest(s).id
  BY <1>4 DEF Latest
<1> QED BY <1>5 DEF IsLatest, OfStripe

LEMMA LookupIs ==
  ASSUME limits \in Limits, rows \subseteq Row, Expired # {}
  PROVE  Lookup \in Expired /\ Lookup \in rows
<1> DEFINE Ids == {n \in Nat : \E r \in Expired : r.id = n}
<1>1. \A r \in Expired : r \in Row /\ r.id \in Nat
  BY Rows DEF Expired
<1>2. Ids \subseteq Nat /\ Ids # {}
  BY <1>1
<1> HIDE DEF Ids
<1>3. PICK m \in Ids : \A k \in Ids : m <= k
  BY <1>2, Smallest
<1>4. \E r \in Expired : \A q \in Expired : r.id <= q.id
  BY <1>1, <1>3 DEF Ids
<1>5. Lookup \in Expired
  BY <1>4 DEF Lookup
<1> QED BY <1>5 DEF Expired

LEMMA FirstDue ==
  ASSUME NEW row, Due(row) # {}
  PROVE  LET k == CHOOSE k \in Due(row) : \A l \in Due(row) : k <= l
         IN  k \in Due(row)
<1> Due(row) \subseteq Nat
  BY SubscriptionsAssumption DEF Due
<1>1. \E k \in Due(row) : \A l \in Due(row) : k <= l
  BY Smallest
<1> QED BY <1>1

LEMMA StoredIs ==
  ASSUME NEW id, \E r \in rows : r.id = id
  PROVE  Stored(id) \in rows /\ Stored(id).id = id
BY DEF Stored

-----------------------------------------------------------------------------
(* The records that the actions make. *)

LEMMA Rewritten ==
  ASSUME limits \in Limits, NEW r \in Row, NEW x \in 0..(limits.days + Period)
  PROVE  LET q == [r EXCEPT !.until = x] IN
         /\ q \in Row
         /\ q.id = r.id /\ q.sub = r.sub /\ q.package = r.package
         /\ q.until = x /\ q.status = r.status /\ q.level = r.level
BY DEF Row

LEMMA Retired ==
  ASSUME NEW r \in Row
  PROVE  LET q == Retire(r) IN
         /\ q \in Row
         /\ q.id = r.id /\ q.sub = r.sub /\ q.package = r.package
         /\ q.until = r.until /\ q.status = "INACTIVE" /\ q.level = r.level
BY DEF Row, Retire

LEMMA Releveled ==
  ASSUME NEW r \in Row, NEW k \in Levels \cup {NONE, RELEASED}
  PROVE  LET q == [r EXCEPT !.level = k] IN
         /\ q \in Row
         /\ q.id = r.id /\ q.sub = r.sub /\ q.package = r.package
         /\ q.until = r.until /\ q.status = r.status /\ q.level = k
BY DEF Row

LEMMA IdleIs ==
    /\ Idle.pc = "idle"
    /\ Idle \notin InsertRecord /\ Idle \notin ReadRecord /\ Idle \notin SeenRecord
<1>1. Idle.pc = "idle"
  BY DEF Idle
<1>2. \A r \in InsertRecord : r.pc # "idle"
  BY DEF InsertRecord
<1>3. \A r \in ReadRecord : r.pc # "idle"
  BY DEF ReadRecord
<1>4. \A r \in SeenRecord : r.pc # "idle"
  BY DEF SeenRecord
<1> HIDE DEF Idle
<1> QED BY <1>1, <1>2, <1>3, <1>4

(* What is known of an invocation by its label. *)
LEMMA HookParts ==
  ASSUME Records, NEW h \in Hooks
  PROVE  /\ Open(h) <=> hooks[h] \in InsertRecord
         /\ Reading(h) <=> hooks[h] \in ReadRecord
         /\ Busy(h) <=> Open(h) \/ Reading(h)
         /\ ~ (Open(h) /\ Reading(h))
         /\ Busy(h) => hooks[h].event \in StripeEvent /\ hooks[h].row \in Row
         /\ ~ Busy(h) => hooks[h] = Idle
<1>1. hooks[h] \in {Idle} \cup InsertRecord \cup ReadRecord
  BY DEF Records
<1>2. ASSUME hooks[h] \in InsertRecord
      PROVE  /\ hooks[h].pc \in {"inserted", "credited"}
             /\ hooks[h].event \in StripeEvent /\ hooks[h].row \in Row
  BY <1>2 DEF InsertRecord
<1>3. ASSUME hooks[h] \in ReadRecord
      PROVE  /\ hooks[h].pc = "read"
             /\ hooks[h].event \in StripeEvent /\ hooks[h].row \in Row
  BY <1>3 DEF ReadRecord
<1>4. hooks[h] = Idle => hooks[h].pc = "idle"
  BY IdleIs
<1> QED BY <1>1, <1>2, <1>3, <1>4 DEF Open, Reading, Busy

LEMMA WorkerParts ==
  ASSUME Records
  PROVE  /\ worker.pc \in {"idle", "seen"}
         /\ worker.pc = "seen" => worker.row \in Row
<1>1. worker = Idle => worker.pc = "idle"
  BY IdleIs
<1>2. worker \in SeenRecord => worker.pc = "seen" /\ worker.row \in Row
  BY DEF SeenRecord
<1> QED BY <1>1, <1>2 DEF Records

LEMMA Events ==
  ASSUME limits \in Limits, NEW e \in StripeEvent
  PROVE  /\ e.sub \in Checkouts /\ e.type \in {"completed", "updated"}
         /\ e.package \in Packages /\ e.until \in 0..(limits.days + Period)
         /\ e.until \in Nat /\ e.ended \in BOOLEAN
         /\ e.seq \in 0..limits.updates /\ e.seq \in Nat
BY Bounds DEF StripeEvent

LEMMA Subscribed ==
  ASSUME limits \in Limits, Records, NEW s \in Checkouts
  PROVE  /\ stripe[s] \in StripeRecord
         /\ stripe[s].pc \in {"none", "open", "paid"}
         /\ stripe[s].package \in Packages \cup {0}
         /\ stripe[s].until \in 0..(limits.days + Period) /\ stripe[s].until \in Nat
         /\ stripe[s].over \in BOOLEAN /\ stripe[s].ended \in BOOLEAN
         /\ stripe[s].seq \in 0..limits.updates /\ stripe[s].seq \in Nat
BY Bounds DEF Records, StripeRecord

LEMMA SameTypes ==
  ASSUME UNCHANGED limits
  PROVE  /\ Row' = Row /\ StripeEvent' = StripeEvent /\ StripeRecord' = StripeRecord
         /\ InsertRecord' = InsertRecord /\ ReadRecord' = ReadRecord
         /\ SeenRecord' = SeenRecord /\ CreditRecord' = CreditRecord
BY DEF Row, StripeEvent, StripeRecord, InsertRecord, ReadRecord, SeenRecord,
       CreditRecord

-----------------------------------------------------------------------------
(* What the actions make of the invocations and of the table. *)

Others(h) == \A g \in Hooks : g # h => hooks'[g] = hooks[g]
HooksTyped == hooks \in [Hooks -> {Idle} \cup InsertRecord \cup ReadRecord]

NewRow(e) == [id |-> NextId, sub |-> e.sub, package |-> e.package,
              until |-> stripe[e.sub].until, status |-> "ACTIVE", level |-> NONE]
Inserted(e) == [pc |-> "inserted", event |-> e, first |-> First(e.package),
                row |-> NewRow(e)]

LEMMA NewRowIs ==
  ASSUME TypeOK, Records, NEW e \in events, lastId < limits.rows
  PROVE  /\ NewRow(e) \in Row
         /\ NewRow(e).id = lastId + 1 /\ NewRow(e).sub = e.sub
         /\ NewRow(e).package = e.package
         /\ NewRow(e).until = stripe[e.sub].until
         /\ NewRow(e).status = "ACTIVE" /\ NewRow(e).level = NONE
<1>1. limits \in Limits /\ e \in StripeEvent /\ lastId \in 0..limits.rows
  BY DEF TypeOK
<1>2. lastId + 1 \in 1..limits.rows
  BY <1>1, Bounds
<1>3. /\ e.sub \in Checkouts /\ e.package \in Packages
      /\ stripe[e.sub].until \in 0..(limits.days + Period)
  BY <1>1, Events, Subscribed
<1> QED BY <1>2, <1>3 DEF NewRow, Row, NextId

LEMMA InsertedIs ==
  ASSUME TypeOK, Records, NEW e \in events, lastId < limits.rows
  PROVE  /\ Inserted(e) \in InsertRecord
         /\ Inserted(e).pc = "inserted" /\ Inserted(e).event = e
         /\ Inserted(e).first = First(e.package) /\ Inserted(e).row = NewRow(e)
<1>1. e \in StripeEvent
  BY DEF TypeOK
<1>2. First(e.package) \in BOOLEAN
  BY DEF First
<1>3. NewRow(e) \in Row
  BY NewRowIs
<1> QED BY <1>1, <1>2, <1>3 DEF Inserted, InsertRecord

LEMMA BeginIs ==
  ASSUME TypeOK, Records, NEW h \in Hooks, NEW e \in events, Begin(h, e)
  PROVE  /\ ~ Busy(h) /\ Others(h) /\ HooksTyped'
         /\ hooks'[h] = Inserted(e) /\ lastId < limits.rows /\ lastId' = lastId + 1
<1>1. UNCHANGED limits /\ lastId < limits.rows /\ ~ Busy(h) /\ lastId' = lastId + 1
  BY DEF Begin, Slot, NextId
<1>2. hooks' = [hooks EXCEPT ![h] = Inserted(e)]
  BY DEF Begin, Inserted, NewRow
<1>3. Inserted(e) \in InsertRecord
  BY <1>1, InsertedIs
<1>4. hooks \in [Hooks -> {Idle} \cup InsertRecord \cup ReadRecord]
  BY DEF Records
<1>5. InsertRecord' = InsertRecord /\ ReadRecord' = ReadRecord
  BY <1>1, SameTypes
<1>6. hooks' \in [Hooks -> {Idle} \cup InsertRecord \cup ReadRecord]
  BY <1>2, <1>3, <1>4
<1>7. Idle' = Idle
  BY DEF Idle
<1>8. HooksTyped'
  BY <1>5, <1>6, <1>7 DEF HooksTyped
<1> QED BY <1>1, <1>2, <1>4, <1>8 DEF Others

LEMMA CreditIs ==
  ASSUME TypeOK, Records, NEW h \in Hooks, Credit(h)
  PROVE  /\ Open(h) /\ hooks[h].first /\ Others(h) /\ HooksTyped'
         /\ hooks'[h] \in InsertRecord /\ hooks'[h].pc = "credited"
         /\ hooks'[h].event = hooks[h].event /\ hooks'[h].row = hooks[h].row
         /\ hooks'[h].first = hooks[h].first
<1>1. UNCHANGED limits /\ Open(h) /\ hooks[h].first
  BY DEF Credit, Open
<1>2. hooks' = [hooks EXCEPT ![h].pc = "credited"]
  BY DEF Credit
<1>3. hooks[h] \in InsertRecord
  BY <1>1, HookParts
<1>4. hooks \in [Hooks -> {Idle} \cup InsertRecord \cup ReadRecord]
  BY DEF Records
<1>5. hooks'[h] = [hooks[h] EXCEPT !.pc = "credited"] /\ Others(h)
  BY <1>2, <1>4 DEF Others
<1>6. /\ hooks'[h] \in InsertRecord /\ hooks'[h].pc = "credited"
      /\ hooks'[h].event = hooks[h].event /\ hooks'[h].row = hooks[h].row
      /\ hooks'[h].first = hooks[h].first
  BY <1>3, <1>5 DEF InsertRecord
<1>7. hooks' \in [Hooks -> {Idle} \cup InsertRecord \cup ReadRecord]
  <2>1. [hooks[h] EXCEPT !.pc = "credited"] \in InsertRecord
    BY <1>5, <1>6
  <2> QED BY <1>2, <1>4, <2>1
<1>8. Idle' = Idle /\ InsertRecord' = InsertRecord /\ ReadRecord' = ReadRecord
  BY <1>1, SameTypes DEF Idle
<1>9. HooksTyped'
  BY <1>7, <1>8 DEF HooksTyped
<1> QED BY <1>1, <1>5, <1>6, <1>9

LEMMA ReadIs ==
  ASSUME TypeOK, Records, NEW h \in Hooks, NEW e \in events, Read(h, e)
  PROVE  /\ ~ Busy(h) /\ Others(h) /\ HooksTyped'
         /\ hooks'[h] \in ReadRecord /\ hooks'[h].pc = "read"
         /\ hooks'[h].event = e /\ hooks'[h].row = Latest(e.sub)
         /\ IsLatest(Latest(e.sub)) /\ Latest(e.sub).sub = e.sub
         /\ Latest(e.sub) \in Row
<1> DEFINE q == [pc |-> "read", event |-> e, row |-> Latest(e.sub)]
<1>1. UNCHANGED limits /\ ~ Busy(h) /\ OfStripe(e.sub) # {}
  BY DEF Read, Slot
<1>2. hooks' = [hooks EXCEPT ![h] = q]
  BY DEF Read
<1>3. IsLatest(Latest(e.sub)) /\ Latest(e.sub).sub = e.sub
  BY <1>1, LatestIs DEF TypeOK
<1>4. Latest(e.sub) \in Row /\ e \in StripeEvent
  BY <1>3 DEF IsLatest, TypeOK
<1>5. q \in ReadRecord /\ q.pc = "read" /\ q.event = e /\ q.row = Latest(e.sub)
  BY <1>4 DEF ReadRecord
<1> HIDE DEF q
<1>6. hooks \in [Hooks -> {Idle} \cup InsertRecord \cup ReadRecord]
  BY DEF Records
<1>7. hooks' \in [Hooks -> {Idle} \cup InsertRecord \cup ReadRecord]
  BY <1>2, <1>5, <1>6
<1>8. Idle' = Idle /\ InsertRecord' = InsertRecord /\ ReadRecord' = ReadRecord
  BY <1>1, SameTypes DEF Idle
<1>9. HooksTyped'
  BY <1>7, <1>8 DEF HooksTyped
<1>10. hooks'[h] = q /\ Others(h)
  BY <1>2, <1>6 DEF Others
<1> QED BY <1>1, <1>3, <1>4, <1>5, <1>9, <1>10

LEMMA ClearIs ==
  ASSUME Records, NEW h \in Hooks, hooks' = [hooks EXCEPT ![h] = Idle],
         UNCHANGED limits
  PROVE  hooks'[h] = Idle /\ ~ Busy(h)' /\ Others(h) /\ HooksTyped'
<1>1. hooks \in [Hooks -> {Idle} \cup InsertRecord \cup ReadRecord]
  BY DEF Records
<1>2. hooks'[h] = Idle /\ Others(h)
  BY <1>1 DEF Others
<1>3. hooks' \in [Hooks -> {Idle} \cup InsertRecord \cup ReadRecord]
  BY <1>1
<1>4. Idle' = Idle /\ InsertRecord' = InsertRecord /\ ReadRecord' = ReadRecord
  BY SameTypes DEF Idle
<1>5. HooksTyped'
  BY <1>3, <1>4 DEF HooksTyped
<1>6. ~ Busy(h)'
  BY <1>2, IdleIs DEF Busy
<1> QED BY <1>2, <1>5, <1>6


(* What an update writes: the row it has read, and perhaps a copy of it. *)
Kept(h) == {r \in rows : r.id # hooks[h].row.id}
Written(h, seen) ==
    LET row == hooks[h].row IN
    /\ seen \in Row
    /\ seen.id = row.id /\ seen.sub = row.sub /\ seen.package = row.package
    /\ seen.until = Expiry(hooks[h].event) /\ seen.level = row.level
CopyOf(h, copy) ==
    LET row == hooks[h].row
        e == hooks[h].event IN
    /\ copy \in Row
    /\ copy.id = lastId + 1 /\ copy.sub = row.sub /\ copy.package = e.package
    /\ copy.until = Expiry(e) /\ copy.status = row.status /\ copy.level = row.level
Rewrites(h, seen) ==
    /\ Written(h, seen)
    /\ seen.status = hooks[h].row.status
    /\ hooks[h].row.package = hooks[h].event.package
    /\ rows' = Kept(h) \cup {seen}
    /\ UNCHANGED <<lastId, credits>>
Replaces(h, seen, copy) ==
    LET p == hooks[h].event.package IN
    /\ Written(h, seen) /\ CopyOf(h, copy)
    /\ seen.status = "INACTIVE"
    /\ rows' = Kept(h) \cup {seen, copy}
    /\ lastId < limits.rows /\ lastId' = lastId + 1
    /\ \/ UNCHANGED credits
       \/ First(p) /\ credits' = credits \cup {[ref |-> lastId + 1, package |-> p]}

LEMMA ExpiryIs ==
  ASSUME TypeOK, NEW e \in StripeEvent
  PROVE  Expiry(e) \in 0..(limits.days + Period)
<1>1. limits \in Limits /\ now \in 0..limits.days
  BY DEF TypeOK
<1> QED BY <1>1, Bounds, Events DEF Expiry

LEMMA SaveIs ==
  ASSUME TypeOK, Records, Keys, NEW h \in Hooks, Save(h)
  PROVE  /\ Reading(h) /\ UNCHANGED <<limits, now, stripe, booked, quotaVars>>
         /\ hooks' = [hooks EXCEPT ![h] = Idle]
         /\ Acknowledge(hooks[h].event) /\ Note(hooks[h].event) /\ Raced(h)
         /\ \E seen \in Row :
              Rewrites(h, seen) \/ \E copy \in Row : Replaces(h, seen, copy)
<1> DEFINE row == hooks[h].row
           e == hooks[h].event
           x == Expiry(e)
           new == [row EXCEPT !.until = x]
<1>1. /\ Reading(h) /\ UNCHANGED <<limits, now, stripe, booked, quotaVars>>
      /\ hooks' = [hooks EXCEPT ![h] = Idle]
      /\ Acknowledge(e) /\ Note(e) /\ Raced(h)
      /\ SaveSame(row, e) \/ SavePackage(row, e)
  BY DEF Save, Reading
<1>2. row \in Row /\ e \in StripeEvent /\ limits \in Limits
  BY <1>1, HookParts DEF TypeOK
<1>3. x \in 0..(limits.days + Period)
  BY <1>2, ExpiryIs
<1> HIDE DEF x
<1>4. /\ new \in Row
      /\ new.id = row.id /\ new.sub = row.sub /\ new.package = row.package
      /\ new.until = x /\ new.status = row.status /\ new.level = row.level
  BY <1>2, <1>3, Rewritten
<1> HIDE DEF new
<1>5. /\ Stored(row.id) \in rows /\ Stored(row.id).id = row.id
  <2>1. \E r \in rows : r.id = row.id
    BY <1>1 DEF Keys
  <2> QED BY <2>1, StoredIs
<1>6. \A seen : Put(Stored(row.id), seen) = Kept(h) \cup {seen}
  BY <1>5 DEF Put, Kept, TypeOK
<1>7. CASE SaveSame(row, e)
  <2>1. rows' = Kept(h) \cup {new}
    BY <1>6, <1>7 DEF SaveSame, new, x
  <2>2. Rewrites(h, new)
    BY <1>4, <1>7, <2>1 DEF Rewrites, Written, SaveSame, x
  <2> QED BY <1>1, <1>4, <2>2
<1>8. CASE SavePackage(row, e)
  <2> DEFINE seen == Retire(new)
             copy == [new EXCEPT !.id = NextId, !.package = e.package]
  <2>1. lastId < limits.rows /\ lastId' = lastId + 1 /\ NextId = lastId + 1
    BY <1>8 DEF SavePackage, NextId
  <2>2. /\ seen \in Row
        /\ seen.id = row.id /\ seen.sub = row.sub /\ seen.package = row.package
        /\ seen.until = x /\ seen.status = "INACTIVE" /\ seen.level = row.level
    BY <1>4, Retired
  <2>3. NextId \in 1..limits.rows /\ e.package \in Packages
    BY <1>2, <2>1, Bounds, Events DEF TypeOK
  <2>4. /\ copy \in Row
        /\ copy.id = NextId /\ copy.sub = row.sub /\ copy.package = e.package
        /\ copy.until = x /\ copy.status = row.status /\ copy.level = row.level
    <3>1. /\ copy \in Row
          /\ copy.id = NextId /\ copy.sub = new.sub /\ copy.package = e.package
          /\ copy.until = new.until /\ copy.status = new.status
          /\ copy.level = new.level
      <4>1. new \in Row
        BY <1>4
      <4> HIDE DEF row, e
      <4> QED BY <2>3, <4>1 DEF Row
    <3> HIDE DEF copy
    <3> QED BY <1>4, <3>1
  <2>5. rows' = Put(Stored(row.id), seen) \cup {copy}
    BY <1>8 DEF SavePackage, new, x
  <2>6. \/ UNCHANGED credits
        \/ /\ First(e.package)
           /\ credits' = credits \cup {[ref |-> lastId + 1, package |-> e.package]}
    BY <1>8, <2>1 DEF SavePackage
  <2> HIDE DEF seen, copy
  <2>7. rows' = Kept(h) \cup {seen, copy}
    BY <1>6, <2>5
  <2>8. Replaces(h, seen, copy)
    BY <2>1, <2>2, <2>4, <2>6, <2>7 DEF Replaces, Written, CopyOf, x
  <2> QED BY <1>1, <2>2, <2>4, <2>8
<1> QED BY <1>1, <1>7, <1>8

(* Warnings and releases change the level of the rows of one subscription. *)
Leveled(r, s, k) == IF r.sub = s THEN [r EXCEPT !.level = k] ELSE r

LEMMA LeveledIs ==
  ASSUME NEW r \in Row, NEW s, NEW k \in Levels \cup {NONE, RELEASED}
  PROVE  LET q == Leveled(r, s, k) IN
         /\ q \in Row
         /\ q.id = r.id /\ q.sub = r.sub /\ q.package = r.package
         /\ q.until = r.until /\ q.status = r.status
         /\ q.level = IF r.sub = s THEN k ELSE r.level
BY Releveled DEF Leveled

LEMMA SetLevelIs ==
  ASSUME rows \subseteq Row, NEW s, NEW k \in Levels \cup {NONE, RELEASED},
         SetLevel(s, k)
  PROVE  /\ rows' \subseteq Row
         /\ \A r \in rows : Leveled(r, s, k) \in rows'
         /\ \A q \in rows' : \E r \in rows : q = Leveled(r, s, k)
<1>1. rows' = {Leveled(r, s, k) : r \in rows}
  BY DEF SetLevel, Leveled
<1> QED BY <1>1, LeveledIs

LEMMA WarnIs ==
  ASSUME TypeOK, Records, Warn
  PROVE  /\ worker.pc = "seen" /\ worker.row \in Row /\ worker' = Idle
         /\ warned' = [warned EXCEPT ![worker.row.sub] = worker.row.until]
         /\ UNCHANGED <<limits, now, stripeVars, lastId, credits, hooks, history,
                        freed, faults>>
         /\ \E k \in Levels : /\ SetLevel(worker.row.sub, k)
                              /\ k > worker.row.level
                              /\ worker.row.until + k <= now
<1>1. /\ worker.pc = "seen" /\ worker' = Idle /\ Due(worker.row) # {}
      /\ warned' = [warned EXCEPT ![worker.row.sub] = worker.row.until]
      /\ UNCHANGED <<limits, now, stripeVars, lastId, credits, hooks, history,
                     freed, faults>>
      /\ SetLevel(worker.row.sub,
           CHOOSE k \in Due(worker.row) : \A l \in Due(worker.row) : k <= l)
  BY DEF Warn
<1>2. PICK k \in Due(worker.row) : SetLevel(worker.row.sub, k)
  BY <1>1, FirstDue
<1> QED BY <1>1, <1>2, WorkerParts DEF Due

LEMMA ReleaseIs ==
  ASSUME TypeOK, Records, Release
  PROVE  /\ worker.pc = "seen" /\ worker.row \in Row /\ worker' = Idle
         /\ worker.row.level = LAST
         /\ UNCHANGED <<limits, now, stripeVars, lastId, credits, hooks, history,
                        warned, faults>>
         /\ SetLevel(worker.row.sub, RELEASED)
         /\ freed' = freed \cup
              {[age |-> now - worker.row.until,
                renewed |-> warned[worker.row.sub] # worker.row.until]}
BY WorkerParts DEF Release, Releasable

LEMMA LookIs ==
  ASSUME TypeOK, Records, Look
  PROVE  /\ worker.pc = "idle" /\ worker'.pc = "seen" /\ worker'.row = Lookup
         /\ worker' \in SeenRecord
         /\ Lookup \in rows /\ Lookup \in Row
         /\ Lookup.until <= now
         /\ UNCHANGED <<limits, now, stripeVars, dbVars, hooks, history, warned,
                        freed, faults>>
<1>1. /\ worker.pc = "idle" /\ Expired # {}
      /\ worker' = [pc |-> "seen", row |-> Lookup]
      /\ UNCHANGED <<limits, now, stripeVars, dbVars, hooks, history, warned,
                     freed, faults>>
  BY DEF Look
<1>2. Lookup \in Expired /\ Lookup \in rows /\ Lookup \in Row
  BY <1>1, LookupIs DEF TypeOK
<1>3. Lookup.until <= now
  BY <1>2 DEF Expired
<1> QED BY <1>1, <1>2, <1>3 DEF SeenRecord


(* What Stripe and the owner do to one subscription. *)
Sale(s) == \/ Pay(s) \/ Renew(s)
           \/ \E over \in BOOLEAN : Turn(s, over)
           \/ \E p \in Packages : OpenCheckout(s, p) \/ ChangePlan(s, p)

Opened(s, st) == /\ stripe[s].pc = "none" /\ st.pc = "open"
                 /\ st.seq = stripe[s].seq /\ st.ended = stripe[s].ended
                 /\ UNCHANGED events
Paid(s, st) == /\ stripe[s].pc = "open" /\ st.pc = "paid"
               /\ st.seq = stripe[s].seq /\ st.ended = stripe[s].ended
               /\ events' = events \cup {Event(s, "completed", st)}
Changed(s, st) == /\ stripe[s].pc = "paid" /\ st.pc = "paid"
                  /\ st.seq = stripe[s].seq + 1
                  /\ events' = events \cup {Event(s, "updated", st)}

LEMMA EventIs ==
  ASSUME NEW s \in Checkouts, NEW type \in {"completed", "updated"},
         NEW st \in StripeRecord, st.package \in Packages
  PROVE  /\ Event(s, type, st) \in StripeEvent
         /\ Event(s, type, st).sub = s /\ Event(s, type, st).type = type
         /\ Event(s, type, st).package = st.package
         /\ Event(s, type, st).until = st.until
         /\ Event(s, type, st).ended = st.ended /\ Event(s, type, st).seq = st.seq
BY DEF Event, StripeEvent, StripeRecord

LEMMA ChangeIs ==
  ASSUME TypeOK, Records, NEW s \in Checkouts,
         NEW st \in StripeRecord, st.package \in Packages, st.pc = stripe[s].pc,
         st.seq = stripe[s].seq, Change(s, st)
  PROVE  /\ UNCHANGED <<limits, now, dbVars, hooks, history, quotaVars, faults>>
         /\ \E new \in StripeRecord :
              /\ new.package \in Packages
              /\ stripe' = [stripe EXCEPT ![s] = new]
              /\ Changed(s, new)
<1> DEFINE ended == ~ stripe[s].over /\ st.over
           new == [st EXCEPT !.ended = ended, !.seq = stripe[s].seq + 1]
<1>1. /\ stripe[s].pc = "paid" /\ stripe[s].seq < limits.updates
      /\ stripe' = [stripe EXCEPT ![s] = new]
      /\ events' = events \cup {Event(s, "updated", new)}
      /\ UNCHANGED <<limits, now, dbVars, hooks, history, quotaVars, faults>>
  BY DEF Change
<1>2. stripe[s].seq + 1 \in 0..limits.updates
  BY <1>1, Subscribed, Bounds DEF TypeOK
<1> ended \in BOOLEAN
  OBVIOUS
<1> HIDE DEF ended
<1>3. /\ new \in StripeRecord /\ new.package = st.package /\ new.pc = st.pc
      /\ new.seq = stripe[s].seq + 1
  BY <1>2 DEF StripeRecord
<1> HIDE DEF new
<1> QED BY <1>1, <1>3 DEF Changed

LEMMA SaleIs ==
  ASSUME TypeOK, Records, Sent, NEW s \in Checkouts, Sale(s)
  PROVE  /\ UNCHANGED <<limits, now, dbVars, hooks, history, quotaVars, faults>>
         /\ \E st \in StripeRecord :
              /\ st.package \in Packages
              /\ stripe' = [stripe EXCEPT ![s] = st]
              /\ Opened(s, st) \/ Paid(s, st) \/ Changed(s, st)
<1>1. /\ limits \in Limits /\ stripe[s] \in StripeRecord
      /\ stripe \in [Checkouts -> StripeRecord]
  BY Subscribed DEF TypeOK, Records
<1>2. now + Period \in 0..(limits.days + Period)
  BY <1>1, Bounds DEF TypeOK
<1>3. stripe[s].pc # "none" => stripe[s].package \in Packages
  BY DEF Sent
<1>4. CASE \E p \in Packages : OpenCheckout(s, p)
  <2>1. PICK p \in Packages : OpenCheckout(s, p)
    BY <1>4
  <2> DEFINE st == [stripe[s] EXCEPT !.pc = "open", !.package = p]
  <2>2. /\ st \in StripeRecord /\ st.pc = "open" /\ st.package = p
        /\ st.seq = stripe[s].seq /\ st.ended = stripe[s].ended
    BY <1>1 DEF StripeRecord
  <2>3. stripe' = [stripe EXCEPT ![s] = st]
    BY <1>1, <2>1 DEF OpenCheckout
  <2>4. /\ stripe[s].pc = "none" /\ UNCHANGED events
        /\ UNCHANGED <<limits, now, dbVars, hooks, history, quotaVars, faults>>
    BY <2>1 DEF OpenCheckout
  <2> HIDE DEF st
  <2> QED BY <2>2, <2>3, <2>4 DEF Opened
<1>5. CASE Pay(s)
  <2> DEFINE st == [stripe[s] EXCEPT !.pc = "paid", !.until = now + Period]
  <2>1. /\ st \in StripeRecord /\ st.pc = "paid" /\ st.package = stripe[s].package
        /\ st.seq = stripe[s].seq /\ st.ended = stripe[s].ended
    BY <1>1, <1>2 DEF StripeRecord
  <2>2. /\ stripe' = [stripe EXCEPT ![s] = st] /\ stripe[s].pc = "open"
        /\ events' = events \cup {Event(s, "completed", st)}
        /\ UNCHANGED <<limits, now, dbVars, hooks, history, quotaVars, faults>>
    BY <1>5 DEF Pay
  <2> HIDE DEF st
  <2> QED BY <1>3, <2>1, <2>2 DEF Paid
<1>6. CASE Renew(s)
  <2> DEFINE st == [stripe[s] EXCEPT !.until = now + Period]
  <2>1. /\ st \in StripeRecord /\ st.pc = stripe[s].pc /\ st.seq = stripe[s].seq
        /\ st.package = stripe[s].package
    BY <1>1, <1>2 DEF StripeRecord
  <2>2. Change(s, st) /\ stripe[s].pc = "paid"
    BY <1>6 DEF Renew, Change
  <2> HIDE DEF st
  <2> QED BY <1>3, <2>1, <2>2, ChangeIs
<1>7. CASE \E over \in BOOLEAN : Turn(s, over)
  <2>0. PICK over \in BOOLEAN : Turn(s, over)
    BY <1>7
  <2> DEFINE st == [stripe[s] EXCEPT !.over = over]
  <2>1. /\ st \in StripeRecord /\ st.pc = stripe[s].pc /\ st.seq = stripe[s].seq
        /\ st.package = stripe[s].package
    BY <1>1 DEF StripeRecord
  <2>2. Change(s, st) /\ stripe[s].pc = "paid"
    BY <2>0 DEF Turn, Change
  <2> HIDE DEF st
  <2> QED BY <1>3, <2>1, <2>2, ChangeIs
<1>8. CASE \E p \in Packages : ChangePlan(s, p)
  <2>1. PICK p \in Packages : ChangePlan(s, p)
    BY <1>8
  <2> DEFINE st == [stripe[s] EXCEPT !.package = p]
  <2>2. /\ st \in StripeRecord /\ st.pc = stripe[s].pc /\ st.seq = stripe[s].seq
        /\ st.package = p
    BY <1>1 DEF StripeRecord
  <2>3. Change(s, st)
    BY <2>1 DEF ChangePlan
  <2> HIDE DEF st
  <2> QED BY <2>2, <2>3, ChangeIs
<1> QED BY <1>4, <1>5, <1>6, <1>7, <1>8 DEF Sale

(* The steps, by what they are about. *)
Webhook(h) == \/ \E e \in events : Begin(h, e) \/ Read(h, e)
              \/ Credit(h) \/ Book(h) \/ Save(h) \/ Abort(h)

LEMMA NextCases ==
  ASSUME Next
  PROVE  \/ \E s \in Checkouts : Sale(s)
         \/ \E h \in Hooks : Webhook(h)
         \/ Look \/ Warn \/ Release \/ Tick
BY DEF Next, Sale, Webhook, Handle


LEMMA BookIs ==
  ASSUME Records, NEW h \in Hooks, Book(h)
  PROVE  /\ Open(h) /\ hooks[h].row \in Row /\ hooks[h].event \in StripeEvent
         /\ hooks[h].pc = "credited" \/ ~ hooks[h].first
         /\ rows' = rows \cup {hooks[h].row}
         /\ Acknowledge(hooks[h].event) /\ Note(hooks[h].event) /\ Raced(h)
         /\ booked' = [booked EXCEPT ![hooks[h].row.sub] = @ + 1]
         /\ hooks' = [hooks EXCEPT ![h] = Idle]
         /\ UNCHANGED <<limits, now, stripe, lastId, credits, quotaVars>>
<1>1. Open(h) /\ (hooks[h].pc = "credited" \/ ~ hooks[h].first)
  BY DEF Book, Open
<1>2. hooks[h].row \in Row /\ hooks[h].event \in StripeEvent
  BY <1>1, HookParts
<1> QED BY <1>1, <1>2 DEF Book

LEMMA AlmostAlone ==
  ASSUME NEW h \in Hooks, Raced(h), ~ raced'
  PROVE  ~ raced /\ \A g \in Hooks : g # h => ~ Busy(g)
BY Zenon DEF Raced

LEMMA Acknowledged ==
  ASSUME TypeOK, NEW e, Acknowledge(e), UNCHANGED limits
  PROVE  /\ events' \subseteq events /\ events \ {e} \subseteq events'
         /\ faults' \in 0..limits'.faults
BY Bounds DEF Acknowledge, Fault, TypeOK

LEMMA NoteIs ==
  ASSUME limits \in Limits, Records, NEW e \in StripeEvent, Note(e)
  PROVE  /\ applied' \in [Checkouts -> Nat]
         /\ applied'[e.sub] = applied[e.sub] \/ applied'[e.sub] = e.seq
         /\ applied[e.sub] <= applied'[e.sub] /\ e.seq <= applied'[e.sub]
         /\ \A s \in Checkouts : s # e.sub => applied'[s] = applied[s]
         /\ stale \subseteq stale'
         /\ e.seq < applied[e.sub] => e.sub \in stale'
<1>1. e.sub \in Checkouts /\ e.seq \in Nat /\ applied \in [Checkouts -> Nat]
  BY Events DEF Records
<1>2. /\ stale' = IF e.seq < applied[e.sub] THEN stale \cup {e.sub} ELSE stale
      /\ applied' = [applied EXCEPT ![e.sub] =
                       IF e.seq > applied[e.sub] THEN e.seq ELSE applied[e.sub]]
  BY DEF Note
<1> QED BY <1>1, <1>2

-----------------------------------------------------------------------------
(* Types *)

Scalars == /\ limits \in Limits /\ now \in 0..limits.days
           /\ lastId \in 0..limits.rows /\ faults \in 0..limits.faults
           /\ events \subseteq StripeEvent
Table == /\ rows \subseteq Row /\ credits \subseteq CreditRecord
         /\ \A q, r \in rows : q.id = r.id => q = r
         /\ \A h \in Hooks : Open(h) => \A r \in rows : r.id # hooks[h].row.id

LEMMA TypeIs == Records => (TypeOK <=> Scalars /\ Table)
<1> SUFFICES ASSUME Records PROVE TypeOK <=> Scalars /\ Table
  OBVIOUS
<1>1. \A s \in Checkouts : stripe[s] \in StripeRecord
  BY DEF Records
<1>2. worker.pc \in {"idle", "seen"}
  BY WorkerParts
<1> QED BY <1>1, <1>2, Zenon DEF TypeOK, Scalars, Table, StripeRecord, CreditRecord, Open

LEMMA ScalarsStep ==
  ASSUME TypeOK, Records, Keys, Sent, [Next]_vars
  PROVE  Scalars' /\ UNCHANGED limits
<1>1. Scalars
  BY TypeIs
<1>2. UNCHANGED limits => StripeEvent' = StripeEvent
  BY SameTypes
<1>3. limits.days \in Nat /\ limits.rows \in Nat /\ limits.faults \in Nat
  BY <1>1, Bounds DEF Scalars
<1>4. ASSUME UNCHANGED <<limits, now, lastId, faults>>, events' \subseteq StripeEvent
      PROVE  Scalars' /\ UNCHANGED limits
  BY <1>1, <1>2, <1>4 DEF Scalars
<1>5. ASSUME NEW s \in Checkouts, Sale(s)
      PROVE  Scalars' /\ UNCHANGED limits
  <2>1. PICK st \in StripeRecord :
          /\ st.package \in Packages
          /\ Opened(s, st) \/ Paid(s, st) \/ Changed(s, st)
    BY <1>5, SaleIs
  <2>2. /\ Event(s, "completed", st) \in StripeEvent
        /\ Event(s, "updated", st) \in StripeEvent
    BY <2>1, EventIs
  <2>3. events' \subseteq StripeEvent
    BY <1>1, <2>1, <2>2 DEF Opened, Paid, Changed, Scalars
  <2>4. UNCHANGED <<limits, now, lastId, faults>>
    BY <1>5, SaleIs DEF dbVars
  <2> QED BY <1>4, <2>3, <2>4
<1>6. ASSUME NEW h \in Hooks, Webhook(h)
      PROVE  Scalars' /\ UNCHANGED limits
  <2>1. CASE \E e \in events : Begin(h, e)
    <3>1. /\ UNCHANGED <<limits, now, events, faults>>
          /\ lastId < limits.rows /\ lastId' = lastId + 1
      BY <2>1 DEF Begin, stripeVars, NextId
    <3>2. lastId' \in 0..limits.rows
      BY <1>1, <1>3, <3>1 DEF Scalars
    <3> QED BY <1>1, <1>2, <3>1, <3>2 DEF Scalars
  <2>2. CASE (\E e \in events : Read(h, e)) \/ Credit(h)
    <3>1. UNCHANGED <<limits, now, lastId, faults, events>>
      BY <2>2 DEF Read, Credit, stripeVars, dbVars
    <3> QED BY <1>1, <1>4, <3>1 DEF Scalars
  <2>3. CASE Book(h)
    <3>1. /\ UNCHANGED <<limits, now, lastId>>
          /\ events' \subseteq events /\ faults' \in 0..limits'.faults
      BY <2>3, BookIs, Acknowledged
    <3> QED BY <1>1, <1>2, <3>1 DEF Scalars
  <2>4. CASE Save(h)
    <3>1. /\ UNCHANGED <<limits, now>>
          /\ events' \subseteq events /\ faults' \in 0..limits'.faults
      BY <2>4, SaveIs, Acknowledged
    <3>2. lastId' = lastId \/ (lastId < limits.rows /\ lastId' = lastId + 1)
      BY <2>4, SaveIs DEF Rewrites, Replaces
    <3>3. lastId' \in 0..limits.rows
      BY <1>1, <1>3, <3>2 DEF Scalars
    <3> QED BY <1>1, <1>2, <3>1, <3>3 DEF Scalars
  <2>5. CASE Abort(h)
    <3>1. /\ UNCHANGED <<limits, now, lastId, events>>
          /\ faults < limits.faults /\ faults' = faults + 1
      BY <2>5 DEF Abort, Fault, stripeVars, dbVars
    <3>2. faults' \in 0..limits.faults
      BY <1>1, <1>3, <3>1 DEF Scalars
    <3> QED BY <1>1, <1>2, <3>1, <3>2 DEF Scalars
  <2> QED BY <1>6, <2>1, <2>2, <2>3, <2>4, <2>5 DEF Webhook
<1>7. CASE Look \/ Warn \/ Release
  <2>1. UNCHANGED <<limits, now, lastId, faults, events>>
    BY <1>7 DEF Look, Warn, Release, stripeVars, dbVars
  <2> QED BY <1>1, <1>4, <2>1 DEF Scalars
<1>8. CASE Tick
  <2>1. /\ UNCHANGED <<limits, lastId, faults, events>>
        /\ now < limits.days /\ now' = now + 1
    BY <1>8 DEF Tick, stripeVars, dbVars
  <2>2. now' \in 0..limits.days
    BY <1>1, <1>3, <2>1 DEF Scalars
  <2> QED BY <1>1, <1>2, <2>1, <2>2 DEF Scalars
<1>9. CASE UNCHANGED vars
  <2>1. UNCHANGED <<limits, now, lastId, faults, events>>
    BY <1>9 DEF vars, stripeVars, dbVars
  <2> QED BY <1>1, <1>4, <2>1 DEF Scalars
<1>10. CASE Next
  BY <1>5, <1>6, <1>7, <1>8, <1>10, NextCases
<1> QED BY <1>9, <1>10


LEMMA FiniteRows ==
  ASSUME TypeOK
  PROVE  IsFiniteSet(rows)
<1> DEFINE f == [r \in rows |-> r.id]
           I == 1..limits.rows
<1>1. IsFiniteSet(I)
  <2>1. 1 \in Int /\ limits.rows \in Int
    BY Bounds DEF TypeOK
  <2> QED BY <2>1, FS_Interval
<1>2. \A r \in rows : r.id \in I
  BY Rows DEF TypeOK
<1> HIDE DEF I
<1>3. f \in [rows -> I]
  BY <1>2
<1>4. \A q, r \in rows : f[q] = f[r] => q = r
  BY DEF TypeOK
<1>5. f \in Injection(rows, I)
  BY <1>3, <1>4 DEF Injection, IsInjective
<1> QED BY <1>1, <1>5, FS_Injection

LEMMA HooksStep ==
  ASSUME TypeOK, Records, Sent, Keys, [Next]_vars
  PROVE  HooksTyped'
<1>1. UNCHANGED limits
  BY ScalarsStep
<1>2. ASSUME UNCHANGED hooks
      PROVE  HooksTyped'
  <2>1. Idle' = Idle /\ InsertRecord' = InsertRecord /\ ReadRecord' = ReadRecord
    BY <1>1, SameTypes DEF Idle
  <2> QED BY <1>2, <2>1 DEF HooksTyped, Records
<1>3. ASSUME NEW h \in Hooks, Webhook(h)
      PROVE  HooksTyped'
  <2>1. CASE \E e \in events : Begin(h, e) \/ Read(h, e)
    BY <2>1, BeginIs, ReadIs
  <2>2. CASE Credit(h)
    BY <2>2, CreditIs
  <2>3. CASE Book(h) \/ Save(h) \/ Abort(h)
    <3>1. hooks' = [hooks EXCEPT ![h] = Idle]
      BY <2>3 DEF Book, Save, Abort
    <3> QED BY <1>1, <3>1, ClearIs
  <2> QED BY <1>3, <2>1, <2>2, <2>3 DEF Webhook
<1>4. ASSUME NEW s \in Checkouts, Sale(s)
      PROVE  UNCHANGED hooks
  BY <1>4, SaleIs
<1>5. Look \/ Warn \/ Release \/ Tick => UNCHANGED hooks
  BY DEF Look, Warn, Release, Tick
<1>6. CASE Next
  BY <1>2, <1>3, <1>4, <1>5, <1>6, NextCases
<1>7. CASE UNCHANGED vars
  BY <1>2, <1>7 DEF vars
<1> QED BY <1>6, <1>7

LEMMA StripeStep ==
  ASSUME TypeOK, Records, Sent, Keys, [Next]_vars
  PROVE  stripe' \in [Checkouts -> StripeRecord]
<1>1. stripe \in [Checkouts -> StripeRecord]
  BY DEF Records
<1>2. ASSUME NEW s \in Checkouts, Sale(s)
      PROVE  stripe' \in [Checkouts -> StripeRecord]
  BY <1>1, <1>2, SaleIs
<1>3. ASSUME NEW h \in Hooks, Webhook(h)
      PROVE  UNCHANGED stripe
  BY <1>3, Zenon DEF Webhook, Begin, Read, Credit, Book, Save, Abort, stripeVars
<1>4. Look \/ Warn \/ Release \/ Tick => UNCHANGED stripe
  BY DEF Look, Warn, Release, Tick, stripeVars
<1>5. CASE Next
  BY <1>1, <1>2, <1>3, <1>4, <1>5, NextCases
<1>6. CASE UNCHANGED vars
  BY <1>1, <1>6 DEF vars, stripeVars
<1> QED BY <1>5, <1>6

LEMMA WorkerStep ==
  ASSUME TypeOK, Records, Sent, Keys, [Next]_vars
  PROVE  /\ worker' \in {Idle} \cup SeenRecord
         /\ warned' \in [Checkouts -> Nat]
         /\ freed' \subseteq [age : Nat, renewed : BOOLEAN]
<1>1. /\ worker \in {Idle} \cup SeenRecord
      /\ warned \in [Checkouts -> Nat]
      /\ freed \subseteq [age : Nat, renewed : BOOLEAN]
  BY DEF Records
<1>2. ASSUME NEW s \in Checkouts, Sale(s)
      PROVE  UNCHANGED quotaVars
  BY <1>2, SaleIs
<1>3. ASSUME NEW h \in Hooks, Webhook(h)
      PROVE  UNCHANGED quotaVars
  BY <1>3, Zenon DEF Webhook, Begin, Read, Credit, Book, Save, Abort
<1>4. CASE UNCHANGED quotaVars
  BY <1>1, <1>4 DEF quotaVars
<1>5. CASE Look
  <2>1. UNCHANGED <<warned, freed>> /\ worker' \in SeenRecord
    BY <1>5, LookIs
  <2> QED BY <1>1, <2>1
<1>6. CASE Warn
  <2>1. /\ worker' = Idle /\ worker.row \in Row /\ UNCHANGED freed
        /\ warned' = [warned EXCEPT ![worker.row.sub] = worker.row.until]
    BY <1>6, WarnIs
  <2>2. worker.row.until \in Nat
    BY <2>1, Rows DEF TypeOK
  <2> QED BY <1>1, <2>1, <2>2
<1>7. CASE Release
  <2>1. /\ worker' = Idle /\ worker.row \in Row /\ UNCHANGED warned
        /\ worker.row.until <= now
        /\ freed' = freed \cup
             {[age |-> now - worker.row.until,
               renewed |-> warned[worker.row.sub] # worker.row.until]}
    BY <1>7, ReleaseIs DEF Keys
  <2>2. now - worker.row.until \in Nat
    BY <2>1, Rows, Bounds DEF TypeOK
  <2> DEFINE renewed == warned[worker.row.sub] # worker.row.until
             f == [age |-> now - worker.row.until, renewed |-> renewed]
  <2>3. renewed \in BOOLEAN
    OBVIOUS
  <2> HIDE DEF renewed
  <2>4. f \in [age : Nat, renewed : BOOLEAN]
    BY <2>2, <2>3
  <2>5. freed' = freed \cup {f}
    BY <2>1 DEF renewed
  <2> HIDE DEF f
  <2> QED BY <1>1, <2>1, <2>4, <2>5
<1>8. CASE Tick \/ UNCHANGED vars
  BY <1>4, <1>8 DEF Tick, vars
<1>9. CASE Next
  BY <1>2, <1>3, <1>4, <1>5, <1>6, <1>7, <1>8, <1>9, NextCases
<1> QED BY <1>8, <1>9

LEMMA HistoryStep ==
  ASSUME TypeOK, Records, Sent, Keys, [Next]_vars
  PROVE  booked' \in [Checkouts -> Nat] /\ applied' \in [Checkouts -> Nat]
<1>1. booked \in [Checkouts -> Nat] /\ applied \in [Checkouts -> Nat]
  BY DEF Records
<1>2. ASSUME NEW s \in Checkouts, Sale(s)
      PROVE  UNCHANGED history
  BY <1>2, SaleIs
<1>3. CASE UNCHANGED history
  BY <1>1, <1>3 DEF history
<1>4. ASSUME NEW h \in Hooks, Webhook(h)
      PROVE  booked' \in [Checkouts -> Nat] /\ applied' \in [Checkouts -> Nat]
  <2>1. CASE (\E e \in events : Begin(h, e) \/ Read(h, e)) \/ Credit(h) \/ Abort(h)
    BY <1>3, <2>1 DEF Begin, Read, Credit, Abort
  <2>2. CASE Book(h)
    <3>1. /\ booked' = [booked EXCEPT ![hooks[h].row.sub] = @ + 1]
          /\ Note(hooks[h].event) /\ hooks[h].event \in StripeEvent
      BY <2>2, BookIs
    <3>2. applied' \in [Checkouts -> Nat]
      BY <3>1, NoteIs DEF TypeOK
    <3>3. booked' \in [Checkouts -> Nat]
      <4>1. hooks[h].row.sub \in Checkouts
        BY <2>2, BookIs, Rows DEF TypeOK
      <4> QED BY <1>1, <3>1, <4>1
    <3> QED BY <3>2, <3>3
  <2>3. CASE Save(h)
    <3>1. /\ UNCHANGED booked
          /\ Note(hooks[h].event) /\ hooks[h].event \in StripeEvent
      BY <2>3, SaveIs, HookParts
    <3>2. applied' \in [Checkouts -> Nat]
      BY <3>1, NoteIs DEF TypeOK
    <3> QED BY <1>1, <3>1, <3>2
  <2> QED BY <1>4, <2>1, <2>2, <2>3 DEF Webhook
<1>5. Look \/ Warn \/ Release \/ Tick => UNCHANGED history
  BY DEF Look, Warn, Release, Tick
<1>6. CASE Next
  BY <1>2, <1>3, <1>4, <1>5, <1>6, NextCases
<1>7. CASE UNCHANGED vars
  BY <1>3, <1>7 DEF vars
<1> QED BY <1>6, <1>7

LEMMA RecordsStep ==
  ASSUME TypeOK, Records, Sent, Keys, [Next]_vars
  PROVE  Records'
<1>1. /\ HooksTyped' /\ stripe' \in [Checkouts -> StripeRecord]
      /\ worker' \in {Idle} \cup SeenRecord
      /\ warned' \in [Checkouts -> Nat]
      /\ freed' \subseteq [age : Nat, renewed : BOOLEAN]
      /\ booked' \in [Checkouts -> Nat] /\ applied' \in [Checkouts -> Nat]
  BY HooksStep, StripeStep, WorkerStep, HistoryStep
<1>2. UNCHANGED limits
  BY ScalarsStep
<1>3. StripeRecord' = StripeRecord /\ SeenRecord' = SeenRecord /\ Idle' = Idle
  BY <1>2, SameTypes DEF Idle
<1> QED BY <1>1, <1>3 DEF Records, HooksTyped


-----------------------------------------------------------------------------
(* The keys of the table *)

LEMMA Elsewhere ==
  ASSUME NEW h \in Hooks, Others(h)
  PROVE  \A g \in Hooks : g # h =>
           /\ hooks'[g] = hooks[g]
           /\ Open(g)' <=> Open(g)
           /\ Reading(g)' <=> Reading(g)
           /\ Busy(g)' <=> Busy(g)
BY DEF Others, Open, Reading, Busy

LEMMA Cleared ==
  ASSUME hooks' = hooks \/ \E h \in Hooks : Others(h) /\ hooks'[h] = Idle
  PROVE  \A g \in Hooks :
           /\ Open(g)' => Open(g) /\ hooks'[g] = hooks[g]
           /\ Reading(g)' => Reading(g) /\ hooks'[g] = hooks[g]
           /\ Busy(g)' => Busy(g) /\ hooks'[g] = hooks[g]
<1>1. ASSUME NEW h \in Hooks, Others(h), hooks'[h] = Idle
      PROVE  /\ ~ Open(h)' /\ ~ Reading(h)' /\ ~ Busy(h)'
             /\ \A g \in Hooks : g # h => hooks'[g] = hooks[g]
  BY <1>1, IdleIs DEF Others, Open, Reading, Busy
<1>2. CASE hooks' = hooks
  BY <1>2 DEF Open, Reading, Busy
<1>3. CASE \E h \in Hooks : Others(h) /\ hooks'[h] = Idle
  BY <1>1, <1>3 DEF Open, Reading, Busy
<1> QED BY <1>2, <1>3

(* Steps that write no row: the invocations lose what they have read. *)
LEMMA KeysKept ==
  ASSUME TypeOK, Records, Keys, UNCHANGED <<limits, rows, credits, lastId, worker>>,
         hooks' = hooks \/ \E h \in Hooks : Others(h) /\ hooks'[h] = Idle,
         now' = now \/ worker.pc = "idle"
  PROVE  Table' /\ Keys'
<1>1. Table
  BY TypeIs
<1>2. Row' = Row /\ CreditRecord' = CreditRecord
  BY SameTypes
<1>3. \A g \in Hooks : /\ Open(g)' => Open(g) /\ hooks'[g] = hooks[g]
                       /\ Reading(g)' => Reading(g) /\ hooks'[g] = hooks[g]
  BY Cleared
<1>4. Table'
  BY <1>1, <1>2, <1>3 DEF Table
<1>5. Keys'
  BY <1>3 DEF Keys
<1> QED BY <1>4, <1>5

LEMMA KeysBegin ==
  ASSUME TypeOK, Records, Keys, NEW h \in Hooks, NEW e \in events, Begin(h, e)
  PROVE  Table' /\ Keys'
<1>1. Table /\ lastId \in Nat
  BY TypeIs, Bounds DEF Scalars
<1>2. UNCHANGED <<limits, now, rows, credits, worker>>
  BY DEF Begin, quotaVars
<1>3. Row' = Row /\ CreditRecord' = CreditRecord
  BY <1>2, SameTypes
<1>4. /\ Others(h) /\ lastId' = lastId + 1 /\ lastId < limits.rows
      /\ hooks'[h] = Inserted(e)
  BY BeginIs
<1>5. hooks'[h].row.id = lastId + 1 /\ Open(h)' /\ ~ Reading(h)'
  BY <1>4, InsertedIs, NewRowIs DEF Open, Reading
<1>6. \A g \in Hooks : g # h =>
        /\ hooks'[g] = hooks[g]
        /\ Open(g)' <=> Open(g)
        /\ Reading(g)' <=> Reading(g)
  BY <1>4, Elsewhere
<1>7. \A r \in rows : r.id \in Nat /\ r.id <= lastId
  BY Rows DEF TypeOK, Keys
<1>8. \A g \in Hooks : Open(g) => hooks[g].row.id \in Nat /\ hooks[g].row.id <= lastId
  BY HookParts, Rows DEF TypeOK, Keys
<1>9. \A c \in credits : c.ref \in Nat /\ c.ref <= lastId
  BY Bounds DEF TypeOK, Keys
<1>10. Table'
  BY <1>1, <1>2, <1>3, <1>5, <1>6, <1>7 DEF Table
<1>11. Keys'
  BY <1>1, <1>2, <1>4, <1>5, <1>6, <1>7, <1>8, <1>9 DEF Keys
<1> QED BY <1>10, <1>11

LEMMA KeysCredit ==
  ASSUME TypeOK, Records, Keys, NEW h \in Hooks, Credit(h)
  PROVE  Table' /\ Keys'
<1>1. Table /\ lastId \in Nat
  BY TypeIs, Bounds DEF Scalars
<1> DEFINE c == [ref |-> hooks[h].row.id, package |-> hooks[h].row.package]
<1>2. /\ UNCHANGED <<limits, now, rows, lastId, worker>>
      /\ credits' = credits \cup {c}
  BY DEF Credit, quotaVars
<1>3. Row' = Row /\ CreditRecord' = CreditRecord
  BY <1>2, SameTypes
<1>4. /\ Open(h) /\ Open(h)' /\ ~ Reading(h)' /\ Others(h)
      /\ hooks'[h].row = hooks[h].row
  BY CreditIs DEF Open, Reading
<1>5. \A g \in Hooks : g # h =>
        /\ hooks'[g] = hooks[g]
        /\ Open(g)' <=> Open(g)
        /\ Reading(g)' <=> Reading(g)
  BY <1>4, Elsewhere
<1>6. \A g \in Hooks : /\ Open(g)' <=> Open(g)
                       /\ Reading(g)' => Reading(g)
                       /\ hooks'[g].row = hooks[g].row
  BY <1>4, <1>5
<1>7. c \in CreditRecord /\ c.ref = hooks[h].row.id
  <2>1. hooks[h].row \in Row
    BY <1>4, HookParts
  <2>2. hooks[h].row.id \in 1..limits.rows /\ hooks[h].row.package \in Packages
    BY <2>1, Rows DEF TypeOK
  <2> QED BY <2>2 DEF CreditRecord
<1> HIDE DEF c
<1>8. Table'
  BY <1>1, <1>2, <1>3, <1>6, <1>7 DEF Table
<1>9. Keys'
  BY <1>1, <1>2, <1>4, <1>6, <1>7 DEF Keys
<1> QED BY <1>8, <1>9

LEMMA KeysRead ==
  ASSUME TypeOK, Records, Keys, NEW h \in Hooks, NEW e \in events, Read(h, e)
  PROVE  Table' /\ Keys'
<1>1. Table
  BY TypeIs
<1>2. UNCHANGED <<limits, now, rows, credits, lastId, worker>>
  BY DEF Read, dbVars, quotaVars
<1>3. Row' = Row /\ CreditRecord' = CreditRecord
  BY <1>2, SameTypes
<1>4. /\ ~ Open(h)' /\ Reading(h)' /\ Others(h)
      /\ hooks'[h].row \in rows
  BY ReadIs DEF Open, Reading, IsLatest
<1>5. \A g \in Hooks : g # h =>
        /\ hooks'[g] = hooks[g]
        /\ Open(g)' <=> Open(g)
        /\ Reading(g)' <=> Reading(g)
  BY <1>4, Elsewhere
<1>6. Table'
  BY <1>1, <1>2, <1>3, <1>4, <1>5 DEF Table
<1>7. Keys'
  BY <1>2, <1>4, <1>5 DEF Keys
<1> QED BY <1>6, <1>7

LEMMA KeysBook ==
  ASSUME TypeOK, Records, Keys, NEW h \in Hooks, Book(h)
  PROVE  Table' /\ Keys'
<1>1. Table
  BY TypeIs
<1>2. /\ UNCHANGED <<limits, now, lastId, credits, worker>> /\ Open(h)
      /\ rows' = rows \cup {hooks[h].row} /\ hooks[h].row \in Row
      /\ hooks' = [hooks EXCEPT ![h] = Idle]
  BY BookIs DEF quotaVars
<1>3. Row' = Row /\ CreditRecord' = CreditRecord
  BY <1>2, SameTypes
<1>4. Others(h) /\ hooks'[h] = Idle
  BY <1>2, ClearIs
<1>5. \A g \in Hooks :
        /\ Open(g)' => Open(g) /\ hooks'[g] = hooks[g]
        /\ Reading(g)' => Reading(g) /\ hooks'[g] = hooks[g]
  BY <1>4, Cleared
<1>6. \A g \in Hooks : Open(g)' => g # h
  BY <1>4, IdleIs DEF Open
<1>7. Table'
  <2>1. rows' \subseteq Row' /\ credits' \subseteq CreditRecord'
    BY <1>1, <1>2, <1>3 DEF Table
  <2>2. \A q, r \in rows' : q.id = r.id => q = r
    BY <1>1, <1>2 DEF Table
  <2>3. \A g \in Hooks : Open(g)' => \A r \in rows' : r.id # hooks'[g].row.id
    BY <1>1, <1>2, <1>5, <1>6 DEF Table, Keys
  <2> QED BY <2>1, <2>2, <2>3 DEF Table
<1>8. Keys'
  BY <1>2, <1>5 DEF Keys
<1> QED BY <1>7, <1>8


LEMMA KeysSave ==
  ASSUME TypeOK, Records, Keys, NEW h \in Hooks, Save(h)
  PROVE  Table' /\ Keys'
<1>1. Table /\ lastId \in Nat
  BY TypeIs, Bounds DEF Scalars
<1>2. /\ UNCHANGED <<limits, now, worker>> /\ Reading(h)
      /\ hooks' = [hooks EXCEPT ![h] = Idle]
  BY SaveIs DEF quotaVars
<1>3. Row' = Row /\ CreditRecord' = CreditRecord
  BY <1>2, SameTypes
<1>4. Others(h) /\ hooks'[h] = Idle
  BY <1>2, ClearIs
<1>5. \A g \in Hooks :
        /\ Open(g)' => Open(g) /\ hooks'[g] = hooks[g]
        /\ Reading(g)' => Reading(g) /\ hooks'[g] = hooks[g]
  BY <1>4, Cleared
<1>6. \A r \in rows : r.id \in Nat /\ r.id <= lastId
  BY Rows DEF TypeOK, Keys
<1>7. \A g \in Hooks : Open(g) => hooks[g].row.id \in Nat /\ hooks[g].row.id <= lastId
  BY HookParts, Rows DEF TypeOK, Keys
<1>8. PICK old \in rows : old.id = hooks[h].row.id /\ old.sub = hooks[h].row.sub
  BY <1>2 DEF Keys
<1>9. \A r \in rows : r.id = hooks[h].row.id => r = old
  BY <1>1, <1>8 DEF Table
<1>10. Kept(h) \subseteq rows /\ \A r \in rows : r \in Kept(h) \/ r = old
  BY <1>9 DEF Kept
<1>11. PICK seen \in Row :
         Rewrites(h, seen) \/ \E copy \in Row : Replaces(h, seen, copy)
  BY SaveIs
<1>12. seen.id = old.id /\ seen.sub = old.sub /\ seen \in Row
  BY <1>8, <1>11 DEF Rewrites, Replaces, Written
<1>13. \A r \in Kept(h) : r \in rows /\ r.id # seen.id
  BY <1>8, <1>12 DEF Kept
<1>14. CASE Rewrites(h, seen)
  <2>1. rows' = Kept(h) \cup {seen} /\ UNCHANGED <<lastId, credits>>
    BY <1>14 DEF Rewrites
  <2>2. Table'
    <3>1. rows' \subseteq Row' /\ credits' \subseteq CreditRecord'
      BY <1>1, <1>3, <1>10, <1>12, <2>1 DEF Table
    <3>2. \A q, r \in rows' : q.id = r.id => q = r
      BY <1>1, <1>13, <2>1 DEF Table
    <3>3. \A g \in Hooks : Open(g)' => \A r \in rows' : r.id # hooks'[g].row.id
      BY <1>1, <1>5, <1>8, <1>12, <1>13, <2>1 DEF Table
    <3> QED BY <3>1, <3>2, <3>3 DEF Table
  <2>3. \A r \in rows : \E q \in rows' : q.id = r.id /\ q.sub = r.sub
    BY <1>10, <1>12, <2>1
  <2>4. \A r \in rows' : r.id <= lastId'
    BY <1>6, <1>12, <1>13, <2>1
  <2>5. Keys'
    BY <1>2, <1>5, <2>1, <2>3, <2>4 DEF Keys
  <2> QED BY <2>2, <2>5
<1>15. CASE \E copy \in Row : Replaces(h, seen, copy)
  <2>1. PICK copy \in Row : Replaces(h, seen, copy)
    BY <1>15
  <2> DEFINE c == [ref |-> lastId + 1, package |-> hooks[h].event.package]
  <2>2. /\ rows' = Kept(h) \cup {seen, copy} /\ copy.id = lastId + 1
        /\ lastId < limits.rows /\ lastId' = lastId + 1
        /\ credits' = credits \/ credits' = credits \cup {c}
    BY <2>1 DEF Replaces, CopyOf
  <2>3. c \in CreditRecord /\ c.ref = lastId + 1
    <3>1. hooks[h].event.package \in Packages
      BY <1>2, HookParts, Events DEF TypeOK
    <3>2. lastId + 1 \in 1..limits.rows
      BY <1>1, <2>2, Bounds DEF TypeOK
    <3> QED BY <3>1, <3>2 DEF CreditRecord
  <2> HIDE DEF c
  <2>4. copy.id # seen.id /\ \A r \in rows : r.id # copy.id
    BY <1>1, <1>6, <1>8, <1>12, <2>2
  <2>5. Table'
    <3>1. rows' \subseteq Row' /\ credits' \subseteq CreditRecord'
      BY <1>1, <1>3, <1>10, <1>12, <2>2, <2>3 DEF Table
    <3>2. \A q, r \in rows' : q.id = r.id => q = r
      BY <1>1, <1>13, <2>2, <2>4 DEF Table
    <3>3. ASSUME NEW g \in Hooks, Open(g)', NEW r \in rows'
          PROVE  r.id # hooks'[g].row.id
      <4>1. Open(g) /\ hooks'[g] = hooks[g]
        BY <1>5, <3>3
      <4>2. CASE r = copy
        BY <1>1, <1>7, <2>2, <4>1, <4>2
      <4>3. CASE r # copy
        BY <1>1, <1>8, <1>12, <1>13, <2>2, <3>3, <4>1, <4>3 DEF Table
      <4> QED BY <4>2, <4>3
    <3> QED BY <3>1, <3>2, <3>3 DEF Table
  <2>6. \A r \in rows : \E q \in rows' : q.id = r.id /\ q.sub = r.sub
    BY <1>10, <1>12, <2>2
  <2>7. \A r \in rows' : r.id <= lastId'
    BY <1>1, <1>6, <1>12, <1>13, <2>2
  <2>8. \A d \in credits' : d.ref <= lastId'
    <3>1. \A d \in credits : d.ref \in Nat /\ d.ref <= lastId
      BY Bounds DEF TypeOK, Keys
    <3> QED BY <1>1, <2>2, <2>3, <3>1
  <2>9. \A g \in Hooks : Open(g)' => hooks'[g].row.id <= lastId'
    BY <1>1, <1>5, <1>7, <2>2
  <2>10. Keys'
    BY <1>2, <1>5, <2>6, <2>7, <2>8, <2>9 DEF Keys
  <2> QED BY <2>5, <2>10
<1> QED BY <1>11, <1>14, <1>15

LEMMA KeysLevel ==
  ASSUME TypeOK, Records, Keys, Warn \/ Release
  PROVE  Table' /\ Keys'
<1>1. Table
  BY TypeIs
<1>2. UNCHANGED <<limits, credits, lastId, hooks, now>> /\ worker' = Idle
  BY WarnIs, ReleaseIs
<1>3. Row' = Row /\ CreditRecord' = CreditRecord
  BY <1>2, SameTypes
<1>4. PICK k \in Levels \cup {NONE, RELEASED} : SetLevel(worker.row.sub, k)
  BY WarnIs, ReleaseIs
<1> DEFINE L(r) == Leveled(r, worker.row.sub, k)
<1>5. /\ rows' \subseteq Row
      /\ \A r \in rows : L(r) \in rows'
      /\ \A q \in rows' : \E r \in rows : q = L(r)
  BY <1>1, <1>4, SetLevelIs DEF Table
<1>6. \A r \in rows : L(r).id = r.id /\ L(r).sub = r.sub
  BY <1>1, LeveledIs DEF Table
<1> HIDE DEF L
<1>7. \A g \in Hooks : (Open(g)' <=> Open(g)) /\ (Reading(g)' <=> Reading(g))
  BY <1>2 DEF Open, Reading
<1>8. worker'.pc # "seen"
  BY <1>2, IdleIs
<1>9. \A q, r \in rows' : q.id = r.id => q = r
  BY <1>1, <1>5, <1>6 DEF Table
<1>10. \A g \in Hooks : Open(g)' => \A r \in rows' : r.id # hooks'[g].row.id
  BY <1>1, <1>2, <1>5, <1>6, <1>7 DEF Table
<1>11. Table'
  BY <1>1, <1>2, <1>3, <1>5, <1>9, <1>10 DEF Table
<1>12. \A r \in rows' : r.id <= lastId'
  BY <1>2, <1>5, <1>6 DEF Keys
<1>13. \A r \in rows : \E q \in rows' : q.id = r.id /\ q.sub = r.sub
  BY <1>5, <1>6
<1>14. Keys'
  BY <1>2, <1>7, <1>8, <1>12, <1>13 DEF Keys
<1> QED BY <1>11, <1>14

LEMMA KeysStep ==
  ASSUME TypeOK, Records, Sent, Keys, [Next]_vars
  PROVE  Table' /\ Keys'
<1>1. CASE \E s \in Checkouts : Sale(s)
  <2>1. UNCHANGED <<limits, now, rows, credits, lastId, hooks, worker>>
    BY <1>1, SaleIs DEF dbVars, quotaVars
  <2> QED BY <2>1, KeysKept
<1>2. ASSUME NEW h \in Hooks, Webhook(h)
      PROVE  Table' /\ Keys'
  <2>1. CASE Abort(h)
    <3>1. /\ UNCHANGED <<limits, now, rows, credits, lastId, worker>>
          /\ hooks' = [hooks EXCEPT ![h] = Idle]
      BY <2>1 DEF Abort, dbVars, quotaVars
    <3>2. Others(h) /\ hooks'[h] = Idle
      BY <3>1, ClearIs
    <3> QED BY <3>1, <3>2, KeysKept
  <2> QED BY <1>2, <2>1, KeysBegin, KeysRead, KeysCredit, KeysBook, KeysSave
          DEF Webhook
<1>3. CASE Look
  <2>1. Table
    BY TypeIs
  <2>2. /\ UNCHANGED <<limits, now, rows, credits, lastId, hooks>>
        /\ worker'.row \in rows /\ worker'.row.until <= now
    BY <1>3, LookIs DEF dbVars
  <2>3. Row' = Row /\ CreditRecord' = CreditRecord
    BY <2>2, SameTypes
  <2>4. Table'
    BY <2>1, <2>2, <2>3 DEF Table, Open
  <2>5. Keys'
    BY <2>2 DEF Keys, Open, Reading
  <2> QED BY <2>4, <2>5
<1>4. CASE Tick \/ UNCHANGED vars
  <2>1. /\ UNCHANGED <<limits, rows, credits, lastId, hooks, worker>>
        /\ now' = now \/ worker.pc = "idle"
    BY <1>4 DEF Tick, vars, dbVars, quotaVars
  <2> QED BY <2>1, KeysKept
<1>5. CASE Next
  BY <1>1, <1>2, <1>3, <1>4, <1>5, NextCases, KeysLevel
<1> QED BY <1>4, <1>5


-----------------------------------------------------------------------------
(* What Stripe sends and what an invocation has of it *)

LEMMA SoldSale ==
  ASSUME TypeOK, Records, Sold, NEW s \in Checkouts, Sale(s)
  PROVE  Sold'
<1>1. PICK st \in StripeRecord :
        /\ st.package \in Packages
        /\ stripe' = [stripe EXCEPT ![s] = st]
        /\ Opened(s, st) \/ Paid(s, st) \/ Changed(s, st)
  BY SaleIs DEF Sold
<1>2. UNCHANGED <<rows, hooks, applied>>
  BY SaleIs DEF Sold, dbVars, history
<1>3. stripe'[s] = st /\ \A t \in Checkouts : t # s => stripe'[t] = stripe[t]
  BY <1>1 DEF Records
<1>4. /\ stripe[s].seq \in Nat /\ applied[s] \in Nat /\ st.seq \in Nat
      /\ limits \in Limits
  BY Subscribed, Bounds DEF TypeOK, Records, StripeRecord
<1>5. Sent
  BY DEF Sold
<1>6. ASSUME NEW e \in StripeEvent, Fits(e)
      PROVE  Fits(e)'
  <2>1. e.sub \in Checkouts /\ e.seq \in Nat
    BY <1>4, Events
  <2>2. CASE e.sub # s
    BY <1>3, <1>6, <2>1, <2>2 DEF Fits
  <2>3. CASE e.sub = s
    <3>1. stripe[s].pc = "paid" /\ e.seq <= stripe[s].seq
      BY <1>6, <2>3 DEF Fits
    <3>2. st.pc = "paid" /\ st.seq = stripe[s].seq + 1
      BY <1>1, <3>1 DEF Opened, Paid, Changed
    <3>3. e.type = "completed" => e.seq = 0
      BY <1>6 DEF Fits
    <3> QED BY <1>3, <1>4, <2>1, <2>3, <3>1, <3>2, <3>3 DEF Fits
  <2> QED BY <2>2, <2>3
<1>7. ASSUME NEW e \in events', e \notin events
      PROVE  Fits(e)'
  <2>1. CASE Paid(s, st)
    <3>1. e = Event(s, "completed", st)
      BY <1>7, <2>1 DEF Paid
    <3>2. st.pc = "paid" /\ st.seq = 0
      BY <1>5, <2>1 DEF Paid, Sent
    <3> QED BY <1>1, <1>3, <1>4, <3>1, <3>2, EventIs DEF Fits
  <2>2. CASE Changed(s, st)
    <3>1. e = Event(s, "updated", st) /\ st.pc = "paid"
      BY <1>7, <2>2 DEF Changed
    <3> QED BY <1>1, <1>3, <1>4, <3>1, EventIs DEF Fits
  <2> QED BY <1>1, <1>7, <2>1, <2>2 DEF Opened
<1>8. events \subseteq events'
  BY <1>1 DEF Opened, Paid, Changed
<1>9. Sent'
  <2>1. ASSUME NEW t \in Checkouts, t # s
        PROVE  /\ stripe'[t].pc # "none" => stripe'[t].package \in Packages
               /\ stripe'[t].pc # "paid" => stripe'[t].seq = 0
               /\ stripe'[t].seq = 0 => ~ stripe'[t].ended
               /\ applied'[t] <= stripe'[t].seq
               /\ \/ stripe'[t].seq <= applied'[t]
                  \/ \E e \in events' : e.sub = t /\ e.seq = stripe'[t].seq
    BY <1>2, <1>3, <1>5, <1>8, <2>1 DEF Sent
  <2>2. CASE Opened(s, st) \/ Paid(s, st)
    <3>1. st.seq = stripe[s].seq /\ st.ended = stripe[s].ended
          /\ stripe[s].pc # "paid"
      BY <2>2 DEF Opened, Paid
    <3>2. /\ st.seq = 0 /\ ~ st.ended
      BY <1>5, <3>1 DEF Sent
    <3>3. applied[s] <= st.seq
      BY <1>5, <3>1 DEF Sent
    <3> QED BY <1>1, <1>2, <1>3, <1>4, <2>1, <3>2, <3>3 DEF Sent
  <2>3. CASE Changed(s, st)
    <3>1. st.seq = stripe[s].seq + 1 /\ st.pc = "paid" /\ st.seq # 0
      BY <1>4, <2>3 DEF Changed
    <3>2. \E e \in events' : e.sub = s /\ e.seq = st.seq
      <4>1. Event(s, "updated", st) \in events'
        BY <2>3 DEF Changed
      <4> QED BY <1>1, <4>1, EventIs
    <3>3. applied[s] <= st.seq
      BY <1>4, <1>5, <3>1 DEF Sent
    <3> QED BY <1>1, <1>2, <1>3, <2>1, <3>1, <3>2, <3>3 DEF Sent
  <2> QED BY <1>1, <2>2, <2>3
<1>10. \A r \in rows' : stripe'[r.sub].pc = "paid"
  <2>1. ASSUME NEW r \in rows
        PROVE  stripe'[r.sub].pc = "paid"
    <3>1. r.sub \in Checkouts /\ stripe[r.sub].pc = "paid"
      BY Rows DEF TypeOK, Sold
    <3>2. stripe[s].pc = "paid" => st.pc = "paid"
      BY <1>1 DEF Opened, Paid, Changed
    <3> QED BY <1>3, <3>1, <3>2
  <2> QED BY <1>2, <2>1
<1>11. \A e \in events' : Fits(e)'
  BY <1>6, <1>7 DEF Sold, TypeOK
<1>12. ASSUME NEW h \in Hooks, Busy(h)
       PROVE  /\ Fits(hooks[h].event)' /\ hooks[h].row.sub = hooks[h].event.sub
              /\ Open(h) => Purchase(h)'
  <2>1. /\ Fits(hooks[h].event) /\ hooks[h].row.sub = hooks[h].event.sub
        /\ hooks[h].event \in StripeEvent
    BY <1>12, HookParts DEF Sold
  <2>2. ASSUME Open(h)
        PROVE  Purchase(h)'
    <3>1. Purchase(h)
      BY <2>2 DEF Sold
    <3>2. CASE hooks[h].row.sub # s
      <4>1. hooks[h].row.sub \in Checkouts
        BY <1>4, <2>1, Events
      <4> QED BY <1>2, <1>3, <3>1, <3>2, <4>1 DEF Purchase
    <3>3. CASE hooks[h].row.sub = s
      <4>1. stripe[s].pc = "paid"
        BY <2>1, <3>3 DEF Fits
      <4>2. st.seq # 0
        BY <1>1, <1>4, <4>1 DEF Opened, Paid, Changed
      <4> QED BY <1>2, <1>3, <3>1, <3>3, <4>2 DEF Purchase
    <3> QED BY <3>2, <3>3
  <2>3. Fits(hooks[h].event)'
    <3>1. PICK e \in StripeEvent : e = hooks[h].event
      BY <2>1
    <3>2. Fits(e)' /\ e = hooks'[h].event
      BY <1>2, <1>6, <2>1, <3>1
    <3> QED BY <3>2 DEF Fits
  <2> QED BY <2>1, <2>2, <2>3
<1>13. \A h \in Hooks : (Busy(h)' <=> Busy(h)) /\ (Open(h)' <=> Open(h))
  BY <1>2 DEF Busy, Open
<1>14. \A h \in Hooks : Busy(h)' =>
         Fits(hooks[h].event)' /\ hooks'[h].row.sub = hooks'[h].event.sub
  BY <1>2, <1>12, <1>13
<1>15. \A h \in Hooks : Open(h)' => Purchase(h)'
  BY <1>12, <1>13, HookParts
<1> QED BY <1>9, <1>10, <1>11, <1>14, <1>15 DEF Sold


LEMMA SentApplied ==
  ASSUME TypeOK, Records, Sent, NEW e \in StripeEvent, Fits(e),
         Acknowledge(e), Note(e), UNCHANGED <<limits, stripe>>
  PROVE  Sent' /\ events' \subseteq events
<1>1. /\ events' \subseteq events /\ events \ {e} \subseteq events'
  BY Acknowledged
<1>2. /\ applied' \in [Checkouts -> Nat]
      /\ applied'[e.sub] = applied[e.sub] \/ applied'[e.sub] = e.seq
      /\ applied[e.sub] <= applied'[e.sub] /\ e.seq <= applied'[e.sub]
      /\ \A t \in Checkouts : t # e.sub => applied'[t] = applied[t]
  BY NoteIs DEF TypeOK
<1>3. e.seq \in Nat /\ e.sub \in Checkouts /\ e.seq <= stripe[e.sub].seq
  BY Events DEF Fits, TypeOK
<1>4. ASSUME NEW s \in Checkouts
      PROVE  /\ applied'[s] <= stripe[s].seq
             /\ \/ stripe[s].seq <= applied'[s]
                \/ \E d \in events' : d.sub = s /\ d.seq = stripe[s].seq
  <2>1. /\ stripe[s].seq \in Nat /\ applied[s] \in Nat /\ applied'[s] \in Nat
    BY <1>2, Subscribed DEF TypeOK, Records
  <2>2. /\ applied[s] <= stripe[s].seq
        /\ \/ stripe[s].seq <= applied[s]
           \/ \E d \in events : d.sub = s /\ d.seq = stripe[s].seq
    BY DEF Sent
  <2>3. applied'[s] <= stripe[s].seq
    BY <1>2, <1>3, <2>1, <2>2
  <2>4. applied[s] <= applied'[s]
    BY <1>2, <2>1
  <2>5. CASE stripe[s].seq <= applied[s]
    BY <2>1, <2>3, <2>4, <2>5
  <2>6. CASE \E d \in events : d.sub = s /\ d.seq = stripe[s].seq
    <3>1. PICK d \in events : d.sub = s /\ d.seq = stripe[s].seq
      BY <2>6
    <3>2. CASE d = e
      BY <1>2, <2>3, <3>1, <3>2
    <3>3. CASE d # e
      BY <1>1, <2>3, <3>1, <3>3
    <3> QED BY <3>2, <3>3
  <2> QED BY <2>2, <2>5, <2>6
<1> QED BY <1>1, <1>4 DEF Sent

LEMMA SoldFrame ==
  ASSUME Records, Sold, UNCHANGED stripe, events' \subseteq events, Sent',
         \A r \in rows' : stripe[r.sub].pc = "paid",
         hooks' = hooks \/ \E h \in Hooks : Others(h) /\ hooks'[h] = Idle
  PROVE  Sold'
<1>1. \A g \in Hooks : /\ Busy(g)' => Busy(g) /\ hooks'[g] = hooks[g]
                       /\ Open(g)' => Open(g) /\ hooks'[g] = hooks[g]
  BY Cleared
<1>2. \A e \in events' : Fits(e)'
  BY DEF Sold, Fits
<1>3. ASSUME NEW g \in Hooks, Busy(g)'
      PROVE  Fits(hooks[g].event)' /\ hooks'[g].row.sub = hooks'[g].event.sub
  BY <1>1, <1>3 DEF Sold, Fits
<1>4. ASSUME NEW g \in Hooks, Open(g)'
      PROVE  Purchase(g)'
  BY <1>1, <1>4 DEF Sold, Purchase
<1> QED BY <1>2, <1>3, <1>4 DEF Sold

LEMMA SoldBegun ==
  ASSUME Records, Sold, UNCHANGED <<stripe, events, rows>>, Sent',
         NEW h \in Hooks, Others(h),
         Fits(hooks[h].event)', hooks'[h].row.sub = hooks'[h].event.sub,
         Open(h)' => Purchase(h)'
  PROVE  Sold'
<1>1. \A g \in Hooks : g # h =>
        /\ hooks'[g] = hooks[g] /\ (Open(g)' <=> Open(g)) /\ (Busy(g)' <=> Busy(g))
  BY Elsewhere
<1>2. \A e \in events' : Fits(e)'
  BY DEF Sold, Fits
<1>3. ASSUME NEW g \in Hooks, Busy(g)', g # h
      PROVE  Fits(hooks[g].event)' /\ hooks'[g].row.sub = hooks'[g].event.sub
  BY <1>1, <1>3 DEF Sold, Fits
<1>4. ASSUME NEW g \in Hooks, Open(g)', g # h
      PROVE  Purchase(g)'
  BY <1>1, <1>4 DEF Sold, Purchase
<1>5. \A g \in Hooks : Busy(g)' =>
        Fits(hooks[g].event)' /\ hooks'[g].row.sub = hooks'[g].event.sub
  BY <1>3
<1>6. \A g \in Hooks : Open(g)' => Purchase(g)'
  BY <1>4
<1>7. \A r \in rows' : stripe'[r.sub].pc = "paid"
  BY DEF Sold
<1> QED BY <1>2, <1>5, <1>6, <1>7 DEF Sold

LEMMA SoldWebhook ==
  ASSUME TypeOK, Records, Keys, Sold, NEW h \in Hooks, Webhook(h)
  PROVE  Sold'
<1>1. /\ UNCHANGED <<limits, stripe>>
  BY Zenon DEF Webhook, Begin, Read, Credit, Book, Save, Abort, stripeVars
<1>2. Sent /\ \A r \in rows : stripe[r.sub].pc = "paid"
  BY DEF Sold
<1>3. ASSUME UNCHANGED <<events, applied>>
      PROVE  Sent'
  BY <1>1, <1>2, <1>3 DEF Sent
<1>4. ASSUME NEW e \in events, Begin(h, e)
      PROVE  Sold'
  <2>1. UNCHANGED <<stripe, events, rows, applied>>
    BY <1>4 DEF Begin, stripeVars, history
  <2>2. /\ Others(h) /\ hooks'[h] = Inserted(e) /\ lastId < limits.rows
    BY <1>4, BeginIs
  <2>3. /\ hooks'[h].event = e /\ hooks'[h].row = NewRow(e)
        /\ NewRow(e).sub = e.sub /\ NewRow(e).package = e.package
        /\ NewRow(e).until = stripe[e.sub].until
        /\ NewRow(e).status = "ACTIVE" /\ NewRow(e).level = NONE
    BY <2>2, InsertedIs, NewRowIs
  <2>4. Fits(e) /\ e.type = "completed"
    BY <1>4 DEF Begin, Sold
  <2>5. Fits(hooks[h].event)'
    BY <2>1, <2>3, <2>4 DEF Fits
  <2>6. Purchase(h)'
    <3>1. stripe[e.sub].seq = 0 => e.package = stripe[e.sub].package
      BY <2>4 DEF Fits
    <3> QED BY <2>1, <2>3, <2>4, <3>1 DEF Purchase, NONE
  <2>7. hooks'[h].row.sub = hooks'[h].event.sub
    BY <2>3
  <2> QED BY <1>3, <2>1, <2>2, <2>5, <2>6, <2>7, SoldBegun
<1>5. ASSUME NEW e \in events, Read(h, e)
      PROVE  Sold'
  <2>1. UNCHANGED <<stripe, events, rows, applied>>
    BY <1>5 DEF Read, stripeVars, history, dbVars
  <2>2. /\ Others(h) /\ hooks'[h].event = e /\ ~ Open(h)'
        /\ hooks'[h].row.sub = e.sub
    BY <1>5, ReadIs DEF Open
  <2>3. Fits(hooks[h].event)'
    BY <2>1, <2>2 DEF Fits, Sold
  <2> QED BY <1>3, <2>1, <2>2, <2>3, SoldBegun
<1>6. CASE Credit(h)
  <2>1. UNCHANGED <<stripe, events, rows, applied>>
    BY <1>6 DEF Credit, stripeVars, history
  <2>2. /\ Others(h) /\ Open(h) /\ Busy(h)
        /\ hooks'[h].event = hooks[h].event /\ hooks'[h].row = hooks[h].row
    BY <1>6, CreditIs, HookParts
  <2>3. /\ Fits(hooks[h].event) /\ Purchase(h)
        /\ hooks[h].row.sub = hooks[h].event.sub
    BY <2>2 DEF Sold
  <2>4. Fits(hooks[h].event)' /\ Purchase(h)'
    BY <2>1, <2>2, <2>3 DEF Fits, Purchase
  <2> QED BY <1>3, <2>1, <2>2, <2>3, <2>4, SoldBegun
<1>7. CASE Book(h)
  <2>1. /\ Open(h) /\ Acknowledge(hooks[h].event) /\ Note(hooks[h].event)
        /\ rows' = rows \cup {hooks[h].row}
        /\ hooks' = [hooks EXCEPT ![h] = Idle]
    BY <1>7, BookIs
  <2>2. /\ Fits(hooks[h].event) /\ hooks[h].event \in StripeEvent
        /\ hooks[h].row.sub = hooks[h].event.sub
    BY <2>1, HookParts DEF Sold
  <2>3. Sent' /\ events' \subseteq events
    BY <1>1, <1>2, <2>1, <2>2, SentApplied
  <2>4. \A r \in rows' : stripe[r.sub].pc = "paid"
    BY <1>2, <2>1, <2>2 DEF Fits
  <2>5. Others(h) /\ hooks'[h] = Idle
    BY <1>1, <2>1, ClearIs
  <2> QED BY <1>1, <2>3, <2>4, <2>5, SoldFrame
<1>8. CASE Save(h)
  <2>1. /\ Reading(h) /\ Acknowledge(hooks[h].event) /\ Note(hooks[h].event)
        /\ hooks' = [hooks EXCEPT ![h] = Idle]
    BY <1>8, SaveIs
  <2>2. /\ Fits(hooks[h].event) /\ hooks[h].event \in StripeEvent
        /\ hooks[h].row.sub = hooks[h].event.sub
    BY <2>1, HookParts DEF Sold
  <2>3. Sent' /\ events' \subseteq events
    BY <1>1, <1>2, <2>1, <2>2, SentApplied
  <2>4. \A r \in rows' : r \in rows \/ r.sub = hooks[h].row.sub
    BY <1>8, SaveIs DEF Rewrites, Replaces, Written, CopyOf, Kept
  <2>5. \A r \in rows' : stripe[r.sub].pc = "paid"
    BY <1>2, <2>2, <2>4 DEF Fits
  <2>6. Others(h) /\ hooks'[h] = Idle
    BY <1>1, <2>1, ClearIs
  <2> QED BY <1>1, <2>3, <2>5, <2>6, SoldFrame
<1>9. CASE Abort(h)
  <2>1. /\ UNCHANGED <<events, applied, rows>>
        /\ hooks' = [hooks EXCEPT ![h] = Idle]
    BY <1>9 DEF Abort, stripeVars, history, dbVars
  <2>2. Others(h) /\ hooks'[h] = Idle
    BY <1>1, <2>1, ClearIs
  <2> QED BY <1>1, <1>2, <1>3, <2>1, <2>2, SoldFrame
<1> QED BY <1>4, <1>5, <1>6, <1>7, <1>8, <1>9 DEF Webhook

LEMMA SoldStep ==
  ASSUME TypeOK, Records, Keys, Sold, [Next]_vars
  PROVE  Sold'
<1>1. Sent /\ \A r \in rows : stripe[r.sub].pc = "paid"
  BY DEF Sold
<1>2. ASSUME UNCHANGED <<stripe, events, hooks, applied>>,
             \A q \in rows' : \E r \in rows : q.sub = r.sub
      PROVE  Sold'
  <2>1. Sent'
    BY <1>1, <1>2 DEF Sent
  <2>2. \A q \in rows' : stripe[q.sub].pc = "paid"
    BY <1>1, <1>2
  <2> QED BY <1>2, <2>1, <2>2, SoldFrame
<1>3. CASE Warn \/ Release
  <2>1. UNCHANGED <<stripe, events, hooks, applied>> /\ rows \subseteq Row
    BY <1>3, WarnIs, ReleaseIs DEF stripeVars, history, TypeOK
  <2>2. PICK k \in Levels \cup {NONE, RELEASED} : SetLevel(worker.row.sub, k)
    BY <1>3, WarnIs, ReleaseIs
  <2>3. \A q \in rows' : \E r \in rows : q = Leveled(r, worker.row.sub, k)
    BY <2>1, <2>2, SetLevelIs
  <2>4. \A r \in rows : Leveled(r, worker.row.sub, k).sub = r.sub
    BY <2>1, LeveledIs
  <2> QED BY <1>2, <2>1, <2>3, <2>4
<1>4. CASE Look \/ Tick \/ UNCHANGED vars
  <2>1. UNCHANGED <<stripe, events, hooks, applied, rows>>
    BY <1>4 DEF Look, Tick, vars, stripeVars, history, dbVars
  <2> QED BY <1>2, <2>1
<1>5. CASE Next
  BY <1>3, <1>4, <1>5, NextCases, SoldSale, SoldWebhook
<1> QED BY <1>4, <1>5

-----------------------------------------------------------------------------
(* As long as no two webhooks wrote at the same time *)

LEMMA RacedKept ==
  ASSUME [Next]_vars, ~ raced'
  PROVE  ~ raced
<1>1. CASE UNCHANGED raced
  BY <1>1, Zenon
<1>2. UNCHANGED history => UNCHANGED raced
  BY DEF history
<1>3. ASSUME NEW h \in Hooks, Webhook(h)
      PROVE  ~ raced
  <2>1. CASE Book(h) \/ Save(h)
    <3>1. Raced(h)
      BY <2>1 DEF Book, Save
    <3> QED BY <3>1, AlmostAlone
  <2>2. CASE (\E e \in events : Begin(h, e) \/ Read(h, e)) \/ Credit(h) \/ Abort(h)
    <3>1. UNCHANGED history
      BY <2>2, Zenon DEF Begin, Read, Credit, Abort
    <3> QED BY <1>1, <1>2, <3>1
  <2> QED BY <1>3, <2>1, <2>2 DEF Webhook
<1>4. ASSUME NEW s \in Checkouts, Sale(s)
      PROVE  UNCHANGED history
  BY <1>4, Zenon DEF Sale, Pay, Renew, Turn, OpenCheckout, ChangePlan, Change
<1>5. Look \/ Warn \/ Release \/ Tick => UNCHANGED history
  BY Zenon DEF Look, Warn, Release, Tick
<1>6. CASE Next
  BY <1>1, <1>2, <1>3, <1>4, <1>5, <1>6, NextCases
<1>7. CASE UNCHANGED vars
  BY <1>1, <1>2, <1>7 DEF vars
<1> QED BY <1>6, <1>7

(* Whoever writes is alone, and when he has written nobody is left. *)
LEMMA Alone ==
  ASSUME Records, NEW h \in Hooks, Book(h) \/ Save(h), ~ raced'
  PROVE  /\ \A g \in Hooks : g # h => ~ Busy(g)
         /\ \A g \in Hooks : ~ Open(g)' /\ ~ Reading(g)'
         /\ Copies' = {}
<1>1. Raced(h) /\ hooks' = [hooks EXCEPT ![h] = Idle] /\ UNCHANGED limits
  BY DEF Book, Save
<1>2. Others(h) /\ hooks'[h] = Idle
  BY <1>1, ClearIs
<1>3. \A g \in Hooks : g # h => ~ Busy(g)
  BY <1>1, AlmostAlone
<1>4. \A g \in Hooks : g # h => hooks'[g].pc = "idle"
  BY <1>2, <1>3 DEF Others, Busy
<1>5. \A g \in Hooks : hooks'[g].pc = "idle"
  BY <1>2, <1>4, IdleIs
<1>6. \A g \in Hooks : ~ Open(g)' /\ ~ Reading(g)'
  BY <1>5 DEF Open, Reading
<1> QED BY <1>3, <1>6 DEF Copies

(* A change of the level leaves the rows alike. *)
LEMMA LevelIs ==
  ASSUME TypeOK, Records, Warn \/ Release
  PROVE  /\ UNCHANGED <<limits, now, stripe, events, lastId, credits, hooks,
                        booked, applied, stale>>
         /\ \A r \in rows : \E q \in rows' : Alike(q, r)
         /\ \A q \in rows' : \E r \in rows : Alike(q, r)
<1>1. UNCHANGED <<limits, now, stripe, events, lastId, credits, hooks,
                  booked, applied, stale>>
  BY WarnIs, ReleaseIs DEF stripeVars, history
<1>2. PICK k \in Levels \cup {NONE, RELEASED} : SetLevel(worker.row.sub, k)
  BY WarnIs, ReleaseIs
<1> DEFINE L(r) == Leveled(r, worker.row.sub, k)
<1>3. /\ \A r \in rows : L(r) \in rows'
      /\ \A q \in rows' : \E r \in rows : q = L(r)
  BY <1>2, SetLevelIs DEF TypeOK
<1>4. \A r \in rows : Alike(L(r), r)
  BY LeveledIs DEF Alike, TypeOK
<1> HIDE DEF L
<1> QED BY <1>1, <1>3, <1>4

LEMMA LatestKept ==
  ASSUME \A r \in rows : \E q \in rows' : Alike(q, r),
         \A q \in rows' : \E r \in rows : Alike(q, r),
         NEW r \in rows, NEW q \in rows', Alike(q, r)
  PROVE  IsLatest(q)' <=> IsLatest(r)
BY DEF IsLatest, Alike

-----------------------------------------------------------------------------
(* What was read stays so. *)

LEMMA UndisturbedKept ==
  ASSUME Undisturbed, UNCHANGED rows,
         hooks' = hooks \/ \E h \in Hooks : Others(h) /\ hooks'[h] = Idle
  PROVE  Undisturbed'
<1>1. \A g \in Hooks : /\ Open(g)' => Open(g) /\ hooks'[g] = hooks[g]
                       /\ Reading(g)' => Reading(g) /\ hooks'[g] = hooks[g]
  BY Cleared
<1> QED BY <1>1 DEF Undisturbed, First, IsLatest

(* Of one invocation, and the same of all the others. *)
UndisturbedOf(h) ==
  /\ Open(h) =>
       /\ \A r \in rows : r.id < hooks[h].row.id
       /\ hooks[h].first => First(hooks[h].row.package)
       /\ hooks[h].pc = "credited" => hooks[h].first
  /\ Reading(h) => \E r \in rows : IsLatest(r) /\ Alike(hooks[h].row, r)

LEMMA UndisturbedOne ==
  ASSUME Undisturbed, UNCHANGED rows, NEW h \in Hooks, Others(h), UndisturbedOf(h)'
  PROVE  Undisturbed'
<1>1. \A g \in Hooks : g # h => UndisturbedOf(g)
  BY DEF Undisturbed, UndisturbedOf
<1>2. ASSUME NEW g \in Hooks, g # h
      PROVE  UndisturbedOf(g)'
  <2>1. /\ hooks'[g] = hooks[g] /\ UndisturbedOf(g)
        /\ (Open(g)' <=> Open(g)) /\ (Reading(g)' <=> Reading(g))
    BY <1>1, <1>2, Elsewhere
  <2> QED BY <2>1 DEF UndisturbedOf, First, IsLatest
<1>3. \A g \in Hooks : UndisturbedOf(g)'
  BY <1>2
<1> QED BY <1>3 DEF Undisturbed, UndisturbedOf

LEMMA UndisturbedStep ==
  ASSUME TypeOK, Records, Keys, Sold, Undisturbed, [Next]_vars, ~ raced'
  PROVE  Undisturbed'
<1>1. \A r \in rows : r.id \in Nat /\ r.id <= lastId /\ lastId \in Nat
  BY Rows, Bounds DEF TypeOK, Keys
<1>2. ASSUME NEW h \in Hooks, Webhook(h)
      PROVE  Undisturbed'
  <2>1. ASSUME NEW e \in events, Begin(h, e)
        PROVE  Undisturbed'
    <3>1. UNCHANGED rows
      BY <2>1 DEF Begin
    <3>2. Others(h) /\ hooks'[h] = Inserted(e) /\ lastId < limits.rows
      BY <2>1, BeginIs
    <3>3. /\ hooks'[h].pc = "inserted" /\ hooks'[h].row.id = lastId + 1
          /\ hooks'[h].first = First(e.package) /\ hooks'[h].row.package = e.package
      BY <3>2, InsertedIs, NewRowIs
    <3>4. Open(h)' /\ ~ Reading(h)'
      BY <3>3 DEF Open, Reading
    <3>5. \A r \in rows' : r.id < hooks'[h].row.id
      BY <1>1, <3>1, <3>3
    <3>6. hooks'[h].first => First(hooks[h].row.package)'
      BY <3>1, <3>3 DEF First
    <3>7. UndisturbedOf(h)'
      BY <3>3, <3>4, <3>5, <3>6 DEF UndisturbedOf
    <3> QED BY <3>1, <3>2, <3>7, UndisturbedOne
  <2>2. ASSUME NEW e \in events, Read(h, e)
        PROVE  Undisturbed'
    <3>1. UNCHANGED rows
      BY <2>2 DEF Read, dbVars
    <3>2. /\ Others(h) /\ hooks'[h].pc = "read" /\ hooks'[h].row = Latest(e.sub)
          /\ IsLatest(Latest(e.sub))
      BY <2>2, ReadIs
    <3>3. ~ Open(h)'
      BY <3>2 DEF Open
    <3>4. Latest(e.sub) \in rows' /\ IsLatest(Latest(e.sub))
      BY <3>1, <3>2 DEF IsLatest
    <3>5. \E r \in rows' : (\A q \in rows' : q.sub = r.sub => q.id <= r.id)
                           /\ Alike(hooks'[h].row, r)
      BY <3>1, <3>2, <3>4 DEF IsLatest, Alike
    <3>6. UndisturbedOf(h)'
      BY <3>3, <3>5 DEF UndisturbedOf, IsLatest, Alike
    <3> QED BY <3>1, <3>2, <3>6, UndisturbedOne
  <2>3. CASE Credit(h)
    <3>1. UNCHANGED rows
      BY <2>3 DEF Credit
    <3>2. /\ Others(h) /\ Open(h) /\ Open(h)' /\ ~ Reading(h)'
          /\ hooks'[h].row = hooks[h].row /\ hooks'[h].first /\ hooks[h].first
      BY <2>3, CreditIs, HookParts DEF Open, Reading
    <3>3. UndisturbedOf(h)'
      BY <3>1, <3>2 DEF Undisturbed, UndisturbedOf, First
    <3> QED BY <3>1, <3>2, <3>3, UndisturbedOne
  <2>4. CASE Book(h) \/ Save(h)
    BY <2>4, Alone DEF Undisturbed
  <2>5. CASE Abort(h)
    <3>1. UNCHANGED <<limits, rows>> /\ hooks' = [hooks EXCEPT ![h] = Idle]
      BY <2>5 DEF Abort, dbVars
    <3> QED BY <3>1, ClearIs, UndisturbedKept
  <2> QED BY <1>2, <2>1, <2>2, <2>3, <2>4, <2>5 DEF Webhook
<1>3. CASE Warn \/ Release
  <2>1. /\ UNCHANGED hooks
        /\ \A r \in rows : \E q \in rows' : Alike(q, r)
        /\ \A q \in rows' : \E r \in rows : Alike(q, r)
    BY <1>3, LevelIs
  <2>2. \A g \in Hooks : (Open(g)' <=> Open(g)) /\ (Reading(g)' <=> Reading(g))
    BY <2>1 DEF Open, Reading
  <2>3. ASSUME NEW h \in Hooks, Open(h)
        PROVE  /\ \A r \in rows' : r.id < hooks'[h].row.id
               /\ hooks'[h].first => First(hooks[h].row.package)'
               /\ hooks'[h].pc = "credited" => hooks'[h].first
    BY <2>1, <2>3 DEF Undisturbed, Alike, First
  <2>4. ASSUME NEW h \in Hooks, Reading(h)
        PROVE  \E q \in rows' : IsLatest(q)' /\ Alike(hooks[h].row, q)
    <3>1. PICK r \in rows : IsLatest(r) /\ Alike(hooks[h].row, r)
      BY <2>4 DEF Undisturbed
    <3>2. PICK q \in rows' : Alike(q, r)
      BY <2>1
    <3>3. IsLatest(q)'
      BY <2>1, <3>1, <3>2, LatestKept
    <3>4. Alike(hooks[h].row, q)
      BY <3>1, <3>2 DEF Alike
    <3> QED BY <3>3, <3>4
  <2>5. ASSUME NEW h \in Hooks, Reading(h)
        PROVE  \E q \in rows' : IsLatest(q)' /\ Alike(hooks'[h].row, q)
    BY <2>1, <2>4, <2>5
  <2> QED BY <2>2, <2>3, <2>5 DEF Undisturbed, Alike
<1>4. ASSUME NEW s \in Checkouts, Sale(s)
      PROVE  Undisturbed'
  <2>1. UNCHANGED <<rows, hooks>>
    BY <1>4, SaleIs DEF dbVars, Sold
  <2> QED BY <2>1, UndisturbedKept
<1>5. CASE Look \/ Tick \/ UNCHANGED vars
  <2>1. UNCHANGED <<rows, hooks>>
    BY <1>5 DEF Look, Tick, vars, dbVars
  <2> QED BY <2>1, UndisturbedKept
<1>6. CASE Next
  BY <1>2, <1>3, <1>4, <1>5, <1>6, NextCases
<1> QED BY <1>5, <1>6

-----------------------------------------------------------------------------
(* What the credits refer to. *)

LEMMA ReferredKept ==
  ASSUME Referred, UNCHANGED credits,
         \A r \in rows : \E q \in rows' : q.id = r.id /\ q.package = r.package,
         \A q \in rows' : \E r \in rows : q.id = r.id /\ q.package = r.package,
         \A h \in Hooks : Open(h)' => Open(h) /\ hooks'[h] = hooks[h]
  PROVE  Referred'
<1>1. \A c \in credits : Refers(c)' => Refers(c)
  BY DEF Refers
<1>2. \A c \in credits', r \in rows' : c.ref = r.id => c.package = r.package
  BY DEF Referred
<1>3. \A c \in credits', h \in Hooks : Open(h)' /\ c.ref = hooks'[h].row.id =>
        c.package = hooks'[h].row.package /\ hooks'[h].first
  BY DEF Referred
<1>4. \A c, d \in credits' :
        c.package = d.package /\ Refers(c)' /\ Refers(d)' => c = d
  BY <1>1 DEF Referred
<1> QED BY <1>2, <1>3, <1>4 DEF Referred, Refers

LEMMA ReferredBegin ==
  ASSUME TypeOK, Records, Keys, Referred, NEW h \in Hooks,
         \E e \in events : Begin(h, e) \/ Read(h, e)
  PROVE  Referred'
<1>1. UNCHANGED <<rows, credits>>
  BY DEF Begin, Read, dbVars
<1>2. Others(h)
  BY BeginIs, ReadIs
<1>3. Open(h)' => hooks'[h].row.id = lastId + 1
  <2>1. ASSUME NEW e \in events, Begin(h, e)
        PROVE  hooks'[h].row.id = lastId + 1
    <3>1. hooks'[h] = Inserted(e) /\ lastId < limits.rows
      BY <2>1, BeginIs
    <3> QED BY <3>1, InsertedIs, NewRowIs
  <2>2. ASSUME NEW e \in events, Read(h, e)
        PROVE  ~ Open(h)'
    BY <2>2, ReadIs DEF Open
  <2> QED BY <2>1, <2>2
<1>4. \A c \in credits : c.ref \in Nat /\ c.ref <= lastId /\ lastId \in Nat
  BY Bounds DEF TypeOK, Keys
<1>5. \A c \in credits, g \in Hooks : Open(g)' /\ c.ref = hooks'[g].row.id =>
        c.package = hooks'[g].row.package /\ hooks'[g].first
  <2>1. ASSUME NEW c \in credits, NEW g \in Hooks, Open(g)',
               c.ref = hooks'[g].row.id
        PROVE  c.package = hooks'[g].row.package /\ hooks'[g].first
    <3>1. g # h
      BY <1>3, <1>4, <2>1
    <3>2. Open(g) /\ hooks'[g] = hooks[g]
      BY <1>2, <2>1, <3>1, Elsewhere
    <3> QED BY <2>1, <3>2 DEF Referred
  <2> QED BY <2>1
<1>6. \A c, d \in credits' :
        c.package = d.package /\ Refers(c)' /\ Refers(d)' => c = d
  BY <1>1 DEF Referred, Refers
<1>7. \A c \in credits', r \in rows' : c.ref = r.id => c.package = r.package
  BY <1>1 DEF Referred
<1> QED BY <1>1, <1>5, <1>6, <1>7 DEF Referred, Refers

LEMMA ReferredCredit ==
  ASSUME TypeOK, Records, Keys, Referred, NEW h \in Hooks, Credit(h)
  PROVE  Referred'
<1> DEFINE c == [ref |-> hooks[h].row.id, package |-> hooks[h].row.package]
<1>1. UNCHANGED rows /\ credits' = credits \cup {c}
  BY DEF Credit
<1>2. c.ref = hooks[h].row.id /\ c.package = hooks[h].row.package
  OBVIOUS
<1> HIDE DEF c
<1>3. /\ Others(h) /\ Open(h) /\ hooks[h].first /\ hooks'[h].first
      /\ hooks'[h].row = hooks[h].row
  BY CreditIs
<1>4. \A r \in rows : r.id # c.ref
  BY <1>2, <1>3 DEF TypeOK, Open
<1>5. ASSUME NEW g \in Hooks, Open(g)'
      PROVE  /\ Open(g) /\ hooks'[g].row = hooks[g].row
             /\ hooks[g].first => hooks'[g].first
             /\ g # h => hooks[g].row.id # c.ref
  <2>1. CASE g = h
    BY <1>3, <2>1
  <2>2. CASE g # h
    <3>1. Open(g) /\ hooks'[g] = hooks[g]
      BY <1>3, <1>5, <2>2, Elsewhere
    <3> QED BY <1>2, <1>3, <2>2, <3>1 DEF Keys
  <2> QED BY <2>1, <2>2
<1>6. \A d \in credits', r \in rows' : d.ref = r.id => d.package = r.package
  BY <1>1, <1>4 DEF Referred
<1>7. ASSUME NEW d \in credits', NEW g \in Hooks, Open(g)', d.ref = hooks'[g].row.id
      PROVE  d.package = hooks'[g].row.package /\ hooks'[g].first
  <2>1. CASE d \in credits
    BY <1>5, <1>7, <2>1 DEF Referred
  <2>2. CASE d = c
    <3>1. g = h
      BY <1>5, <1>7, <2>2
    <3> QED BY <1>2, <1>3, <2>2, <3>1
  <2> QED BY <1>1, <2>1, <2>2
<1>8. \A d \in credits' : Refers(d)' => d \in credits /\ Refers(d)
  BY <1>1, <1>4 DEF Refers
<1>9. \A b, d \in credits' :
        b.package = d.package /\ Refers(b)' /\ Refers(d)' => b = d
  BY <1>8 DEF Referred
<1> QED BY <1>6, <1>7, <1>9 DEF Referred, Refers

LEMMA ReferredBook ==
  ASSUME TypeOK, Records, Undisturbed, Referred, NEW h \in Hooks, Book(h), ~ raced'
  PROVE  Referred'
<1> DEFINE row == hooks[h].row
<1>1. rows' = rows \cup {row} /\ UNCHANGED credits /\ Open(h)
  BY BookIs
<1>2. \A g \in Hooks : ~ Open(g)'
  BY Alone
<1>3. \A c \in credits : c.ref = row.id =>
        c.package = row.package /\ First(row.package)
  BY <1>1 DEF Referred, Undisturbed
<1> HIDE DEF row
<1>4. \A c \in credits', r \in rows' : c.ref = r.id => c.package = r.package
  BY <1>1, <1>3 DEF Referred
<1>5. ASSUME NEW c \in credits, NEW d \in credits, c.package = d.package,
             Refers(c)', Refers(d)'
      PROVE  c = d
  <2>1. /\ Refers(c) \/ c.ref = row.id
        /\ Refers(d) \/ d.ref = row.id
    BY <1>1, <1>5 DEF Refers
  <2>2. CASE Refers(c) /\ Refers(d)
    BY <1>5, <2>2 DEF Referred
  <2>3. CASE c.ref = row.id \/ d.ref = row.id
    <3>1. c.package = row.package /\ d.package = row.package /\ First(row.package)
      BY <1>3, <1>5, <2>3
    <3>2. ~ Refers(c) /\ ~ Refers(d)
      BY <3>1 DEF Refers, Referred, First
    <3>3. c.ref = d.ref
      BY <2>1, <3>2
    <3> QED BY <1>5, <3>3 DEF TypeOK
  <2> QED BY <2>1, <2>2, <2>3
<1>6. \A c, d \in credits' :
        c.package = d.package /\ Refers(c)' /\ Refers(d)' => c = d
  BY <1>1, <1>5
<1> QED BY <1>2, <1>4, <1>6 DEF Referred, Refers

(* What an update that nothing disturbed makes of the rows: the row it has *)
(* read keeps its place, and a copy of it comes last.                      *)
LEMMA SaveAlike ==
  ASSUME TypeOK, Records, Keys, Undisturbed, NEW h \in Hooks, Reading(h),
         NEW seen \in Row, Written(h, seen)
  PROVE  \E old \in rows :
           /\ IsLatest(old) /\ Alike(hooks[h].row, old)
           /\ seen.id = old.id /\ seen.sub = old.sub /\ seen.package = old.package
           /\ seen.id \in Nat /\ seen.id <= lastId
           /\ Kept(h) = rows \ {old}
           /\ \A r \in rows : r = old \/ (r \in Kept(h) /\ r.id # old.id)
<1>1. PICK old \in rows : IsLatest(old) /\ Alike(hooks[h].row, old)
  BY DEF Undisturbed
<1>2. /\ seen.id = old.id /\ seen.sub = old.sub /\ seen.package = old.package
  BY <1>1 DEF Written, Alike
<1>3. \A r \in rows : r.id = old.id => r = old
  BY DEF TypeOK
<1>4. Kept(h) = rows \ {old}
  BY <1>1, <1>3 DEF Kept, Alike
<1>5. old.id \in Nat /\ old.id <= lastId
  BY Rows DEF TypeOK, Keys
<1> QED BY <1>1, <1>2, <1>3, <1>4, <1>5

LEMMA ReferredSave ==
  ASSUME TypeOK, Records, Keys, Undisturbed, Referred, NEW h \in Hooks, Save(h),
         ~ raced'
  PROVE  Referred'
<1>1. Reading(h)
  BY SaveIs
<1>2. PICK seen \in Row :
        Rewrites(h, seen) \/ \E copy \in Row : Replaces(h, seen, copy)
  BY SaveIs
<1>3. Written(h, seen)
  BY <1>2 DEF Rewrites, Replaces
<1>4. PICK old \in rows :
        /\ seen.id = old.id /\ seen.package = old.package
        /\ seen.id \in Nat /\ seen.id <= lastId
        /\ Kept(h) = rows \ {old}
  BY <1>1, <1>3, SaveAlike
<1>5. \A g \in Hooks : ~ Open(g)'
  BY Alone
<1>6. CASE Rewrites(h, seen)
  <2>1. rows' = Kept(h) \cup {seen} /\ UNCHANGED credits
    BY <1>6 DEF Rewrites
  <2> QED BY <1>4, <1>5, <2>1, ReferredKept
<1>7. CASE \E copy \in Row : Replaces(h, seen, copy)
  <2>1. PICK copy \in Row : Replaces(h, seen, copy)
    BY <1>7
  <2> DEFINE p == hooks[h].event.package
             c == [ref |-> lastId + 1, package |-> p]
  <2>2. c.ref = lastId + 1 /\ c.package = p
    OBVIOUS
  <2>3. /\ rows' = Kept(h) \cup {seen, copy}
        /\ copy.id = lastId + 1 /\ copy.package = p
        /\ credits' = credits \/ (First(p) /\ credits' = credits \cup {c})
    BY <2>1 DEF Replaces, CopyOf
  <2> HIDE DEF c, p
  <2>4. lastId \in Nat /\ \A r \in rows : r.id \in Nat /\ r.id <= lastId
    BY Rows, Bounds DEF TypeOK, Keys
  <2>5. \A d \in credits : d.ref \in Nat /\ d.ref <= lastId
    BY Bounds DEF TypeOK, Keys
  <2>6. \A q \in rows' : q = copy \/ \E r \in rows : q.id = r.id /\ q.package = r.package
    BY <1>4, <2>3
  <2>7. \A d \in credits', q \in rows' : d.ref = q.id => d.package = q.package
    <3>1. ASSUME NEW d \in credits, NEW q \in rows', d.ref = q.id
          PROVE  d.package = q.package
      <4>1. PICK r \in rows : q.id = r.id /\ q.package = r.package
        BY <2>3, <2>4, <2>5, <2>6, <3>1
      <4> QED BY <3>1, <4>1 DEF Referred
    <3>2. ASSUME NEW q \in rows', c.ref = q.id
          PROVE  c.package = q.package
      BY <2>2, <2>3, <2>4, <2>6, <3>2
    <3> QED BY <2>3, <3>1, <3>2
  <2>8. \A d \in credits : Refers(d)' => Refers(d)
    <3>1. ASSUME NEW d \in credits, NEW q \in rows', q.id = d.ref
          PROVE  Refers(d)
      <4>1. PICK r \in rows : q.id = r.id
        BY <2>3, <2>4, <2>5, <2>6, <3>1
      <4> QED BY <3>1, <4>1 DEF Refers
    <3> QED BY <3>1 DEF Refers
  <2>9. First(p) => \A d \in credits : Refers(d) => d.package # p
    BY DEF First, Refers, Referred
  <2>10. \A b, d \in credits' :
           b.package = d.package /\ Refers(b)' /\ Refers(d)' => b = d
    <3>1. \A b, d \in credits :
            b.package = d.package /\ Refers(b)' /\ Refers(d)' => b = d
      BY <2>8 DEF Referred
    <3>2. CASE credits' = credits
      BY <3>1, <3>2
    <3>3. CASE First(p) /\ credits' = credits \cup {c}
      BY <2>2, <2>8, <2>9, <3>1, <3>3
    <3> QED BY <2>3, <3>2, <3>3
  <2> QED BY <1>5, <2>7, <2>10 DEF Referred, Refers
<1> QED BY <1>2, <1>6, <1>7

LEMMA ReferredStep ==
  ASSUME TypeOK, Records, Keys, Sold, Undisturbed, Referred, [Next]_vars, ~ raced'
  PROVE  Referred'
<1>1. ASSUME UNCHANGED <<rows, credits>>,
             hooks' = hooks \/ \E h \in Hooks : Others(h) /\ hooks'[h] = Idle
      PROVE  Referred'
  <2>1. \A h \in Hooks : Open(h)' => Open(h) /\ hooks'[h] = hooks[h]
    BY <1>1, Cleared
  <2> QED BY <1>1, <2>1, ReferredKept
<1>2. ASSUME NEW h \in Hooks, Abort(h)
      PROVE  Referred'
  <2>1. UNCHANGED <<limits, rows, credits>> /\ hooks' = [hooks EXCEPT ![h] = Idle]
    BY <1>2 DEF Abort, dbVars
  <2> QED BY <1>1, <2>1, ClearIs
<1>3. ASSUME NEW h \in Hooks, Webhook(h)
      PROVE  Referred'
  BY <1>2, <1>3, ReferredBegin, ReferredCredit, ReferredBook, ReferredSave DEF Webhook
<1>4. CASE Warn \/ Release
  <2>1. /\ UNCHANGED <<credits, hooks>>
        /\ \A r \in rows : \E q \in rows' : Alike(q, r)
        /\ \A q \in rows' : \E r \in rows : Alike(q, r)
    BY <1>4, LevelIs
  <2> QED BY <2>1, ReferredKept DEF Alike, Open
<1>5. ASSUME NEW s \in Checkouts, Sale(s)
      PROVE  Referred'
  <2>1. UNCHANGED <<rows, credits, hooks>>
    BY <1>5, SaleIs DEF dbVars, Sold
  <2> QED BY <1>1, <2>1
<1>6. CASE Look \/ Tick \/ UNCHANGED vars
  <2>1. UNCHANGED <<rows, credits, hooks>>
    BY <1>6 DEF Look, Tick, vars, dbVars
  <2> QED BY <1>1, <2>1
<1>7. CASE Next
  BY <1>3, <1>4, <1>5, <1>6, <1>7, NextCases
<1> QED BY <1>6, <1>7

-----------------------------------------------------------------------------
(* How many rows are active. *)

LEMMA Exchanged ==
  ASSUME NEW A, IsFiniteSet(A), NEW old \in A, NEW x, NEW B,
         B \subseteq (A \ {old}) \cup {x}
  PROVE  Cardinality(B) <= Cardinality(A)
<1> DEFINE C == A \ {old}
           D == C \cup {x}
<1>1. /\ IsFiniteSet(C) /\ Cardinality(C) = Cardinality(A) - 1
  BY FS_RemoveElement
<1>2. Cardinality(A) \in Nat /\ Cardinality(C) \in Nat
  BY <1>1, FS_CardinalityType
<1> HIDE DEF C
<1>3. /\ IsFiniteSet(D)
      /\ Cardinality(D) = Cardinality(C) \/ Cardinality(D) = Cardinality(C) + 1
  BY <1>1, FS_AddElement
<1>4. B \in SUBSET D
  BY DEF C
<1> HIDE DEF D
<1>5. /\ IsFiniteSet(B) /\ Cardinality(B) <= Cardinality(D)
  BY <1>3, <1>4, FS_Subset
<1>6. Cardinality(B) \in Nat /\ Cardinality(D) \in Nat
  BY <1>3, <1>5, FS_CardinalityType
<1> QED BY <1>1, <1>2, <1>3, <1>5, <1>6

LEMMA ActiveFinite ==
  ASSUME TypeOK, NEW s
  PROVE  IsFiniteSet(ActiveRows(s)) /\ Cardinality(ActiveRows(s)) \in Nat
<1>1. ActiveRows(s) \in SUBSET rows
  BY DEF ActiveRows, OfStripe
<1>2. IsFiniteSet(ActiveRows(s))
  BY <1>1, FiniteRows, FS_Subset
<1> QED BY <1>2, FS_CardinalityType

LEMMA CountedBook ==
  ASSUME TypeOK, Records, Counted, NEW h \in Hooks, Book(h)
  PROVE  Counted'
<1>1. /\ rows' = rows \cup {hooks[h].row} /\ hooks[h].row \in Row
      /\ booked' = [booked EXCEPT ![hooks[h].row.sub] = booked[hooks[h].row.sub] + 1]
  BY BookIs
<1>2. hooks[h].row.sub \in Checkouts
  BY <1>1, Rows DEF TypeOK
<1>3. ASSUME NEW s \in Checkouts
      PROVE  Cardinality(ActiveRows(s)') <= booked'[s]
  <2>1. /\ IsFiniteSet(ActiveRows(s)) /\ Cardinality(ActiveRows(s)) \in Nat
        /\ Cardinality(ActiveRows(s)) <= booked[s] /\ booked[s] \in Nat
    BY ActiveFinite DEF Counted, Records
  <2>2. CASE s # hooks[h].row.sub
    <3>1. ActiveRows(s)' = ActiveRows(s)
      BY <1>1, <2>2 DEF ActiveRows, OfStripe
    <3>2. booked'[s] = booked[s]
      BY <1>1, <2>2 DEF Records
    <3> QED BY <2>1, <3>1, <3>2
  <2>3. CASE s = hooks[h].row.sub
    <3> DEFINE A == ActiveRows(s)
               x == hooks[h].row
    <3>1. ActiveRows(s)' \in SUBSET (A \cup {x})
      BY <1>1 DEF ActiveRows, OfStripe
    <3>2. booked'[s] = booked[s] + 1
      BY <1>1, <1>2, <2>3 DEF Records
    <3>3. /\ IsFiniteSet(A \cup {x})
          /\ Cardinality(A \cup {x}) = Cardinality(A) \/
             Cardinality(A \cup {x}) = Cardinality(A) + 1
      BY <2>1, FS_AddElement
    <3>4. /\ Cardinality(ActiveRows(s)') <= Cardinality(A \cup {x})
          /\ Cardinality(ActiveRows(s)') \in Nat
      BY <3>1, <3>3, FS_Subset, FS_CardinalityType
    <3> HIDE DEF A
    <3>5. Cardinality(A) \in Nat /\ Cardinality(A) <= booked[s]
      BY <2>1 DEF A
    <3> QED BY <2>1, <3>2, <3>3, <3>4, <3>5
  <2> QED BY <2>2, <2>3
<1> QED BY <1>3 DEF Counted

LEMMA CountedSave ==
  ASSUME TypeOK, Records, Keys, Undisturbed, Counted, NEW h \in Hooks, Save(h)
  PROVE  Counted'
<1>1. Reading(h) /\ UNCHANGED booked
  BY SaveIs
<1>2. PICK seen \in Row :
        Rewrites(h, seen) \/ \E copy \in Row : Replaces(h, seen, copy)
  BY SaveIs
<1>3. Written(h, seen)
  BY <1>2 DEF Rewrites, Replaces
<1>4. PICK old \in rows :
        /\ Alike(hooks[h].row, old) /\ seen.sub = old.sub
        /\ Kept(h) = rows \ {old}
  BY <1>1, <1>3, SaveAlike
<1>5. \E x : /\ x.sub = old.sub
             /\ x.status = "ACTIVE" => old.status = "ACTIVE"
             /\ \A q \in rows' : q.status = "ACTIVE" => q = x \/ q \in rows \ {old}
  <2>1. CASE Rewrites(h, seen)
    <3>1. /\ rows' = Kept(h) \cup {seen}
          /\ seen.status = old.status
      BY <1>4, <2>1 DEF Rewrites, Alike
    <3> QED BY <1>4, <3>1
  <2>2. CASE \E copy \in Row : Replaces(h, seen, copy)
    <3>1. PICK copy \in Row : Replaces(h, seen, copy)
      BY <2>2
    <3>2. /\ rows' = Kept(h) \cup {seen, copy} /\ seen.status = "INACTIVE"
          /\ copy.status = old.status /\ copy.sub = old.sub
      BY <1>4, <3>1 DEF Replaces, CopyOf, Alike
    <3> QED BY <1>4, <3>2
  <2> QED BY <1>2, <2>1, <2>2
<1>6. PICK x : /\ x.sub = old.sub
               /\ x.status = "ACTIVE" => old.status = "ACTIVE"
               /\ \A q \in rows' : q.status = "ACTIVE" => q = x \/ q \in rows \ {old}
  BY <1>5
<1>7. ASSUME NEW s \in Checkouts
      PROVE  Cardinality(ActiveRows(s)') <= booked'[s]
  <2>1. /\ IsFiniteSet(ActiveRows(s)) /\ Cardinality(ActiveRows(s)) \in Nat
        /\ Cardinality(ActiveRows(s)) <= booked[s] /\ booked[s] \in Nat
    BY ActiveFinite DEF Counted, Records
  <2>2. CASE old \in ActiveRows(s)
    <3>1. ActiveRows(s)' \subseteq (ActiveRows(s) \ {old}) \cup {x}
      BY <1>6 DEF ActiveRows, OfStripe
    <3>2. Cardinality(ActiveRows(s)') <= Cardinality(ActiveRows(s))
      BY <2>1, <2>2, <3>1, Exchanged
    <3>3. IsFiniteSet(ActiveRows(s) \cup {x})
      BY <2>1, FS_AddElement
    <3>4. ActiveRows(s)' \in SUBSET (ActiveRows(s) \cup {x})
      BY <3>1
    <3>5. Cardinality(ActiveRows(s)') \in Nat
      BY <3>3, <3>4, FS_Subset, FS_CardinalityType
    <3> QED BY <1>1, <2>1, <3>2, <3>5
  <2>3. CASE old \notin ActiveRows(s)
    <3>1. ActiveRows(s)' \in SUBSET ActiveRows(s)
      BY <1>4, <1>6, <2>3 DEF ActiveRows, OfStripe
    <3>2. /\ Cardinality(ActiveRows(s)') <= Cardinality(ActiveRows(s))
          /\ Cardinality(ActiveRows(s)') \in Nat
      BY <2>1, <3>1, FS_Subset, FS_CardinalityType
    <3> QED BY <1>1, <2>1, <3>2
  <2> QED BY <2>2, <2>3
<1> QED BY <1>7 DEF Counted

LEMMA CountedLevel ==
  ASSUME TypeOK, Records, Counted, Warn \/ Release
  PROVE  Counted'
<1>1. UNCHANGED booked
  BY LevelIs
<1>2. PICK k \in Levels \cup {NONE, RELEASED} : SetLevel(worker.row.sub, k)
  BY WarnIs, ReleaseIs
<1> DEFINE L(r) == Leveled(r, worker.row.sub, k)
<1>3. \A r \in rows : L(r).sub = r.sub /\ L(r).status = r.status
  BY LeveledIs DEF TypeOK
<1>4. /\ \A r \in rows : L(r) \in rows'
      /\ \A q \in rows' : \E r \in rows : q = L(r)
  BY <1>2, SetLevelIs DEF TypeOK
<1> HIDE DEF L
<1>5. ASSUME NEW s \in Checkouts
      PROVE  Cardinality(ActiveRows(s)') <= booked'[s]
  <2> DEFINE A == ActiveRows(s)
             B == ActiveRows(s)'
             f == [r \in A |-> L(r)]
  <2>1. /\ IsFiniteSet(A) /\ Cardinality(A) \in Nat
        /\ Cardinality(A) <= booked[s] /\ booked[s] \in Nat
    BY ActiveFinite DEF Counted, Records
  <2>2. \A r \in A : L(r) \in B
    BY <1>3, <1>4 DEF ActiveRows, OfStripe
  <2>3. \A q \in B : \E r \in A : q = L(r)
    BY <1>3, <1>4 DEF ActiveRows, OfStripe
  <2> HIDE DEF A, B
  <2>4. f \in Surjection(A, B)
    BY <2>2, <2>3 DEF Surjection
  <2>5. IsFiniteSet(B) /\ Cardinality(B) <= Cardinality(A)
    BY <2>1, <2>4, FS_Surjection
  <2>6. Cardinality(B) \in Nat
    BY <2>5, FS_CardinalityType
  <2>7. Cardinality(B) <= booked[s]
    BY <2>1, <2>5, <2>6
  <2> QED BY <1>1, <2>7 DEF B
<1> QED BY <1>5 DEF Counted

LEMMA CountedStep ==
  ASSUME TypeOK, Records, Keys, Sold, Undisturbed, Counted, [Next]_vars
  PROVE  Counted'
<1>1. CASE UNCHANGED <<rows, booked>>
  BY <1>1 DEF Counted, ActiveRows, OfStripe
<1>2. ASSUME NEW h \in Hooks, Webhook(h)
      PROVE  Counted'
  <2>1. CASE (\E e \in events : Begin(h, e) \/ Read(h, e)) \/ Credit(h) \/ Abort(h)
    <3>1. UNCHANGED <<rows, booked>>
      BY <2>1 DEF Begin, Read, Credit, Abort, dbVars, history
    <3> QED BY <1>1, <3>1
  <2> QED BY <1>2, <2>1, CountedBook, CountedSave DEF Webhook
<1>3. ASSUME NEW s \in Checkouts, Sale(s)
      PROVE  Counted'
  <2>1. UNCHANGED <<rows, booked>>
    BY <1>3, SaleIs DEF dbVars, history, Sold
  <2> QED BY <1>1, <2>1
<1>4. CASE Look \/ Tick \/ UNCHANGED vars
  <2>1. UNCHANGED <<rows, booked>>
    BY <1>4 DEF Look, Tick, vars, dbVars, history
  <2> QED BY <1>1, <2>1
<1>5. CASE Next
  BY <1>2, <1>3, <1>4, <1>5, NextCases, CountedLevel
<1> QED BY <1>4, <1>5

-----------------------------------------------------------------------------
(* What the latest row says. *)

LEMMA CurrentKept ==
  ASSUME TypeOK, Records, Current, UNCHANGED <<stripe, applied, stale>>,
         \A r \in rows : \E q \in rows' : Alike(q, r),
         \A q \in rows' : \E r \in rows : Alike(q, r),
         now' \in Nat, now <= now'
  PROVE  Current'
<1>1. ASSUME NEW q \in rows', IsLatest(q)', q.sub \notin stale,
             applied[q.sub] = stripe[q.sub].seq
      PROVE  Matches(q, stripe[q.sub])'
  <2>1. PICK r \in rows : Alike(q, r)
    OBVIOUS
  <2>2. IsLatest(r)
    BY <1>1, <2>1, LatestKept
  <2>3. Matches(r, stripe[r.sub])
    BY <1>1, <2>1, <2>2 DEF Current, Alike
  <2>4. r.until \in Nat /\ now \in Nat
    BY Rows, Bounds DEF TypeOK
  <2>5. q.sub = r.sub /\ q.package = r.package /\ q.until = r.until
    BY <2>1 DEF Alike
  <2>6. q.package = stripe'[q.sub].package
    BY <2>3, <2>5 DEF Matches
  <2>7. IF stripe'[q.sub].ended THEN q.until <= now' ELSE q.until = stripe'[q.sub].until
    <3>1. CASE stripe[r.sub].ended
      BY <2>3, <2>4, <2>5, <3>1 DEF Matches
    <3>2. CASE ~ stripe[r.sub].ended
      BY <2>3, <2>5, <3>2 DEF Matches
    <3> QED BY <3>1, <3>2
  <2> QED BY <2>6, <2>7 DEF Matches
<1> QED BY <1>1 DEF Current

LEMMA CurrentSale ==
  ASSUME TypeOK, Records, Sold, Current, NEW s \in Checkouts, Sale(s)
  PROVE  Current'
<1>1. PICK st \in StripeRecord :
        /\ st.package \in Packages
        /\ stripe' = [stripe EXCEPT ![s] = st]
        /\ Opened(s, st) \/ Paid(s, st) \/ Changed(s, st)
  BY SaleIs DEF Sold
<1>2. UNCHANGED <<now, rows, applied, stale>>
  BY SaleIs DEF Sold, dbVars, history
<1>3. stripe'[s] = st /\ \A t \in Checkouts : t # s => stripe'[t] = stripe[t]
  BY <1>1 DEF Records
<1>4. stripe[s].seq \in Nat /\ applied[s] \in Nat /\ applied[s] <= stripe[s].seq
  BY Subscribed DEF TypeOK, Records, Sold, Sent
<1>5. ASSUME NEW r \in rows, IsLatest(r), r.sub \notin stale,
             applied[r.sub] = stripe'[r.sub].seq
      PROVE  Matches(r, stripe[r.sub])'
  <2>1. r.sub \in Checkouts /\ stripe[r.sub].pc = "paid"
    BY Rows DEF TypeOK, Sold
  <2>2. CASE r.sub = s
    <3>1. st.seq = stripe[s].seq + 1
      BY <1>1, <2>1, <2>2 DEF Opened, Paid, Changed
    <3> QED BY <1>3, <1>4, <1>5, <2>2, <3>1
  <2>3. CASE r.sub # s
    <3>1. stripe'[r.sub] = stripe[r.sub]
      BY <1>3, <2>1, <2>3
    <3>2. Matches(r, stripe[r.sub])
      BY <1>5, <3>1 DEF Current
    <3> QED BY <1>2, <3>1, <3>2 DEF Matches
  <2> QED BY <2>2, <2>3
<1>6. \A r \in rows : IsLatest(r)' => IsLatest(r)
  BY <1>2 DEF IsLatest
<1> QED BY <1>2, <1>5, <1>6 DEF Current

(* An event was applied, and x is the latest row of its subscription. *)
LEMMA CurrentApplied ==
  ASSUME TypeOK, Records, Sent, Current,
         NEW e \in StripeEvent, Fits(e), Note(e), UNCHANGED <<now, stripe>>,
         NEW x, x.sub = e.sub,
         \A q \in rows' : q.sub # e.sub => q \in rows,
         \A r \in rows : r.sub # e.sub => r \in rows',
         \A q \in rows' : q.sub = e.sub /\ IsLatest(q)' => q = x,
         e.seq = stripe[e.sub].seq => Matches(x, stripe[e.sub])
  PROVE  Current'
<1>1. /\ applied'[e.sub] = applied[e.sub] \/ applied'[e.sub] = e.seq
      /\ e.seq <= applied'[e.sub]
      /\ \A t \in Checkouts : t # e.sub => applied'[t] = applied[t]
      /\ stale \subseteq stale'
      /\ e.seq < applied[e.sub] => e.sub \in stale'
  BY NoteIs DEF TypeOK
<1>2. e.sub \in Checkouts /\ e.seq \in Nat /\ applied[e.sub] \in Nat
  BY Events DEF TypeOK, Records
<1>3. ASSUME NEW q \in rows', IsLatest(q)', q.sub \notin stale',
             applied'[q.sub] = stripe[q.sub].seq
      PROVE  Matches(q, stripe[q.sub])
  <2>1. CASE q.sub = e.sub
    <3>1. e.seq = stripe[e.sub].seq
      BY <1>1, <1>2, <1>3, <2>1
    <3> QED BY <1>3, <2>1, <3>1
  <2>2. CASE q.sub # e.sub
    <3>1. q \in rows /\ q.sub \in Checkouts
      BY <2>2, Rows DEF TypeOK
    <3>2. IsLatest(q)
      BY <1>3, <2>2, <3>1 DEF IsLatest
    <3>3. q.sub \notin stale /\ applied[q.sub] = stripe[q.sub].seq
      BY <1>1, <1>3, <2>2, <3>1
    <3> QED BY <3>1, <3>2, <3>3 DEF Current
  <2> QED BY <2>1, <2>2
<1>4. \A q : Matches(q, stripe[q.sub])' <=> Matches(q, stripe[q.sub])
  BY DEF Matches
<1> QED BY <1>3, <1>4 DEF Current

LEMMA CurrentBook ==
  ASSUME TypeOK, Records, Keys, Sold, Undisturbed, Current, NEW h \in Hooks, Book(h)
  PROVE  Current'
<1> DEFINE row == hooks[h].row
           e == hooks[h].event
<1>1. /\ rows' = rows \cup {row} /\ row \in Row /\ e \in StripeEvent
      /\ Open(h) /\ Note(e) /\ UNCHANGED <<now, stripe>>
  BY BookIs
<1>2. /\ Sent /\ Fits(e) /\ row.sub = e.sub
  BY <1>1, HookParts DEF Sold
<1>3. \A r \in rows : r.id \in Nat /\ row.id \in Nat /\ r.id < row.id
  BY <1>1, Rows DEF TypeOK, Undisturbed
<1>4. e.seq = stripe[e.sub].seq => Matches(row, stripe[e.sub])
  <2>1. Purchase(h)
    BY <1>1 DEF Sold
  <2>2. e.seq = 0
    BY <1>2, <2>1 DEF Purchase, Fits
  <2>3. stripe[e.sub].seq = 0 => ~ stripe[e.sub].ended
    BY <1>1, <1>2, Events DEF Sent, TypeOK
  <2>4. stripe[e.sub].seq = 0 =>
          row.until = stripe[e.sub].until /\ row.package = stripe[e.sub].package
    BY <1>2, <2>1 DEF Purchase
  <2> QED BY <2>2, <2>3, <2>4 DEF Matches
<1> HIDE DEF row, e
<1>5. \A q \in rows' : q.sub = e.sub /\ IsLatest(q)' => q = row
  <2>1. ASSUME NEW q \in rows', q.sub = e.sub, IsLatest(q)'
        PROVE  q = row
    <3>1. row.id <= q.id
      BY <1>1, <1>2, <2>1 DEF IsLatest
    <3> QED BY <1>1, <1>3, <3>1
  <2> QED BY <2>1
<1>6. /\ \A q \in rows' : q.sub # e.sub => q \in rows
      /\ \A r \in rows : r.sub # e.sub => r \in rows'
  BY <1>1, <1>2
<1> QED BY <1>1, <1>2, <1>4, <1>5, <1>6, CurrentApplied

LEMMA CurrentSave ==
  ASSUME TypeOK, Records, Keys, Sold, Undisturbed, Current, NEW h \in Hooks, Save(h)
  PROVE  Current'
<1> DEFINE row == hooks[h].row
           e == hooks[h].event
<1>1. Reading(h) /\ Note(e) /\ UNCHANGED <<now, stripe>>
  BY SaveIs
<1>2. /\ Sent /\ Fits(e) /\ row.sub = e.sub /\ e \in StripeEvent
  BY <1>1, HookParts DEF Sold
<1>3. PICK seen \in Row :
        Rewrites(h, seen) \/ \E copy \in Row : Replaces(h, seen, copy)
  BY SaveIs
<1>4. Written(h, seen)
  BY <1>3 DEF Rewrites, Replaces
<1>5. PICK old \in rows :
        /\ IsLatest(old)
        /\ seen.id = old.id /\ seen.sub = old.sub
        /\ seen.id \in Nat /\ seen.id <= lastId
        /\ Kept(h) = rows \ {old}
        /\ \A r \in rows : r = old \/ (r \in Kept(h) /\ r.id # old.id)
  BY <1>1, <1>4, SaveAlike
<1>6. seen.sub = e.sub /\ old.sub = e.sub /\ seen.until = Expiry(e)
  BY <1>2, <1>4, <1>5 DEF Written
<1>7. \A r \in rows : r.id \in Nat /\ r.id <= lastId /\ lastId \in Nat
  BY Rows, Bounds DEF TypeOK, Keys
<1>8. \A r \in rows : r.sub = e.sub => r.id <= seen.id
  BY <1>5, <1>6 DEF IsLatest
<1>9. ASSUME NEW x, x.package = e.package, x.until = Expiry(e),
             e.seq = stripe[e.sub].seq
      PROVE  Matches(x, stripe[e.sub])
  <2>1. /\ e.package = stripe[e.sub].package /\ e.until = stripe[e.sub].until
        /\ e.ended = stripe[e.sub].ended
    BY <1>2, <1>9 DEF Fits
  <2>2. now \in Nat
    BY Bounds DEF TypeOK
  <2> HIDE DEF e
  <2>3. CASE e.ended
    BY <1>9, <2>1, <2>2, <2>3 DEF Matches, Expiry
  <2>4. CASE ~ e.ended
    BY <1>9, <2>1, <2>4 DEF Matches, Expiry
  <2> QED BY <2>3, <2>4
<1>10. CASE Rewrites(h, seen)
  <2>1. rows' = Kept(h) \cup {seen} /\ seen.package = e.package
    BY <1>4, <1>10 DEF Rewrites, Written
  <2> HIDE DEF e
  <2>2. \A q \in rows' : q.sub = e.sub /\ IsLatest(q)' => q = seen
    <3>1. ASSUME NEW q \in rows', q.sub = e.sub, IsLatest(q)', q # seen
          PROVE  FALSE
      <4>1. seen.id <= q.id
        BY <1>6, <2>1, <3>1 DEF IsLatest
      <4>2. q \in rows /\ q.id # seen.id /\ q.id <= seen.id
        BY <1>5, <1>8, <2>1, <3>1
      <4> QED BY <1>5, <1>7, <4>1, <4>2
    <3> QED BY <3>1
  <2>3. /\ \A q \in rows' : q.sub # e.sub => q \in rows
        /\ \A r \in rows : r.sub # e.sub => r \in rows'
    BY <1>5, <1>6, <2>1
  <2>4. e.seq = stripe[e.sub].seq => Matches(seen, stripe[e.sub])
    BY <1>6, <1>9, <2>1
  <2> QED BY <1>1, <1>2, <1>6, <2>2, <2>3, <2>4, CurrentApplied
<1>11. CASE \E copy \in Row : Replaces(h, seen, copy)
  <2>1. PICK copy \in Row : Replaces(h, seen, copy)
    BY <1>11
  <2>2. /\ rows' = Kept(h) \cup {seen, copy} /\ copy.id = lastId + 1
        /\ copy.package = e.package /\ copy.until = Expiry(e) /\ copy.sub = e.sub
    BY <1>2, <2>1 DEF Replaces, CopyOf
  <2> HIDE DEF e
  <2>3. \A q \in rows' : q.sub = e.sub /\ IsLatest(q)' => q = copy
    <3>1. ASSUME NEW q \in rows', q.sub = e.sub, IsLatest(q)', q # copy
          PROVE  FALSE
      <4>1. lastId + 1 <= q.id
        BY <2>2, <3>1 DEF IsLatest
      <4>2. q.id \in Nat /\ q.id <= lastId
        BY <1>5, <1>7, <2>2, <3>1
      <4> QED BY <1>5, <1>7, <4>1, <4>2
    <3> QED BY <3>1
  <2>4. /\ \A q \in rows' : q.sub # e.sub => q \in rows
        /\ \A r \in rows : r.sub # e.sub => r \in rows'
    BY <1>5, <1>6, <2>2
  <2>5. e.seq = stripe[e.sub].seq => Matches(copy, stripe[e.sub])
    BY <1>9, <2>2
  <2> QED BY <1>1, <1>2, <2>2, <2>3, <2>4, <2>5, CurrentApplied
<1> QED BY <1>3, <1>10, <1>11

LEMMA CurrentStep ==
  ASSUME TypeOK, Records, Keys, Sold, Undisturbed, Current, [Next]_vars
  PROVE  Current'
<1>1. ASSUME UNCHANGED <<rows, stripe, applied, stale>>, now' = now \/ now' = now + 1
      PROVE  Current'
  <2>1. now \in Nat
    BY Bounds DEF TypeOK
  <2>2. /\ \A r \in rows : \E q \in rows' : Alike(q, r)
        /\ \A q \in rows' : \E r \in rows : Alike(q, r)
    BY <1>1 DEF Alike
  <2>3. now' \in Nat /\ now <= now'
    BY <1>1, <2>1
  <2> QED BY <1>1, <2>2, <2>3, CurrentKept
<1>2. ASSUME NEW h \in Hooks, Webhook(h)
      PROVE  Current'
  <2>1. CASE (\E e \in events : Begin(h, e) \/ Read(h, e)) \/ Credit(h) \/ Abort(h)
    <3>1. UNCHANGED <<rows, stripe, applied, stale, now>>
      BY <2>1 DEF Begin, Read, Credit, Abort, dbVars, history, stripeVars
    <3> QED BY <1>1, <3>1
  <2> QED BY <1>2, <2>1, CurrentBook, CurrentSave DEF Webhook
<1>3. CASE Warn \/ Release
  <2>1. /\ UNCHANGED <<now, stripe, applied, stale>>
        /\ \A r \in rows : \E q \in rows' : Alike(q, r)
        /\ \A q \in rows' : \E r \in rows : Alike(q, r)
    BY <1>3, LevelIs
  <2>2. now' \in Nat /\ now <= now'
    BY <2>1, Bounds DEF TypeOK
  <2> QED BY <2>1, <2>2, CurrentKept
<1>4. CASE Look \/ Tick \/ UNCHANGED vars
  <2>1. /\ UNCHANGED <<rows, stripe, applied, stale>>
        /\ now' = now \/ now' = now + 1
    BY <1>4 DEF Look, Tick, vars, dbVars, history, stripeVars
  <2> QED BY <1>1, <2>1
<1>5. CASE Next
  BY <1>2, <1>3, <1>4, <1>5, NextCases, CurrentSale
<1> QED BY <1>4, <1>5

-----------------------------------------------------------------------------
(* The levels of warning: what the rows say of them, what the invocations  *)
(* have read, and what the worker has in hand.                             *)

LEMMA CopiesAre ==
  ASSUME TypeOK, Records
  PROVE  /\ \A c \in Copies : c \in Row /\ c.level \in Nat
         /\ \A w \in Seen : w \in Row /\ w.level \in Nat
         /\ \A r \in rows : r \in Row /\ r.level \in Nat
         /\ \A w \in Seen : worker.pc = "seen" /\ w = worker.row
         /\ worker.pc = "seen" => worker.row \in Seen
         /\ \A h \in Hooks : Reading(h) => hooks[h].row \in Copies
<1>1. Copies \subseteq Row
  BY HookParts DEF Copies
<1>2. Seen \subseteq Row
  BY WorkerParts DEF Seen
<1>3. \A h \in Hooks : Reading(h) => hooks[h].row \in Copies
  BY DEF Copies
<1>4. /\ \A w \in Seen : worker.pc = "seen" /\ w = worker.row
      /\ worker.pc = "seen" => worker.row \in Seen
  BY DEF Seen
<1>5. rows \subseteq Row /\ limits \in Limits
  BY DEF TypeOK
<1> QED BY <1>1, <1>2, <1>3, <1>4, <1>5, Rows

LEMMA CopiesKept ==
  ASSUME \A h \in Hooks : Reading(h)' => Reading(h) /\ hooks'[h] = hooks[h]
  PROVE  Copies' \subseteq Copies
BY DEF Copies

LEMMA LowerKept ==
  ASSUME Lower, UNCHANGED rows, Copies' \subseteq Copies, Seen' \subseteq Seen
  PROVE  Lower'
BY DEF Lower

LEMMA LowerRead ==
  ASSUME TypeOK, Records, Keys, Lower, NEW h \in Hooks, NEW e \in events, Read(h, e)
  PROVE  Lower' /\ Seen' = Seen /\ \A c \in Copies' : c \in Copies \/ c \in rows
<1> DEFINE l == Latest(e.sub)
<1>1. UNCHANGED <<rows, worker>>
  BY DEF Read, dbVars, quotaVars
<1>2. Others(h) /\ hooks'[h].row = l /\ IsLatest(l) /\ l \in rows
  BY ReadIs DEF IsLatest
<1> HIDE DEF l
<1>3. ASSUME NEW g \in Hooks, Reading(g)'
      PROVE  hooks'[g].row = l \/ hooks'[g].row \in Copies
  <2>1. CASE g = h
    BY <1>2, <2>1
  <2>2. CASE g # h
    <3>1. Reading(g) /\ hooks'[g] = hooks[g]
      BY <1>2, <1>3, <2>2, Elsewhere
    <3> QED BY <3>1 DEF Copies
  <2> QED BY <2>1, <2>2
<1>4. \A c \in Copies' : c = l \/ c \in Copies
  BY <1>3 DEF Copies
<1>5. Seen' = Seen
  BY <1>1 DEF Seen
<1>6. \A r \in rows : r.sub = l.sub => l.level <= r.level
  BY <1>2 DEF IsLatest, Lower
<1>7. \A w \in Seen : w.sub = l.sub => l.level <= w.level
  <2>1. ASSUME NEW w \in Seen, w.sub = l.sub
        PROVE  l.level <= w.level
    <3>1. w = worker.row /\ worker.pc = "seen"
      BY <2>1 DEF Seen
    <3>2. w.id <= l.id
      BY <1>2, <2>1, <3>1 DEF Keys, IsLatest
    <3> QED BY <1>2, <2>1, <3>2 DEF Lower
  <2> QED BY <2>1
<1>8. Lower'
  BY <1>1, <1>4, <1>5, <1>6, <1>7 DEF Lower
<1> QED BY <1>2, <1>4, <1>5, <1>8

LEMMA LowerLook ==
  ASSUME TypeOK, Records, Lower, Look
  PROVE  Lower' /\ Copies' = Copies /\ \A w \in Seen' : w \in rows
<1>1. /\ UNCHANGED <<rows, hooks>>
      /\ worker'.row \in rows
  BY LookIs DEF dbVars
<1>2. Copies' = Copies
  BY <1>1 DEF Copies, Reading
<1>3. \A w \in Seen' : w \in rows
  BY <1>1 DEF Seen
<1>4. Lower'
  BY <1>1, <1>2, <1>3 DEF Lower
<1> QED BY <1>2, <1>3, <1>4

(* Every row of a subscription gets a level that no copy is above. *)
LEMMA LowerLevel ==
  ASSUME TypeOK, Records, Lower, NEW s, NEW k \in Levels \cup {NONE, RELEASED},
         SetLevel(s, k), UNCHANGED hooks, worker' = Idle,
         \A c \in Copies : c.sub = s => c.level <= k
  PROVE  /\ Lower' /\ Copies' = Copies /\ Seen' = {}
         /\ \A q \in rows' : \/ q.sub = s /\ q.level = k
                             \/ q.sub # s /\ q \in rows
<1>1. k \in Nat
  BY Last
<1>2. \A q \in rows' : \E r \in rows : q = Leveled(r, s, k)
  BY SetLevelIs DEF TypeOK
<1>3. \A r \in rows :
        /\ Leveled(r, s, k).id = r.id /\ Leveled(r, s, k).sub = r.sub
        /\ r.sub = s => Leveled(r, s, k).level = k
        /\ r.sub # s => Leveled(r, s, k) = r
  <2>1. ASSUME NEW r \in rows
        PROVE  /\ Leveled(r, s, k).id = r.id /\ Leveled(r, s, k).sub = r.sub
               /\ r.sub = s => Leveled(r, s, k).level = k
    BY LeveledIs DEF TypeOK
  <2>2. \A r \in rows : r.sub # s => Leveled(r, s, k) = r
    BY DEF Leveled
  <2> QED BY <2>1, <2>2
<1>4. \A q \in rows' : \/ q.sub = s /\ q.level = k
                       \/ q.sub # s /\ q \in rows
  BY <1>2, <1>3
<1>5. Copies' = Copies
  BY DEF Copies, Reading
<1>6. Seen' = {}
  BY IdleIs DEF Seen
<1>7. \A q, r \in rows' : q.sub = r.sub /\ q.id <= r.id => r.level <= q.level
  BY <1>1, <1>4 DEF Lower
<1>8. \A c \in Copies', r \in rows' : r.sub = c.sub => c.level <= r.level
  BY <1>4, <1>5 DEF Lower
<1>9. Lower'
  BY <1>6, <1>7, <1>8 DEF Lower
<1> QED BY <1>4, <1>5, <1>6, <1>9

LEMMA LowerWarn ==
  ASSUME TypeOK, Records, Lower, Overdue, Warn
  PROVE  Lower' /\ Overdue'
<1> DEFINE w == worker.row
           s == worker.row.sub
<1>1. /\ worker.pc = "seen" /\ w \in Row /\ worker' = Idle
      /\ warned' = [warned EXCEPT ![s] = w.until]
      /\ UNCHANGED <<hooks, now>>
  BY WarnIs
<1>2. PICK k \in Levels : SetLevel(s, k) /\ k > w.level /\ w.until + k <= now
  BY WarnIs
<1>3. w \in Seen /\ w.level \in Nat /\ s \in Checkouts
  BY <1>1, CopiesAre, Rows DEF TypeOK
<1>4. k \in Nat /\ k <= LAST /\ LAST \in Nat
  BY Last
<1>5. \A c \in Copies : c.sub = s => c.level < k /\ c.level \in Nat
  <2>1. \A c \in Copies : c.sub = s => c.level <= w.level
    BY <1>3 DEF Lower
  <2> QED BY <1>2, <1>3, <1>4, <2>1, CopiesAre
<1> HIDE DEF s, w
<1>6. \A c \in Copies : c.sub = s => c.level <= k
  BY <1>4, <1>5
<1>7. /\ Lower' /\ Copies' = Copies /\ Seen' = {}
      /\ \A q \in rows' : \/ q.sub = s /\ q.level = k
                          \/ q.sub # s /\ q \in rows
  BY <1>1, <1>2, <1>6, LowerLevel
<1>8. warned'[s] = w.until /\ \A t \in Checkouts : t # s => warned'[t] = warned[t]
  BY <1>1, <1>3 DEF Records
<1>9. ASSUME NEW q \in rows', q.level = LAST
      PROVE  warned'[q.sub] + LAST <= now
  <2>1. CASE q.sub = s /\ q.level = k
    BY <1>2, <1>8, <1>9, <2>1
  <2>2. CASE q.sub # s /\ q \in rows
    <3>1. q.sub \in Checkouts
      BY <2>2, Rows DEF TypeOK
    <3> QED BY <1>8, <1>9, <2>2, <3>1 DEF Overdue
  <2> QED BY <1>7, <2>1, <2>2
<1>10. ASSUME NEW c \in Copies, c.level = LAST
       PROVE  warned'[c.sub] + LAST <= now
  <2>1. c.sub # s
    BY <1>4, <1>5, <1>10
  <2>2. c.sub \in Checkouts
    BY CopiesAre, Rows DEF TypeOK
  <2> QED BY <1>8, <1>10, <2>1, <2>2 DEF Overdue
<1>11. Overdue'
  BY <1>1, <1>7, <1>9, <1>10 DEF Overdue
<1> QED BY <1>7, <1>11

(* Other steps only pass on the levels that there are. *)
LEMMA OverdueKept ==
  ASSUME TypeOK, Records, Overdue, UNCHANGED warned, now' \in Nat, now <= now',
         \A q \in rows' \cup Copies' \cup Seen' :
           \/ q.level # LAST
           \/ \E r \in rows \cup Copies \cup Seen :
                r.sub = q.sub /\ r.level = q.level
  PROVE  Overdue'
<1>1. now \in Nat /\ LAST \in Nat
  BY Last, Bounds DEF TypeOK
<1>2. ASSUME NEW q \in rows' \cup Copies' \cup Seen', q.level = LAST
      PROVE  warned'[q.sub] + LAST <= now'
  <2>1. PICK r \in rows \cup Copies \cup Seen : r.sub = q.sub /\ r.level = q.level
    BY <1>2
  <2>2. warned[q.sub] + LAST <= now
    BY <1>2, <2>1 DEF Overdue
  <2>3. r \in Row
    BY CopiesAre
  <2>4. warned[q.sub] \in Nat
    BY <2>1, <2>3, Rows DEF TypeOK, Records
  <2> QED BY <1>1, <2>2, <2>4
<1> QED BY <1>2 DEF Overdue

LEMMA LowerRelease ==
  ASSUME TypeOK, Records, Lower, Overdue, Release
  PROVE  Lower' /\ Overdue'
<1> DEFINE s == worker.row.sub
<1>1. /\ worker' = Idle /\ SetLevel(s, RELEASED)
      /\ UNCHANGED <<hooks, now, warned>>
  BY ReleaseIs
<1>2. \A c \in Copies : c.level <= RELEASED
  BY CopiesAre, Last DEF Row
<1> HIDE DEF s
<1>3. /\ Lower' /\ Copies' = Copies /\ Seen' = {}
      /\ \A q \in rows' : \/ q.sub = s /\ q.level = RELEASED
                          \/ q.sub # s /\ q \in rows
  BY <1>1, <1>2, LowerLevel
<1>4. \A q \in rows' \cup Copies' \cup Seen' :
        q.level # LAST \/ q \in rows \cup Copies \cup Seen
  BY <1>3, Last
<1>5. now' \in Nat /\ now <= now'
  BY <1>1, Bounds DEF TypeOK
<1>6. Overdue'
  BY <1>1, <1>4, <1>5, OverdueKept
<1> QED BY <1>3, <1>6

(* Rows of one subscription are written with one level, that no other row *)
(* of it and not what the worker has is below, and they are the last ones. *)
LEMMA LowerWritten ==
  ASSUME Lower, Copies' = {}, UNCHANGED worker, NEW s, NEW l \in Nat,
         \A q \in rows' : q \in rows \/ (q.sub = s /\ q.level = l),
         \A r \in rows \cup Seen : r.sub = s => l <= r.level,
         \A q, r \in rows' :
           q.sub = s /\ r.sub = s /\ q.id <= r.id /\ q \notin rows => r.level <= l
  PROVE  Lower'
<1>1. Seen' = Seen
  BY DEF Seen
<1>2. ASSUME NEW q \in rows', NEW r \in rows', q.sub = r.sub, q.id <= r.id
      PROVE  r.level <= q.level
  <2>1. CASE q \in rows /\ r \in rows
    BY <1>2, <2>1 DEF Lower
  <2>2. CASE q \in rows /\ r \notin rows
    BY <1>2, <2>2
  <2>3. CASE q \notin rows
    BY <1>2, <2>3
  <2> QED BY <2>1, <2>2, <2>3
<1>3. ASSUME NEW w \in Seen, NEW r \in rows', r.sub = w.sub, w.id <= r.id
      PROVE  r.level <= w.level
  <2>1. CASE r \in rows
    BY <1>3, <2>1 DEF Lower
  <2>2. CASE r \notin rows
    BY <1>3, <2>2
  <2> QED BY <2>1, <2>2
<1> QED BY <1>1, <1>2, <1>3 DEF Lower

LEMMA LowerBook ==
  ASSUME TypeOK, Records, Keys, Sold, Undisturbed, Lower, Overdue,
         NEW h \in Hooks, Book(h), ~ raced'
  PROVE  Lower' /\ Overdue'
<1> DEFINE row == hooks[h].row
<1>1. /\ rows' = rows \cup {row} /\ row \in Row /\ Open(h)
      /\ UNCHANGED <<worker, now, warned>>
  BY BookIs DEF quotaVars
<1>2. Copies' = {}
  BY Alone
<1>3. row.level = NONE
  BY <1>1 DEF Sold, Purchase
<1>4. \A r \in rows : r.id \in Nat /\ row.id \in Nat /\ r.id < row.id
  BY <1>1, Rows DEF TypeOK, Undisturbed
<1> HIDE DEF row
<1>5. \A r \in rows \cup Seen : NONE <= r.level
  BY CopiesAre DEF NONE
<1>6. \A q, r \in rows' : q.id <= r.id /\ q \notin rows => r.level <= NONE
  BY <1>1, <1>3, <1>4 DEF NONE
<1>7. \A q \in rows' : q \in rows \/ (q.sub = row.sub /\ q.level = NONE)
  BY <1>1, <1>3
<1>8. Lower'
  BY <1>1, <1>2, <1>5, <1>6, <1>7, Last, LowerWritten
<1>9. Seen' = Seen
  BY <1>1 DEF Seen
<1>10. \A q \in rows' \cup Copies' \cup Seen' :
        q.level # LAST \/ q \in rows \cup Copies \cup Seen
  BY <1>2, <1>7, <1>9, Last
<1>11. now' \in Nat /\ now <= now'
  BY <1>1, Bounds DEF TypeOK
<1>12. Overdue'
  BY <1>1, <1>10, <1>11, OverdueKept
<1> QED BY <1>8, <1>12

LEMMA LowerSave ==
  ASSUME TypeOK, Records, Keys, Sold, Undisturbed, Lower, Overdue,
         NEW h \in Hooks, Save(h), ~ raced'
  PROVE  Lower' /\ Overdue'
<1> DEFINE c == hooks[h].row
           s == c.sub
           l == c.level
<1>1. Reading(h) /\ UNCHANGED <<worker, now, warned>>
  BY SaveIs DEF quotaVars
<1>2. Copies' = {}
  BY Alone
<1>3. c \in Copies /\ l \in Nat
  BY <1>1, CopiesAre
<1>4. PICK seen \in Row :
        Rewrites(h, seen) \/ \E copy \in Row : Replaces(h, seen, copy)
  BY SaveIs
<1>5. Written(h, seen)
  BY <1>4 DEF Rewrites, Replaces
<1>6. PICK old \in rows :
        /\ IsLatest(old) /\ Alike(c, old)
        /\ seen.id = old.id
        /\ seen.id \in Nat /\ seen.id <= lastId
        /\ Kept(h) = rows \ {old}
        /\ \A r \in rows : r = old \/ (r \in Kept(h) /\ r.id # old.id)
  BY <1>1, <1>5, SaveAlike
<1>7. /\ \A q \in rows' : q \in Kept(h) \/ (q.sub = s /\ q.level = l)
      /\ \A q \in rows' : \/ q \in Kept(h)
                          \/ q.id = old.id \/ q.id = lastId + 1
  <2>1. CASE Rewrites(h, seen)
    <3>1. rows' = Kept(h) \cup {seen} /\ seen.sub = s /\ seen.level = l
      BY <2>1 DEF Rewrites, Written
    <3> QED BY <1>6, <3>1
  <2>2. CASE \E copy \in Row : Replaces(h, seen, copy)
    <3>1. PICK copy \in Row : Replaces(h, seen, copy)
      BY <2>2
    <3>2. /\ rows' = Kept(h) \cup {seen, copy} /\ seen.sub = s /\ seen.level = l
          /\ copy.sub = s /\ copy.level = l /\ copy.id = lastId + 1
      BY <3>1 DEF Replaces, Written, CopyOf
    <3> QED BY <1>6, <3>2
  <2> QED BY <1>4, <2>1, <2>2
<1>8. \A r \in rows : r.id \in Nat /\ r.id <= lastId /\ lastId \in Nat
  BY Rows, Bounds DEF TypeOK, Keys
<1>9. \A r \in rows : r.sub = s => r.id <= old.id
  BY <1>6 DEF IsLatest, Alike
<1>10. \A r \in rows \cup Seen : r.sub = s => l <= r.level
  BY <1>3 DEF Lower
<1> HIDE DEF s, l, c
<1>11. ASSUME NEW q \in rows', NEW r \in rows', q.sub = s, r.sub = s, q.id <= r.id,
              q \notin rows
       PROVE  r.level <= l
  <2>1. CASE r \in Kept(h)
    <3>1. r \in rows /\ r.id # old.id /\ r.id <= old.id /\ old.id \in Nat
      BY <1>6, <1>8, <1>9, <1>11, <2>1
    <3>2. q.id = old.id \/ q.id = lastId + 1
      BY <1>6, <1>7, <1>11
    <3> QED BY <1>8, <1>11, <3>1, <3>2
  <2>2. CASE r \notin Kept(h)
    BY <1>3, <1>7, <2>2
  <2> QED BY <2>1, <2>2
<1>12. \A q \in rows' : q \in rows \/ (q.sub = s /\ q.level = l)
  BY <1>6, <1>7
<1>13. Lower'
  BY <1>1, <1>2, <1>3, <1>10, <1>11, <1>12, LowerWritten
<1>14. Seen' = Seen
  BY <1>1 DEF Seen
<1>15. \A q \in rows' \cup Copies' \cup Seen' :
         \E r \in rows \cup Copies \cup Seen : r.sub = q.sub /\ r.level = q.level
  BY <1>2, <1>3, <1>12, <1>14 DEF s, l
<1>16. now' \in Nat /\ now <= now'
  BY <1>1, Bounds DEF TypeOK
<1>17. Overdue'
  BY <1>1, <1>15, <1>16, OverdueKept
<1> QED BY <1>13, <1>17

LEMMA LowerStep ==
  ASSUME TypeOK, Records, Keys, Sold, Undisturbed, Lower, Overdue, [Next]_vars,
         ~ raced'
  PROVE  Lower' /\ Overdue'
<1>1. now \in Nat
  BY Bounds DEF TypeOK
<1>2. ASSUME UNCHANGED <<rows, worker, warned>>, now' = now \/ now' = now + 1,
             \A h \in Hooks : Reading(h)' => Reading(h) /\ hooks'[h] = hooks[h]
      PROVE  Lower' /\ Overdue'
  <2>1. Copies' \subseteq Copies /\ Seen' = Seen
    BY <1>2, CopiesKept DEF Seen
  <2>2. Lower'
    BY <1>2, <2>1, LowerKept
  <2>3. now' \in Nat /\ now <= now'
    BY <1>1, <1>2
  <2>4. \A q \in rows' \cup Copies' \cup Seen' : q \in rows \cup Copies \cup Seen
    BY <1>2, <2>1
  <2>5. Overdue'
    BY <1>2, <2>3, <2>4, OverdueKept
  <2> QED BY <2>2, <2>5
<1>3. ASSUME NEW h \in Hooks, Webhook(h)
      PROVE  Lower' /\ Overdue'
  <2>1. ASSUME (\E e \in events : Begin(h, e)) \/ Credit(h) \/ Abort(h)
        PROVE  Lower' /\ Overdue'
    <3>1. UNCHANGED <<rows, worker, warned, now>>
      BY <2>1 DEF Begin, Credit, Abort, dbVars, quotaVars
    <3>2. Others(h) /\ ~ Reading(h)'
      <4>1. ASSUME NEW e \in events, Begin(h, e)
            PROVE  Others(h) /\ hooks'[h].pc = "inserted"
        <5>1. Others(h) /\ hooks'[h] = Inserted(e) /\ lastId < limits.rows
          BY <4>1, BeginIs
        <5> QED BY <5>1, InsertedIs
      <4>2. Credit(h) => Others(h) /\ hooks'[h].pc = "credited"
        BY CreditIs
      <4>3. Abort(h) => Others(h) /\ hooks'[h].pc = "idle"
        BY ClearIs, IdleIs DEF Abort
      <4> QED BY <2>1, <4>1, <4>2, <4>3 DEF Reading
    <3>3. \A g \in Hooks : Reading(g)' => Reading(g) /\ hooks'[g] = hooks[g]
      BY <3>2, Elsewhere
    <3> QED BY <1>2, <3>1, <3>3
  <2>2. ASSUME NEW e \in events, Read(h, e)
        PROVE  Lower' /\ Overdue'
    <3>1. UNCHANGED <<rows, warned, now>>
      BY <2>2 DEF Read, dbVars, quotaVars
    <3>2. Lower' /\ Seen' = Seen /\ \A c \in Copies' : c \in Copies \/ c \in rows
      BY <2>2, LowerRead
    <3>3. \A q \in rows' \cup Copies' \cup Seen' : q \in rows \cup Copies \cup Seen
      BY <3>1, <3>2
    <3>4. now' \in Nat /\ now <= now'
      BY <1>1, <3>1
    <3>5. Overdue'
      BY <3>1, <3>3, <3>4, OverdueKept
    <3> QED BY <3>2, <3>5
  <2> QED BY <1>3, <2>1, <2>2, LowerBook, LowerSave DEF Webhook
<1>4. CASE Look
  <2>1. UNCHANGED <<rows, warned, now>>
    BY <1>4, LookIs DEF dbVars
  <2>2. Lower' /\ Copies' = Copies /\ \A w \in Seen' : w \in rows
    BY <1>4, LowerLook
  <2>3. \A q \in rows' \cup Copies' \cup Seen' : q \in rows \cup Copies \cup Seen
    BY <2>1, <2>2
  <2>4. now' \in Nat /\ now <= now'
    BY <1>1, <2>1
  <2>5. Overdue'
    BY <2>1, <2>3, <2>4, OverdueKept
  <2> QED BY <2>2, <2>5
<1>5. ASSUME NEW s \in Checkouts, Sale(s)
      PROVE  Lower' /\ Overdue'
  <2>1. UNCHANGED <<rows, worker, warned, now, hooks>>
    BY <1>5, SaleIs DEF dbVars, quotaVars, Sold
  <2> QED BY <1>2, <2>1 DEF Reading
<1>6. CASE Tick \/ UNCHANGED vars
  <2>1. /\ UNCHANGED <<rows, worker, warned, hooks>>
        /\ now' = now \/ now' = now + 1
    BY <1>6 DEF Tick, vars, dbVars, quotaVars
  <2> QED BY <1>2, <2>1 DEF Reading
<1>7. CASE Next
  BY <1>3, <1>4, <1>5, <1>6, <1>7, NextCases, LowerWarn, LowerRelease
<1> QED BY <1>6, <1>7

-----------------------------------------------------------------------------
(* When the storage is freed. *)

LEMMA EarlyStep ==
  ASSUME TypeOK, Records, Keys, Sold, EarlyOnlyIfExtended, Overdue, [Next]_vars,
         ~ raced, ~ raced'
  PROVE  EarlyOnlyIfExtended'
<1>1. \A f \in freed : f.age >= LAST \/ f.renewed
  BY Zenon DEF EarlyOnlyIfExtended
<1>2. ASSUME UNCHANGED freed
      PROVE  EarlyOnlyIfExtended'
  BY <1>1, <1>2 DEF EarlyOnlyIfExtended
<1>3. CASE Release
  <2> DEFINE w == worker.row
             renewed == warned[w.sub] # w.until
             f == [age |-> now - w.until, renewed |-> renewed]
  <2>1. /\ worker.pc = "seen" /\ w \in Row /\ w.level = LAST
        /\ freed' = freed \cup {f}
    BY <1>3, ReleaseIs
  <2>2. w \in Seen /\ w.until \in Nat /\ now \in Nat /\ LAST \in Nat
    BY <2>1, CopiesAre, Rows, Last, Bounds DEF TypeOK
  <2>3. warned[w.sub] + LAST <= now
    BY <2>1, <2>2 DEF Overdue
  <2>4. f.age = now - w.until /\ f.renewed = renewed
    OBVIOUS
  <2>5. ~ renewed => now - w.until >= LAST
    BY <2>2, <2>3
  <2> HIDE DEF f, renewed, w
  <2>6. f.age >= LAST \/ f.renewed
    <3>1. CASE renewed
      BY <2>4, <3>1
    <3>2. CASE ~ renewed
      BY <2>4, <2>5, <3>2
    <3> QED BY <3>1, <3>2
  <2>7. \A g \in freed' : g.age >= LAST \/ g.renewed
    BY <1>1, <2>1, <2>6
  <2> QED BY <2>7 DEF EarlyOnlyIfExtended
<1>4. ASSUME NEW h \in Hooks, Webhook(h)
      PROVE  UNCHANGED freed
  BY <1>4, Zenon DEF Webhook, Begin, Read, Credit, Book, Save, Abort, quotaVars
<1>5. ASSUME NEW s \in Checkouts, Sale(s)
      PROVE  UNCHANGED freed
  BY <1>5, SaleIs DEF quotaVars, Sold
<1>6. Look \/ Warn \/ Tick \/ UNCHANGED vars => UNCHANGED freed
  BY DEF Look, Warn, Tick, vars, quotaVars
<1>7. CASE Next
  BY <1>2, <1>3, <1>4, <1>5, <1>6, <1>7, NextCases
<1> QED BY <1>2, <1>6, <1>7

-----------------------------------------------------------------------------
(* The invariant *)

LEMMA InitHolds == Init => IInv
<1> SUFFICES ASSUME Init PROVE IInv
  OBVIOUS
<1>1. /\ limits \in Limits /\ now = 0 /\ lastId = 0 /\ faults = 0
      /\ events = {} /\ rows = {} /\ credits = {} /\ stale = {} /\ freed = {}
      /\ worker = Idle /\ hooks = [h \in Hooks |-> Idle]
      /\ booked = [s \in Checkouts |-> 0] /\ applied = [s \in Checkouts |-> 0]
      /\ warned = [s \in Checkouts |-> 0]
      /\ stripe = [s \in Checkouts |-> [pc |-> "none", package |-> 0,
                                        until |-> 0, over |-> FALSE,
                                        ended |-> FALSE, seq |-> 0]]
  BY DEF Init
<1>2. worker.pc = "idle" /\ \A h \in Hooks : hooks[h] = Idle /\ hooks[h].pc = "idle"
  BY <1>1, IdleIs
<1>3. \A h \in Hooks : ~ Open(h) /\ ~ Reading(h) /\ ~ Busy(h)
  BY <1>2 DEF Open, Reading, Busy
<1>4. Copies = {} /\ Seen = {}
  BY <1>2, <1>3 DEF Copies, Seen
<1>5. Records
  <2>1. \A s \in Checkouts : stripe[s] \in StripeRecord
    BY <1>1, Bounds DEF StripeRecord
  <2>2. stripe \in [Checkouts -> StripeRecord]
    BY <1>1, <2>1
  <2>3. hooks \in [Hooks -> {Idle} \cup InsertRecord \cup ReadRecord]
    BY <1>1
  <2> QED BY <1>1, <2>2, <2>3 DEF Records
<1>6. Scalars /\ Table
  BY <1>1, <1>3, Bounds DEF Scalars, Table
<1>7. TypeOK
  BY <1>5, <1>6, TypeIs
<1>8. Keys
  BY <1>1, <1>2, <1>3 DEF Keys
<1>9. Sent
  BY <1>1 DEF Sent
<1>10. Sold
  BY <1>1, <1>3, <1>9 DEF Sold
<1>11. EarlyOnlyIfExtended
  BY <1>1 DEF EarlyOnlyIfExtended
<1>12. Undisturbed
  BY <1>3 DEF Undisturbed
<1>13. Referred
  BY <1>1 DEF Referred
<1>14. Counted
  <2>1. \A s \in Checkouts : ActiveRows(s) = {}
    BY <1>1 DEF ActiveRows, OfStripe
  <2> QED BY <1>1, <2>1, FS_EmptySet DEF Counted
<1>15. Current /\ Lower /\ Overdue
  BY <1>1, <1>4 DEF Current, Lower, Overdue
<1>16. Calm
  BY <1>12, <1>13, <1>14, <1>15 DEF Calm
<1> QED BY <1>5, <1>7, <1>8, <1>10, <1>11, <1>16, Zenon DEF IInv

LEMMA NextHolds == IInv /\ [Next]_vars => IInv'
<1> SUFFICES ASSUME IInv, [Next]_vars PROVE IInv'
  OBVIOUS
<1>1. TypeOK /\ Records /\ Keys /\ Sold /\ EarlyOnlyIfExtended
  BY DEF IInv
<1>2. Sent
  BY <1>1 DEF Sold
<1>3. Records' /\ Scalars' /\ Table' /\ Keys' /\ Sold'
  BY <1>1, <1>2, RecordsStep, ScalarsStep, KeysStep, SoldStep
<1>4. TypeOK'
  <2>1. Records' => (TypeOK' <=> Scalars' /\ Table')
    BY TypeIs, PTL
  <2> QED BY <1>3, <2>1
<1>5. ASSUME ~ raced'
      PROVE  Calm' /\ EarlyOnlyIfExtended'
  <2>1. ~ raced
    BY <1>5, RacedKept
  <2>2. Calm
    BY <2>1, Zenon DEF IInv
  <2>3. Undisturbed /\ Referred /\ Counted /\ Current /\ Lower /\ Overdue
    BY <2>2 DEF Calm
  <2>4. Undisturbed' /\ Referred'
    BY <1>1, <1>5, <2>3, UndisturbedStep, ReferredStep
  <2>5. Counted' /\ Current'
    BY <1>1, <2>3, CountedStep, CurrentStep
  <2>6. Lower' /\ Overdue'
    BY <1>1, <1>5, <2>3, LowerStep
  <2>7. EarlyOnlyIfExtended'
    BY <1>1, <1>5, <2>1, <2>3, EarlyStep
  <2> QED BY <2>4, <2>5, <2>6, <2>7 DEF Calm
<1>6. CASE raced'
  <2>1. EarlyOnlyIfExtended'
    BY <1>6, Zenon DEF EarlyOnlyIfExtended
  <2> QED BY <1>3, <1>4, <1>6, <2>1, Zenon DEF IInv
<1>7. CASE ~ raced'
  BY <1>3, <1>4, <1>5, <1>7, Zenon DEF IInv
<1> QED BY <1>6, <1>7, Zenon

(* The invariant is inductive: every step of Stripe and of the owner, of   *)
(* an invocation of the webhook and of ExpiredSubscriptionsWorker          *)
(* preserves it.                                                           *)
THEOREM InvHolds == Spec => []IInv
<1>1. Init => IInv
  BY InitHolds
<1>2. IInv /\ [Next]_vars => IInv'
  BY NextHolds
<1> QED BY <1>1, <1>2, PTL DEF Spec

(* Types, and the key of the subscription table: an id names one row, and  *)
(* what an open transaction is to insert has an id that no row has.        *)
THEOREM TypeCorrect == Spec => []TypeOK
<1>1. IInv => TypeOK
  BY DEF IInv
<1> QED BY <1>1, InvHolds, PTL

LEMMA AtMostOne ==
  ASSUME NEW S, \A t, u \in S : t = u
  PROVE  Cardinality(S) <= 1
<1>1. CASE S = {}
  BY <1>1, FS_EmptySet
<1>2. CASE S # {}
  <2>1. PICK t \in S : S = {t}
    BY <1>2
  <2>2. Cardinality({t}) = 1
    BY FS_Singleton
  <2> QED BY <2>1, <2>2
<1> QED BY <1>1, <1>2

(* The credits of a package are given for its first subscription only: of  *)
(* the credits given for a package at most one refer to a row that exists, *)
(* unless two webhooks were handled at the same time.                      *)
THEOREM CreditsHold == Spec => []CreditsOnce
<1>1. IInv => CreditsOnce
  <2> SUFFICES ASSUME IInv PROVE CreditsOnce
    OBVIOUS
  <2>1. CASE raced
    BY <2>1, Zenon DEF CreditsOnce
  <2>2. CASE ~ raced
    <3>1. Calm
      BY <2>2, Zenon DEF IInv
    <3>2. Referred
      BY <3>1 DEF Calm
    <3>3. ASSUME NEW p \in Packages
          PROVE  Cardinality({c \in credits : /\ c.package = p
                                              /\ \E r \in rows : r.id = c.ref}) <= 1
      <4> DEFINE S == {c \in credits : c.package = p /\ \E r \in rows : r.id = c.ref}
      <4>1. \A c, d \in S : c = d
        BY <3>2 DEF Referred, Refers
      <4> HIDE DEF S
      <4>2. Cardinality(S) <= 1
        BY <4>1, AtMostOne
      <4> QED BY <4>2 DEF S
    <3> QED BY <3>3 DEF CreditsOnce
  <2> QED BY <2>1, <2>2
<1> QED BY <1>1, InvHolds, PTL

(* However often its package was changed, a Stripe subscription has at     *)
(* most as many active rows as its purchase was booked, unless two         *)
(* webhooks were handled at the same time.                                 *)
THEOREM RowsHold == Spec => []OneRowPerPurchase
<1>1. IInv => OneRowPerPurchase
  <2> SUFFICES ASSUME IInv PROVE OneRowPerPurchase
    OBVIOUS
  <2>1. CASE raced
    BY <2>1, Zenon DEF OneRowPerPurchase
  <2>2. CASE ~ raced
    <3>1. Calm
      BY <2>2, Zenon DEF IInv
    <3>2. \A s \in Checkouts :
            Cardinality({r \in OfStripe(s) : r.status = "ACTIVE"}) <= booked[s]
      BY <3>1, Zenon DEF Calm, Counted, ActiveRows
    <3> QED BY <3>2, Zenon DEF OneRowPerPurchase
  <2> QED BY <2>1, <2>2
<1> QED BY <1>1, InvHolds, PTL

(* When every event of a booked subscription was handled, in order and one *)
(* at a time, the latest row says what the last of them says: the package, *)
(* and the end of the period, or an expiry that is past if that event      *)
(* ended the subscription.                                                 *)
THEOREM UpToDateHolds == Spec => []UpToDate
<1>1. IInv => UpToDate
  <2> SUFFICES ASSUME IInv PROVE UpToDate
    OBVIOUS
  <2>1. TypeOK /\ Records /\ Sent
    BY DEF IInv, Sold
  <2>2. ASSUME NEW s \in Checkouts, OfStripe(s) # {}, ~ raced, s \notin stale,
               \A e \in events : e.sub # s
        PROVE  /\ Latest(s).package = stripe[s].package
               /\ IF stripe[s].ended THEN Latest(s).until <= now
                                    ELSE Latest(s).until = stripe[s].until
    <3>1. Calm
      BY <2>2, Zenon DEF IInv
    <3>2. Current
      BY <3>1 DEF Calm
    <3>3. IsLatest(Latest(s)) /\ Latest(s).sub = s
      BY <2>1, <2>2, LatestIs DEF TypeOK
    <3>4. stripe[s].seq \in Nat /\ applied[s] \in Nat
      BY <2>1, Subscribed DEF TypeOK, Records
    <3>5. applied[s] <= stripe[s].seq /\ stripe[s].seq <= applied[s]
      BY <2>1, <2>2 DEF Sent
    <3>6. applied[s] = stripe[s].seq
      BY <3>4, <3>5
    <3>7. Matches(Latest(s), stripe[s])
      BY <2>2, <3>2, <3>3, <3>6 DEF Current, IsLatest
    <3> QED BY <3>7 DEF Matches
  <2> QED BY <2>2, Zenon DEF UpToDate
<1> QED BY <1>1, InvHolds, PTL

(* Storage is freed before the age of the last warning only if the last    *)
(* warning was of another expiry, moved or of another row, unless two      *)
(* webhooks were handled at the same time.                                 *)
THEOREM EarlyHolds == Spec => []EarlyOnlyIfExtended
<1>1. IInv => EarlyOnlyIfExtended
  BY DEF IInv
<1> QED BY <1>1, InvHolds, PTL

(* No change of a subscription is lost, whatever fails and however events  *)
(* are repeated or overtake each other: the last change that Stripe made   *)
(* was applied, or its event is still to be delivered; and what was        *)
(* applied is never ahead of Stripe.                                       *)
THEOREM NothingLost ==
  Spec => [](\A s \in Checkouts :
               /\ applied[s] <= stripe[s].seq
               /\ \/ applied[s] = stripe[s].seq
                  \/ \E e \in events : e.sub = s /\ e.seq = stripe[s].seq)
<1> DEFINE Arrives ==
             \A s \in Checkouts :
               /\ applied[s] <= stripe[s].seq
               /\ \/ applied[s] = stripe[s].seq
                  \/ \E e \in events : e.sub = s /\ e.seq = stripe[s].seq
<1>1. IInv => Arrives
  <2> SUFFICES ASSUME IInv, NEW s \in Checkouts
               PROVE  /\ applied[s] <= stripe[s].seq
                      /\ \/ applied[s] = stripe[s].seq
                         \/ \E e \in events : e.sub = s /\ e.seq = stripe[s].seq
    OBVIOUS
  <2>1. TypeOK /\ Records /\ Sent
    BY DEF IInv, Sold
  <2>2. stripe[s].seq \in Nat /\ applied[s] \in Nat
    BY <2>1, Subscribed DEF TypeOK, Records
  <2> QED BY <2>1, <2>2 DEF Sent
<1> HIDE DEF Arrives
<1>2. Spec => []Arrives
  BY <1>1, InvHolds, PTL
<1> QED BY <1>2 DEF Arrives
=============================================================================
