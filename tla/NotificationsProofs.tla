------------------------ MODULE NotificationsProofs ------------------------
(***************************************************************************)
(* The notifications of invoices and payments for every number of          *)
(* requests, passes, executions, relays and failures: one event per        *)
(* request, a completed notification is at every relay, and only a paid    *)
(* invoice is notified and stays tracked.                                  *)
(***************************************************************************)
EXTENDS InvoiceNotifications, RegistryProofs, FiniteSetTheorems, Sequences

-----------------------------------------------------------------------------
(* Types.                                                                  *)

InvoiceItem == [id: InvoiceRequests, row: InvoiceRow]
PaymentItem == [id: PaymentRequests, row: PaymentRow]
Items == InvoiceItem \cup PaymentItem

Cuts == {"no", "deadline", "cancelled"}
SendPcs == {"relays", "publish", "acknowledge", "complete"}
HandlePcs == {"secret", "lookup", "decide"} \cup SendPcs

\* A pass at the head of a loop, and one that handles an item.
Loops == [pc: {"payments", "invoices"}, scope: Scopes, todo: SUBSET Items, cut: Cuts]
Handles ==
    [pc: HandlePcs, scope: Scopes, todo: SUBSET Items, cut: Cuts, item: Items,
     event: Workers \cup {NoEvent}, relays: SUBSET Relays, failed: BOOLEAN,
     paid: BOOLEAN, asked_at: Nat]

\* No two items of one request.
DistinctIds(todo) == \A i, j \in todo : i.id = j.id => i = j

LoopOK(q) ==
    /\ q \in Loops
    /\ q.todo \subseteq IF q.pc = "invoices" THEN InvoiceItem ELSE PaymentItem

HandleOK(q) ==
    /\ q \in Handles
    /\ q.item.id \in InvoiceRequests => q.item \in InvoiceItem /\ q.todo \subseteq InvoiceItem
    /\ q.item.id \notin InvoiceRequests => q.item \in PaymentItem /\ q.todo \subseteq PaymentItem
    /\ q.pc \in {"lookup", "decide"} => q.item.id \in InvoiceRequests
    /\ q.pc \in SendPcs => q.event \in Workers
    /\ q.pc \notin SendPcs => q.event = NoEvent
    /\ q.pc = "acknowledge" => q.relays # {}

PassOK(q) == q = PassIdle \/ ((LoopOK(q) \/ HandleOK(q)) /\ DistinctIds(q.todo))

Execution ==
    [pc: {"load", "create", "record", "respond"}, id: InvoiceRequests, at: Time,
     invoice: WalletInvoices \cup {Failed}]

ExecutionOK(x) ==
    x = EngineIdle \/ (x \in Execution /\ (x.pc = "record" => x.invoice \in WalletInvoices))

Types ==
    /\ NotificationsTypeOK
    /\ connections \in [ConnectionIds -> ConnectionRow]
    /\ cast \in Casts /\ now \in Time
    /\ engine \in [Engines -> Execution \cup {EngineIdle}]
    /\ \A p \in Engines : ExecutionOK(engine[p])
    /\ lease_owner \in [InvoiceRequests -> Engines \cup {Nobody}]
    /\ pass \in [Workers -> Loops \cup Handles \cup {PassIdle}]
    /\ \A w \in Workers : PassOK(pass[w])
    /\ made \in [WalletInvoices -> Nat]

-----------------------------------------------------------------------------
(***************************************************************************)
(* What is known of a request: by the ledger, by the relays, and by every  *)
(* pass that has loaded it and may act on it later.                        *)
(***************************************************************************)
Row(e) == IF e \in InvoiceRequests THEN created_invoices[e] ELSE sent_payments[e]

Busy(w) == pass[w].pc \in HandlePcs

\* The rows a pass has loaded and not done with.
Remembered(w) ==
    IF pass[w] = PassIdle THEN {}
    ELSE pass[w].todo \cup IF Busy(w) THEN {pass[w].item} ELSE {}

\* The event x is the notification of e for somebody.
Known(e, x) ==
    \/ Row(e) # NoRow /\ Row(e).event = x
    \/ \E r \in Relays : x \in received[e][r]
    \/ \E w \in Workers : Busy(w) /\ pass[w].item.id = e /\ pass[w].event = x
    \/ \E w \in Workers : \E i \in Remembered(w) : i.id = e /\ i.row.event = x

\* Nothing is stored for e.
Blank(e) == Row(e) = NoRow \/ Row(e).event = NoEvent

EventsInv ==
    \A e \in Requests : Kept(e) =>
        /\ \A x, y \in Workers : Known(e, x) /\ Known(e, y) => x = y
        /\ Blank(e) => \A x \in Workers : ~Known(e, x)

\* A relay that is not listed as undelivered has the event, and so has one
\* that is about to be acknowledged.
DeliveredInv ==
    /\ \A e \in Requests : Kept(e) /\ Row(e) # NoRow =>
           /\ Row(e).completed => Row(e).undelivered = {}
           /\ \A r \in Relays \ Row(e).undelivered : Row(e).event \in received[e][r]
    /\ \A w \in Workers : pass[w].pc = "acknowledge" =>
           pass[w].event \in received[pass[w].item.id][NextRelay(w)]

\* Invoice i was made for e.
MadeFor(e, i) ==
    \/ \E p \in Engines : engine[p] # EngineIdle /\ engine[p].id = e /\ engine[p].invoice = i
    \/ created_invoices[e] # NoRow /\ created_invoices[e].hash = i
    \/ answer[e] = i
    \/ \E w \in Workers : \E j \in Remembered(w) : j.id = e /\ j.row.hash = i

RowOf(row) == row.expires_at = made[row.hash] /\ row.revision = 0

InvoicesInv ==
    /\ \A e, f \in InvoiceRequests : \A i \in WalletInvoices :
           MadeFor(e, i) => made[i] # 0 /\ (MadeFor(f, i) => e = f)
    /\ \A e \in InvoiceRequests : created_invoices[e] # NoRow => RowOf(created_invoices[e])
    /\ \A w \in Workers : \A j \in Remembered(w) : j.id \in InvoiceRequests => RowOf(j.row)
    /\ \A e \in InvoiceRequests : lease_owner[e] \in Engines => answer[e] = Unanswered
    /\ \A i \in settled : \E e \in InvoiceRequests : answer[e] = i

PaidInv ==
    /\ \A e \in InvoiceRequests : \A x \in Workers : Known(e, x) => answer[e] \in settled
    /\ \A w \in Workers :
           /\ pass[w].pc = "secret" \/ (pass[w].pc = "decide" /\ pass[w].paid)
           /\ pass[w].item.id \in InvoiceRequests
           => answer[pass[w].item.id] \in settled

\* Invoice i was recorded for e, and may have been answered.
Recorded(e, i) ==
    \/ \E p \in Engines : engine[p].pc = "respond" /\ engine[p].id = e /\ engine[p].invoice = i
    \/ created_invoices[e] # NoRow /\ created_invoices[e].hash = i
    \/ answer[e] = i
    \/ \E w \in Workers : \E j \in Remembered(w) : j.id = e /\ j.row.hash = i

\* A request the clock has not overtaken: while it is executed none of its
\* invoices is past the grace period, its executions have recorded one invoice,
\* and that one is unpaid when its row is gone.
TrackedInv ==
    /\ \A e \in InvoiceRequests : \A i \in WalletInvoices : MadeFor(e, i) => made_for[i] = e
    /\ \A e \in InvoiceRequests \ overtaken : \A p \in Engines :
           Executing(p, e) => ~Outlived(e, now)
    /\ \A e \in InvoiceRequests \ overtaken : RevisionActive(ConnectionOf[e], 0) =>
           /\ \A i, j \in WalletInvoices : Recorded(e, i) /\ Recorded(e, j) => i = j
           /\ created_invoices[e] = NoRow =>
                  \A i \in WalletInvoices : Recorded(e, i) =>
                      now >= made[i] + Grace /\ i \notin settled
    /\ \A w \in Workers : pass[w].pc = "decide" =>
           /\ pass[w].asked_at <= now
           /\ ~pass[w].paid =>
                  /\ pass[w].item.id \in overtaken \/ now < pass[w].asked_at + Grace
                  /\ pass[w].item.row.hash \in settled =>
                         pass[w].asked_at < made[pass[w].item.row.hash]

-----------------------------------------------------------------------------
(* The order in which a pass takes its items.                              *)

LEMMA TimeIsNat == Time \subseteq Nat /\ \A e \in Requests : e \in Nat
BY RegistryAssumption, NotificationsAssumption DEF Time

LEMMA ItemFields ==
    ASSUME NEW i \in Items
    PROVE  /\ i.id \in Nat /\ i.row.created_at \in Nat
           /\ i.id \in Requests /\ i.row # NoRow
           /\ i = [id |-> i.id, row |-> i.row]
<1>1. CASE i \in InvoiceItem
  <2>1. i.id \in InvoiceRequests /\ i.row \in InvoiceRow /\ i = [id |-> i.id, row |-> i.row]
    BY <1>1 DEF InvoiceItem
  <2>2. i.row.created_at \in Time /\ i.row # NoRow
    BY <2>1 DEF InvoiceRow, NoRow
  <2> QED BY <2>1, <2>2, TimeIsNat DEF Requests
<1>2. CASE i \in PaymentItem
  <2>1. i.id \in PaymentRequests /\ i.row \in PaymentRow /\ i = [id |-> i.id, row |-> i.row]
    BY <1>2 DEF PaymentItem
  <2>2. i.row.created_at \in Time /\ i.row # NoRow
    BY <2>1 DEF PaymentRow, NoRow
  <2> QED BY <2>1, <2>2, TimeIsNat DEF Requests
<1> QED BY <1>1, <1>2 DEF Items

\* Items of different requests have a first one in either order.
LEMMA OldestExists ==
    ASSUME NEW todo \in SUBSET Items, DistinctIds(todo), todo # {}
    PROVE  \E i \in todo : \A j \in todo \ {i} : OlderPayment(i, j)
<1> DEFINE T == {i.row.created_at : i \in todo}
<1>1. T \in SUBSET Nat /\ T # {}
  BY ItemFields
<1>2. PICK t \in T : \A u \in T : t <= u
  BY <1>1, LeastExists
<1> DEFINE U == {i.id : i \in {j \in todo : j.row.created_at = t}}
<1>3. U \in SUBSET Nat /\ U # {}
  BY <1>2, ItemFields
<1>4. PICK u \in U : \A v \in U : u <= v
  BY <1>3, LeastExists
<1>5. PICK i \in todo : i.row.created_at = t /\ i.id = u
  BY <1>4
<1>6. ASSUME NEW j \in todo \ {i}
      PROVE  OlderPayment(i, j)
  <2>1. i.id # j.id /\ i.id \in Nat /\ j.id \in Nat
        /\ i.row.created_at \in Nat /\ j.row.created_at \in Nat
    BY <1>6, ItemFields DEF DistinctIds
  <2>2. t <= j.row.created_at
    BY <1>2, <1>6
  <2>3. j.row.created_at = t => u <= j.id
    BY <1>4, <1>6
  <2> QED BY <1>5, <2>1, <2>2, <2>3 DEF OlderPayment
<1> QED BY <1>6

LEMMA FirstPayment ==
    ASSUME NEW todo \in SUBSET Items, DistinctIds(todo), todo # {}
    PROVE  First(todo, OlderPayment) \in todo
BY OldestExists DEF First

LEMMA FirstInvoice ==
    ASSUME NEW todo \in SUBSET InvoiceItem, DistinctIds(todo), todo # {}
    PROVE  First(todo, LessRecentlyChecked) \in todo
<1> DEFINE T == {i.row.last_checked_at : i \in todo}
<1>0. \A i \in todo : i.row.last_checked_at \in Nat
  BY DEF InvoiceItem, InvoiceRow
<1>1. T \in SUBSET Nat /\ T # {}
  BY <1>0
<1>2. PICK t \in T : \A u \in T : t <= u
  BY <1>1, LeastExists
<1> DEFINE U == {i \in todo : i.row.last_checked_at = t}
<1>3. U \in SUBSET Items /\ U # {} /\ DistinctIds(U)
  BY <1>2 DEF Items, DistinctIds
<1>4. PICK i \in U : \A j \in U \ {i} : OlderPayment(i, j)
  <2> HIDE DEF U
  <2> QED BY <1>3, OldestExists
<1>5. ASSUME NEW j \in todo \ {i}
      PROVE  LessRecentlyChecked(i, j)
  <2>1. t <= j.row.last_checked_at /\ j.row.last_checked_at \in Nat /\ t \in Nat
        /\ i.row.last_checked_at = t
    BY <1>0, <1>1, <1>2, <1>4, <1>5
  <2>2. j.row.last_checked_at = t => OlderPayment(i, j)
    BY <1>4, <1>5
  <2> QED BY <2>1, <2>2 DEF LessRecentlyChecked
<1>6. \E x \in todo : \A j \in todo \ {x} : LessRecentlyChecked(x, j)
  BY <1>4, <1>5
<1> QED BY <1>6 DEF First

\* The relay a pass publishes to next.
LEMMA NextRelayChosen ==
    ASSUME NEW w \in Workers, pass[w].relays \in SUBSET Relays, pass[w].relays # {}
    PROVE  NextRelay(w) \in pass[w].relays /\ NextRelay(w) \in Relays
<1>1. Relays \subseteq Nat
  BY NotificationsAssumption DEF Relays
<1>2. \E r \in pass[w].relays : \A s \in pass[w].relays : r <= s
  BY <1>1, LeastExists
<1> QED BY <1>2 DEF NextRelay

-----------------------------------------------------------------------------
(***************************************************************************)
(* What a step of a pass may do, whichever it is.  It remembers what it    *)
(* did before or what the ledger says now; an invoice is taken for paid    *)
(* because the wallet says so now, and only a paid one gets an event.      *)
(***************************************************************************)
TablesOK ==
    /\ created_invoices \in [InvoiceRequests -> InvoiceRow \cup {NoRow}]
    /\ sent_payments \in [PaymentRequests -> PaymentRow \cup {NoRow}]

Fresh(i) == Row(i.id) # NoRow /\ i.row = Row(i.id)

Others(w) ==
    /\ pass' \in [Workers -> Loops \cup Handles \cup {PassIdle}]
    /\ \A v \in Workers \ {w} : pass'[v] = pass[v]

Remembers(w) == \A i \in Remembered(w)' : i \in Remembered(w) \/ Fresh(i)

Decides(w) ==
    pass'[w].pc = "decide" =>
        /\ Busy(w) /\ pass'[w].item = pass[w].item
        /\ \/ /\ pass[w].pc = "decide" /\ pass'[w].paid = pass[w].paid
              /\ pass'[w].asked_at = pass[w].asked_at
           \/ /\ pass'[w].asked_at = now
              /\ pass'[w].paid <=> (pass[w].item.row.hash \in settled)

Approves(w) ==
    pass'[w].pc = "secret" /\ pass'[w].item.id \in InvoiceRequests =>
        /\ Busy(w) /\ pass'[w].item = pass[w].item
        /\ pass[w].pc = "secret" \/ (pass[w].pc = "decide" /\ pass[w].paid)

Follows(w) ==
    PassOK(pass'[w]) /\ Others(w) /\ Remembers(w) /\ Decides(w) /\ Approves(w)

\* The pass goes on with its item and event, or takes an item as loaded.
Holds(w) ==
    Busy(w)' =>
        \/ /\ Busy(w) /\ pass'[w].item = pass[w].item /\ pass'[w].event = pass[w].event
           /\ pass'[w].pc = "acknowledge" =>
                  pass[w].pc = "acknowledge" /\ pass'[w].relays = pass[w].relays
        \/ /\ pass'[w].item \in Remembered(w) /\ pass'[w].pc # "acknowledge"
           /\ pass'[w].event = pass'[w].item.row.event

\* A row that is the same but for the time of the last check.
Like(old, new) ==
    \/ new = old
    \/ /\ old # NoRow /\ new # NoRow /\ new.event = old.event
       /\ new.undelivered = old.undelivered /\ new.completed = old.completed
       /\ new.hash = old.hash /\ new.expires_at = old.expires_at
       /\ new.revision = old.revision

RowsKept == TablesOK' /\ \A e \in Requests : Like(Row(e), Row(e)')

\* The row of e is the only one that changes.
RowOnly(e) == TablesOK' /\ \A f \in Requests \ {e} : Row(f)' = Row(f)

Quiet(w) == Follows(w) /\ Holds(w) /\ RowsKept /\ received' = received

Worker(w) ==
    \/ PassStep(w) \/ \E scope \in Scopes : Run(w, scope)
    \/ \E e \in InvoiceRequests : RunInvoice(w, e)
    \/ LookupFails(w) \/ PublishFails(w) \/ Cut(w) \/ Abort(w)

-----------------------------------------------------------------------------
(* The loaded rows.                                                        *)

LEMMA TypesParts ==
    ASSUME Types
    PROVE  /\ TablesOK
           /\ received \in [Requests -> [Relays -> SUBSET Workers]]
           /\ pass \in [Workers -> Loops \cup Handles \cup {PassIdle}]
           /\ \A w \in Workers : PassOK(pass[w])
           /\ NoEvent \notin Workers
BY NotificationsAssumption DEF Types, NotificationsTypeOK, TablesOK, NoEvent

LEMMA LoadedPayments ==
    ASSUME TablesOK, NEW S \in SUBSET Loaded(sent_payments, Pending(sent_payments))
    PROVE  S \subseteq PaymentItem /\ DistinctIds(S) /\ \A i \in S : Fresh(i)
<1>1. ASSUME NEW i \in S
      PROVE  /\ i.id \in PaymentRequests /\ sent_payments[i.id] # NoRow
             /\ i = [id |-> i.id, row |-> sent_payments[i.id]]
  <2>1. PICK e \in Pending(sent_payments) : i = [id |-> e, row |-> sent_payments[e]]
    BY DEF Loaded
  <2>2. e \in PaymentRequests /\ sent_payments[e] # NoRow
    BY <2>1 DEF Pending, TablesOK
  <2> QED BY <2>1, <2>2
<1>2. ASSUME NEW i \in S
      PROVE  i \in PaymentItem
  <2>1. sent_payments[i.id] \in PaymentRow
    BY <1>1 DEF TablesOK
  <2> QED BY <1>1, <2>1 DEF PaymentItem
<1>3. DistinctIds(S)
  BY <1>1 DEF DistinctIds
<1>4. ASSUME NEW i \in S
      PROVE  Fresh(i)
  <2>1. i.id \notin InvoiceRequests
    BY <1>1, NotificationsAssumption
  <2>2. i.row = sent_payments[i.id]
    BY <1>1
  <2> QED BY <1>1, <2>1, <2>2 DEF Fresh, Row
<1> QED BY <1>2, <1>3, <1>4

LEMMA LoadedInvoices ==
    ASSUME TablesOK, NEW S \in SUBSET Loaded(created_invoices, Pending(created_invoices))
    PROVE  S \subseteq InvoiceItem /\ DistinctIds(S) /\ \A i \in S : Fresh(i)
<1>1. ASSUME NEW i \in S
      PROVE  /\ i.id \in InvoiceRequests /\ created_invoices[i.id] # NoRow
             /\ i = [id |-> i.id, row |-> created_invoices[i.id]]
  <2>1. PICK e \in Pending(created_invoices) : i = [id |-> e, row |-> created_invoices[e]]
    BY DEF Loaded
  <2>2. e \in InvoiceRequests /\ created_invoices[e] # NoRow
    BY <2>1 DEF Pending, TablesOK
  <2> QED BY <2>1, <2>2
<1>2. ASSUME NEW i \in S
      PROVE  i \in InvoiceItem
  <2>1. created_invoices[i.id] \in InvoiceRow
    BY <1>1 DEF TablesOK
  <2> QED BY <1>1, <2>1 DEF InvoiceItem
<1>3. DistinctIds(S)
  BY <1>1 DEF DistinctIds
<1>4. ASSUME NEW i \in S
      PROVE  Fresh(i)
  <2>2. i.row = created_invoices[i.id]
    BY <1>1
  <2> QED BY <1>1, <2>2 DEF Fresh, Row
<1> QED BY <1>2, <1>3, <1>4

\* Every batch is a set of pending rows.
LEMMA Batches ==
    /\ PendingNwcSentPayments \subseteq Loaded(sent_payments, Pending(sent_payments))
    /\ PendingNwcInvoices \subseteq Loaded(created_invoices, Pending(created_invoices))
    /\ \A keys :
           /\ PendingNwcSentPaymentsForWallet(keys)
                  \subseteq Loaded(sent_payments, Pending(sent_payments))
           /\ PendingNwcInvoicesForWallet(keys)
                  \subseteq Loaded(created_invoices, Pending(created_invoices))
    /\ \A e : PendingNwcInvoice(e)
                  \subseteq Loaded(created_invoices, Pending(created_invoices))
BY DEF PendingNwcSentPayments, PendingNwcInvoices, PendingNwcSentPaymentsForWallet,
   PendingNwcInvoicesForWallet, PendingNwcInvoice, Batch, Loaded, OfWallet

-----------------------------------------------------------------------------
(* Where a step of a pass leads.                                           *)

LEMMA PcsDiffer ==
    /\ {"payments", "invoices", "idle"} \cap HandlePcs = {}
    /\ PassIdle.pc = "idle"
BY DEF HandlePcs, SendPcs, PassIdle

LEMMA BusyPass ==
    ASSUME Types, NEW w \in Workers, Busy(w)
    PROVE  HandleOK(pass[w]) /\ DistinctIds(pass[w].todo) /\ pass[w] # PassIdle
BY TypesParts, PcsDiffer DEF Busy, PassOK, LoopOK, Loops

LEMMA LoopPass ==
    ASSUME Types, NEW w \in Workers, pass[w].pc \in {"payments", "invoices"}
    PROVE  LoopOK(pass[w]) /\ DistinctIds(pass[w].todo) /\ pass[w] # PassIdle /\ ~Busy(w)
BY TypesParts, PcsDiffer DEF Busy, PassOK, HandleOK, Handles

LEMMA ToIdle ==
    ASSUME Types, NEW w \in Workers, pass' = [pass EXCEPT ![w] = PassIdle]
    PROVE  Follows(w) /\ Holds(w)
<1>1. pass'[w] = PassIdle /\ Others(w)
  BY TypesParts DEF Others
<1>2. ~Busy(w)' /\ Remembered(w)' = {}
  BY <1>1, PcsDiffer DEF Busy, Remembered
<1> QED BY <1>1, <1>2, PcsDiffer DEF Follows, PassOK, Remembers, Decides, Approves, Holds, PassIdle

LEMMA ToLoop ==
    ASSUME Types, NEW w \in Workers, NEW pc \in {"payments", "invoices"},
           NEW scope \in Scopes, NEW todo, NEW cut \in Cuts,
           pass' = [pass EXCEPT ![w] = Looping(pc, scope, todo, cut)],
           todo \subseteq IF pc = "invoices" THEN InvoiceItem ELSE PaymentItem,
           DistinctIds(todo),
           \A i \in todo : i \in Remembered(w) \/ Fresh(i)
    PROVE  Follows(w) /\ Holds(w)
<1>1. Looping(pc, scope, todo, cut) \in Loops
  BY DEF Looping, Loops, Items
<1>2. pass'[w] = Looping(pc, scope, todo, cut) /\ Others(w)
  BY <1>1, TypesParts DEF Others
<1>3. pass'[w].pc = pc /\ pass'[w].todo = todo
  BY <1>2 DEF Looping
<1>4. PassOK(pass'[w])
  BY <1>1, <1>2, <1>3 DEF PassOK, LoopOK
<1>5. ~Busy(w)' /\ pc \notin {"decide", "secret"}
  BY <1>3, PcsDiffer DEF Busy
<1>6. Remembered(w)' \subseteq todo
  BY <1>3, <1>5 DEF Remembered
<1> QED BY <1>2, <1>3, <1>4, <1>5, <1>6 DEF Follows, Remembers, Decides, Approves, Holds

\* The pass handles its item on, with other fields.
LEMMA ToBusy ==
    ASSUME Types, NEW w \in Workers, Busy(w), NEW q,
           pass' = [pass EXCEPT ![w] = q], HandleOK(q),
           q.item = pass[w].item, q.todo = pass[w].todo
    PROVE  PassOK(pass'[w]) /\ Others(w) /\ Remembers(w) /\ pass'[w] = q
<1>1. q \in Handles /\ DistinctIds(q.todo) /\ q.pc \in HandlePcs
  BY BusyPass DEF HandleOK, Handles
<1>2. pass'[w] = q /\ Others(w)
  BY <1>1, TypesParts DEF Others
<1>3. Remembered(w)' \subseteq Remembered(w)
  BY <1>1, <1>2, BusyPass, PcsDiffer DEF Remembered, Busy
<1> QED BY <1>1, <1>2, <1>3 DEF PassOK, Remembers

\* NextItem goes back to the loop the item came from.
LEMMA NextItemFollows ==
    ASSUME Types, NEW w \in Workers, Busy(w), NextItem(w)
    PROVE  Follows(w) /\ Holds(w)
<1> DEFINE pc == IF IsInvoice(w) THEN "invoices" ELSE "payments"
<1>1. /\ pass[w].scope \in Scopes /\ pass[w].cut \in Cuts /\ DistinctIds(pass[w].todo)
      /\ pass[w].todo \subseteq IF pc = "invoices" THEN InvoiceItem ELSE PaymentItem
      /\ pass[w].todo \subseteq Remembered(w)
  BY BusyPass DEF HandleOK, Handles, IsInvoice, Remembered
<1>2. pass' = [pass EXCEPT ![w] = Looping(pc, pass[w].scope, pass[w].todo, pass[w].cut)]
  BY TypesParts DEF NextItem
<1>3. pc \in {"payments", "invoices"}
  OBVIOUS
<1> HIDE DEF pc
<1> QED BY <1>1, <1>2, <1>3, ToLoop

\* The ledger stays as it is.
LEMMA TablesStay ==
    ASSUME Types, UNCHANGED ledgerVars
    PROVE  RowsKept
BY TypesParts DEF RowsKept, TablesOK, Like, Row, ledgerVars

-----------------------------------------------------------------------------
(* The steps that load rows and take one up.                               *)

LEMMA RunWorks ==
    ASSUME Types, NEW w \in Workers, NEW scope \in Scopes, Run(w, scope)
    PROVE  Quiet(w)
<1> DEFINE todo == IF scope = "all" THEN PendingNwcSentPayments
                   ELSE PendingNwcSentPaymentsForWallet(scope)
<1>1. todo \subseteq PaymentItem /\ DistinctIds(todo) /\ \A i \in todo : Fresh(i)
  BY Batches, LoadedPayments, TypesParts
<1>2. pass' = [pass EXCEPT ![w] = Looping("payments", scope, todo, "no")]
  BY DEF Run
<1> HIDE DEF todo
<1>3. Follows(w) /\ Holds(w)
  BY <1>1, <1>2, ToLoop DEF Cuts
<1> QED BY <1>3, TablesStay DEF Quiet, Run

LEMMA RunInvoiceWorks ==
    ASSUME Types, NEW w \in Workers, NEW e \in InvoiceRequests, RunInvoice(w, e)
    PROVE  Quiet(w)
<1>1. PendingNwcInvoice(e) \subseteq InvoiceItem /\ DistinctIds(PendingNwcInvoice(e))
      /\ \A i \in PendingNwcInvoice(e) : Fresh(i)
  BY Batches, LoadedInvoices, TypesParts
<1>2. pass' = [pass EXCEPT ![w] = Looping("invoices", "all", PendingNwcInvoice(e), "no")]
  BY DEF RunInvoice
<1>3. Follows(w) /\ Holds(w)
  BY <1>1, <1>2, ToLoop DEF Cuts, Scopes
<1> QED BY <1>3, TablesStay DEF Quiet, RunInvoice

LEMMA LoadInvoicesWorks ==
    ASSUME Types, NEW w \in Workers, LoadInvoices(w)
    PROVE  Quiet(w)
<1> DEFINE todo == IF pass[w].scope = "all" THEN PendingNwcInvoices
                   ELSE PendingNwcInvoicesForWallet(pass[w].scope)
<1>1. todo \subseteq InvoiceItem /\ DistinctIds(todo) /\ \A i \in todo : Fresh(i)
  BY Batches, LoadedInvoices, TypesParts
<1>2. pass' = [pass EXCEPT ![w] = Looping("invoices", "all", todo, pass[w].cut)]
  BY DEF LoadInvoices
<1>3. pass[w].cut \in Cuts
  BY LoopPass DEF LoadInvoices, LoopOK, Loops
<1> HIDE DEF todo
<1>4. Follows(w) /\ Holds(w)
  BY <1>1, <1>2, <1>3, ToLoop DEF Scopes
<1> QED BY <1>4, TablesStay DEF Quiet, LoadInvoices

LEMMA PassEndsWorks ==
    ASSUME Types, NEW w \in Workers, PassEnds(w) \/ Abort(w)
    PROVE  Quiet(w)
BY ToIdle, TablesStay DEF Quiet, PassEnds, Abort

-----------------------------------------------------------------------------
(* The steps that change what is known of a request.                       *)

\* A payment of a connection that is not active any more is dropped.
Discards(w) ==
    /\ Follows(w) /\ Holds(w) /\ received' = received
    /\ \E e \in PaymentRequests : RowOnly(e) /\ Row(e)' = NoRow /\ ~Kept(e)

\* An invoice without an event is given up, or its connection is not active.
Expires(w) ==
    /\ Follows(w) /\ Holds(w) /\ received' = received
    /\ pass[w].pc = "decide" /\ pass[w].item.id \in InvoiceRequests
    /\ \/ ~pass[w].paid /\ Stale(pass[w].item.row)
       \/ ~RevisionActive(ConnectionOf[pass[w].item.id], pass[w].item.row.revision)
    /\ \E e \in InvoiceRequests :
           /\ e = pass[w].item.id /\ RowOnly(e)
           /\ \/ Row(e)' = Row(e)
              \/ Row(e) # NoRow /\ Row(e).event = NoEvent /\ Row(e)' = NoRow

\* The event of a row is stored, unless there is one, and taken up.
Stores(w) ==
    /\ Follows(w) /\ received' = received /\ pass[w].pc = "secret"
    /\ pass'[w].pc = "relays" /\ pass'[w].item = pass[w].item
    /\ \E e \in Requests :
           /\ e = pass[w].item.id /\ RowOnly(e) /\ Row(e) # NoRow
           /\ Row(e)' = WithEvent(Row(e), w)
           /\ pass'[w].event = Row(e)'.event

\* The relay has the event of the pass.
Publishes(w) ==
    /\ Follows(w) /\ RowsKept
    /\ pass[w].pc = "publish" /\ pass'[w].pc = "acknowledge"
    /\ pass'[w].item = pass[w].item /\ pass'[w].event = pass[w].event
    /\ pass'[w].relays = pass[w].relays /\ pass[w].relays # {}
    /\ Accept(w, NextRelay(w))

Misses(w) ==
    /\ Follows(w) /\ Holds(w) /\ RowsKept
    /\ pass[w].pc = "publish" /\ pass[w].relays # {}
    /\ Accept(w, NextRelay(w)) \/ received' = received

Acknowledges(w) ==
    /\ Follows(w) /\ Holds(w) /\ received' = received
    /\ pass[w].pc = "acknowledge"
    /\ \E e \in Requests : /\ e = pass[w].item.id /\ RowOnly(e)
                           /\ Row(e)' = Acknowledged(Row(e), NextRelay(w))

Completes(w) ==
    /\ Follows(w) /\ Holds(w) /\ received' = received
    /\ \E e \in Requests : RowOnly(e) /\ Row(e)' = Completed(Row(e))

\* One row of either table is replaced.
LEMMA InvoiceReplaced ==
    ASSUME TablesOK, NEW e \in InvoiceRequests, NEW row \in InvoiceRow \cup {NoRow},
           created_invoices' = [created_invoices EXCEPT ![e] = row],
           UNCHANGED sent_payments
    PROVE  RowOnly(e) /\ Row(e)' = row
BY DEF RowOnly, TablesOK, Row

LEMMA PaymentReplaced ==
    ASSUME TablesOK, NEW e \in PaymentRequests, NEW row \in PaymentRow \cup {NoRow},
           sent_payments' = [sent_payments EXCEPT ![e] = row],
           UNCHANGED created_invoices
    PROVE  RowOnly(e) /\ Row(e)' = row
<1>1. e \notin InvoiceRequests
  BY NotificationsAssumption
<1> QED BY <1>1 DEF RowOnly, TablesOK, Row

\* An item is taken up as it was loaded.
LEMMA ToItem ==
    ASSUME Types, NEW w \in Workers, LoopOK(pass[w]), DistinctIds(pass[w].todo),
           pass[w] # PassIdle,
           NEW item \in pass[w].todo, NEW pc \in HandlePcs, pc \notin {"acknowledge", "decide"},
           pc \in SendPcs <=> item.row.event # NoEvent,
           pc = "lookup" => pass[w].pc = "invoices",
           pc = "secret" => pass[w].pc = "payments",
           pass' = [pass EXCEPT ![w] = Handling(pc, pass[w], item)]
    PROVE  Follows(w) /\ Holds(w)
<1> DEFINE q == Handling(pc, pass[w], item)
<1>1. /\ pass[w] \in Loops /\ item \in Items
      /\ item.row.event \in Workers \cup {NoEvent}
  BY DEF LoopOK, Loops, Items, InvoiceItem, PaymentItem, InvoiceRow, PaymentRow
<1>2. q \in Handles
  BY <1>1 DEF Handling, Handles, Loops
<1>3. /\ q.pc = pc /\ q.item = item /\ q.todo = pass[w].todo \ {item}
      /\ q.event = item.row.event /\ q.relays = {}
  BY DEF Handling
<1>4. \/ item \in InvoiceItem /\ pass[w].todo \subseteq InvoiceItem /\ pass[w].pc = "invoices"
      \/ item \in PaymentItem /\ pass[w].todo \subseteq PaymentItem /\ pass[w].pc = "payments"
  BY DEF LoopOK, Loops
<1>5. /\ item \in InvoiceItem => item.id \in InvoiceRequests
      /\ item \in PaymentItem => item.id \notin InvoiceRequests
  BY NotificationsAssumption DEF InvoiceItem, PaymentItem
<1>6. HandleOK(q)
  <2>1. pc \in SendPcs => item.row.event \in Workers
    BY <1>1
  <2>2. q.todo \subseteq pass[w].todo
    BY <1>3
  <2>3. pc \in {"lookup", "decide"} => item.id \in InvoiceRequests
    BY <1>4, <1>5
  <2>4. /\ item.id \in InvoiceRequests => item \in InvoiceItem /\ q.todo \subseteq InvoiceItem
        /\ item.id \notin InvoiceRequests => item \in PaymentItem /\ q.todo \subseteq PaymentItem
    BY <1>4, <1>5, <2>2
  <2> HIDE DEF q
  <2> QED BY <1>2, <1>3, <2>1, <2>3, <2>4 DEF HandleOK
<1>7. DistinctIds(q.todo)
  BY <1>3 DEF DistinctIds
<1> HIDE DEF q
<1>8. pass'[w] = q /\ Others(w)
  BY <1>2, TypesParts DEF Others, q
<1>9. Remembered(w)' \subseteq Remembered(w) /\ item \in Remembered(w)
  BY <1>3, <1>8 DEF Remembered
<1>10. pc = "secret" => item.id \notin InvoiceRequests
  BY <1>4, <1>5
<1> QED BY <1>3, <1>6, <1>7, <1>8, <1>9, <1>10
        DEF Follows, PassOK, Remembers, Decides, Approves, Holds

LEMMA NextPaymentWorks ==
    ASSUME Types, NEW w \in Workers, NextPayment(w)
    PROVE  Quiet(w) \/ Discards(w)
<1>1. /\ LoopOK(pass[w]) /\ DistinctIds(pass[w].todo) /\ pass[w] # PassIdle
      /\ pass[w].todo # {} /\ pass[w].todo \subseteq PaymentItem /\ pass[w].pc = "payments"
      /\ pass[w].scope \in Scopes /\ pass[w].cut \in Cuts
  BY LoopPass DEF NextPayment, LoopOK, Loops
<1>2. PICK item \in pass[w].todo : item = First(pass[w].todo, OlderPayment)
  BY <1>1, FirstPayment DEF LoopOK, Loops
<1>3. CASE RevisionActive(ConnectionOf[item.id], item.row.revision)
  <2>1. PICK pc \in {"secret", "relays"} :
            /\ pc = IF item.row.event = NoEvent THEN "secret" ELSE "relays"
            /\ pass' = [pass EXCEPT ![w] = Handling(pc, pass[w], item)]
    BY <1>2, <1>3 DEF NextPayment
  <2>2. /\ pc \in HandlePcs /\ pc \notin {"acknowledge", "decide"} /\ pc # "lookup"
        /\ (pc \in SendPcs <=> item.row.event # NoEvent)
    BY <2>1 DEF HandlePcs, SendPcs
  <2>3. Follows(w) /\ Holds(w)
    BY <1>1, <2>1, <2>2, ToItem
  <2>4. UNCHANGED ledgerVars /\ received' = received
    BY <1>2, <1>3 DEF NextPayment, ledgerVars
  <2> QED BY <2>3, <2>4, TablesStay DEF Quiet
<1>4. CASE ~RevisionActive(ConnectionOf[item.id], item.row.revision)
  <2>1. /\ sent_payments' = [sent_payments EXCEPT ![item.id] = NoRow]
        /\ pass' = [pass EXCEPT ![w].todo = pass[w].todo \ {item}]
        /\ UNCHANGED created_invoices /\ received' = received
    BY <1>2, <1>4 DEF NextPayment, DiscardNwcSentPayment
  <2>2. PICK e \in PaymentRequests : e = item.id
    BY <1>1, <1>2 DEF PaymentItem
  <2>3. RowOnly(e) /\ Row(e)' = NoRow /\ ~Kept(e)
    <3>1. item.row.revision = 0 /\ e \notin InvoiceRequests
      BY <1>1, <1>2, <2>2, NotificationsAssumption DEF PaymentItem, PaymentRow
    <3>2. ~Kept(e)
      BY <1>4, <2>2, <3>1 DEF Kept
    <3> QED BY <2>1, <2>2, <3>2, PaymentReplaced, TypesParts
  <2> DEFINE todo == pass[w].todo \ {item}
  <2>4. pass' = [pass EXCEPT ![w] = Looping("payments", pass[w].scope, todo, pass[w].cut)]
    <3>1. pass[w] = Looping("payments", pass[w].scope, pass[w].todo, pass[w].cut)
      BY <1>1 DEF LoopOK, Loops, Looping
    <3>2. [pass[w] EXCEPT !.todo = todo] = Looping("payments", pass[w].scope, todo, pass[w].cut)
      BY <3>1 DEF Looping
    <3> QED BY <2>1, <3>2
  <2>5. /\ todo \subseteq PaymentItem /\ DistinctIds(todo)
        /\ \A i \in todo : i \in Remembered(w)
    BY <1>1 DEF DistinctIds, Remembered
  <2> HIDE DEF todo
  <2>6. Follows(w) /\ Holds(w)
    BY <1>1, <2>4, <2>5, ToLoop
  <2> QED BY <2>1, <2>3, <2>6 DEF Discards
<1> QED BY <1>3, <1>4

\* A check changes nothing but the order of the checks.
LEMMA TouchKeeps ==
    ASSUME TablesOK, NEW e \in InvoiceRequests, now \in Nat, TouchNwcInvoice(e, now),
           UNCHANGED sent_payments
    PROVE  RowsKept
<1> DEFINE pending == Pending(created_invoices)
           table == Touched(e, now)
           ahead == \A d \in pending : table[d].last_checked_at > now + 1
<1>1. CASE e \notin pending
  <2>1. created_invoices' = created_invoices
    BY <1>1 DEF TouchNwcInvoice
  <2> QED BY <2>1 DEF RowsKept, TablesOK, Like, Row
<1>2. CASE e \in pending
  <2>1. created_invoices[e] \in InvoiceRow /\ created_invoices[e] # NoRow
    BY <1>2 DEF Pending, TablesOK
  <2>2. PICK next \in Nat : table = [created_invoices EXCEPT ![e].last_checked_at = next]
    <3>1. created_invoices[e].last_checked_at \in Nat
      BY <2>1 DEF InvoiceRow
    <3> QED BY <3>1 DEF Touched
  <2>3. \A d \in InvoiceRequests : d # e => table[d] = created_invoices[d]
    BY <2>2 DEF TablesOK
  <2>4. table[e] = [created_invoices[e] EXCEPT !.last_checked_at = next]
    BY <2>2 DEF TablesOK
  <2>5. table[e] \in InvoiceRow /\ table[e] # NoRow /\ Like(created_invoices[e], table[e])
    BY <2>1, <2>4 DEF InvoiceRow, NoRow, Like
  <2> HIDE DEF table
  <2>6. ASSUME NEW d \in pending
        PROVE  table[d] \in InvoiceRow /\ table[d] # NoRow /\ Like(created_invoices[d], table[d])
    <3>1. d \in InvoiceRequests /\ created_invoices[d] \in InvoiceRow /\ created_invoices[d] # NoRow
      BY <2>6 DEF Pending, TablesOK
    <3> QED BY <2>3, <2>5, <3>1 DEF Like
  <2>7. created_invoices' = [d \in InvoiceRequests |->
                     IF d \in pending /\ ahead
                     THEN [table[d] EXCEPT !.last_checked_at = table[d].last_checked_at - 1]
                     ELSE table[d]]
    BY <1>2 DEF TouchNwcInvoice, table
  <2>8. ASSUME NEW d \in pending, ahead
        PROVE  /\ created_invoices'[d] \in InvoiceRow /\ created_invoices'[d] # NoRow
               /\ Like(created_invoices[d], created_invoices'[d])
    <3>1. PICK row : row = table[d]
      OBVIOUS
    <3>2. row.last_checked_at > now + 1 /\ row \in InvoiceRow
      BY <2>6, <2>8, <3>1
    <3>3. row.last_checked_at - 1 \in Nat
      BY <3>2 DEF InvoiceRow
    <3>4. d \in InvoiceRequests
      BY <2>8 DEF Pending, TablesOK
    <3>5. created_invoices'[d] = [row EXCEPT !.last_checked_at = row.last_checked_at - 1]
      BY <2>7, <2>8, <3>1, <3>4
    <3>6. /\ created_invoices'[d] \in InvoiceRow /\ created_invoices'[d] # NoRow
          /\ Like(row, created_invoices'[d])
      BY <3>2, <3>3, <3>5 DEF InvoiceRow, NoRow, Like
    <3>7. Like(created_invoices[d], row)
      BY <2>6, <2>8, <3>1
    <3> QED BY <3>1, <3>6, <3>7, <2>6, <2>8 DEF Like
  <2>9. ASSUME NEW d \in InvoiceRequests
        PROVE  /\ created_invoices'[d] \in InvoiceRow \cup {NoRow}
               /\ Like(created_invoices[d], created_invoices'[d])
    <3>1. CASE d \in pending /\ ahead
      BY <2>8, <3>1
    <3>2. CASE ~(d \in pending /\ ahead)
      <4>1. created_invoices'[d] = table[d]
        BY <2>7, <3>2
      <4>2. CASE d \in pending
        BY <2>6, <4>1, <4>2
      <4>3. CASE d \notin pending
        BY <1>2, <2>3, <4>1, <4>3 DEF TablesOK, Like
      <4> QED BY <4>2, <4>3
    <3> QED BY <3>1, <3>2
  <2>10. created_invoices' \in [InvoiceRequests -> InvoiceRow \cup {NoRow}]
    BY <2>7, <2>9
  <2> HIDE DEF pending, ahead
  <2> QED BY <2>9, <2>10 DEF RowsKept, TablesOK, Row, Like
<1> QED BY <1>1, <1>2

LEMMA NextInvoiceWorks ==
    ASSUME Types, NEW w \in Workers, NextInvoice(w)
    PROVE  Quiet(w)
<1>1. /\ LoopOK(pass[w]) /\ DistinctIds(pass[w].todo) /\ pass[w] # PassIdle
      /\ pass[w].todo # {} /\ pass[w].todo \subseteq InvoiceItem /\ pass[w].pc = "invoices"
  BY LoopPass DEF NextInvoice, LoopOK, Loops
<1>2. PICK item \in pass[w].todo : item = First(pass[w].todo, LessRecentlyChecked)
  BY <1>1, FirstInvoice
<1>3. PICK pc \in {"lookup", "relays"} :
          /\ pc = IF item.row.event = NoEvent THEN "lookup" ELSE "relays"
          /\ pass' = [pass EXCEPT ![w] = Handling(pc, pass[w], item)]
  BY <1>2 DEF NextInvoice
<1>4. /\ pc \in HandlePcs /\ pc \notin {"acknowledge", "decide"} /\ pc # "secret"
      /\ (pc \in SendPcs <=> item.row.event # NoEvent)
  BY <1>3 DEF HandlePcs, SendPcs
<1>5. Follows(w) /\ Holds(w)
  BY <1>1, <1>3, <1>4, ToItem
<1>6. TouchNwcInvoice(item.id, now) /\ UNCHANGED sent_payments /\ received' = received
  BY <1>2 DEF NextInvoice
<1>7. item.id \in InvoiceRequests /\ now \in Nat
  BY <1>1, <1>2, TimeIsNat DEF InvoiceItem, Types
<1>8. RowsKept
  BY <1>6, <1>7, TouchKeeps, TypesParts
<1> QED BY <1>5, <1>6, <1>8 DEF Quiet

LEMMA LookupWorks ==
    ASSUME Types, NEW w \in Workers, LookupInvoice(w) \/ LookupFails(w)
    PROVE  Quiet(w)
<1>1. Busy(w) /\ pass[w].pc = "lookup" /\ RowsKept /\ received' = received
  BY TablesStay DEF LookupInvoice, LookupFails, Busy, HandlePcs
<1>2. CASE NextItem(w)
  BY <1>1, <1>2, NextItemFollows DEF Quiet
<1>3. CASE ~NextItem(w)
  <2> DEFINE settles == pass[w].item.row.hash \in settled
             q == [pass[w] EXCEPT !.pc = "decide", !.asked_at = now, !.paid = settles]
  <2>1. pass' = [pass EXCEPT ![w] = q]
    BY <1>3, TypesParts DEF LookupInvoice, LookupFails
  <2>2. HandleOK(pass[w]) /\ now \in Nat /\ settles \in BOOLEAN
    BY <1>1, BusyPass, TimeIsNat DEF Types
  <2>3. /\ HandleOK(q) /\ q.item = pass[w].item /\ q.todo = pass[w].todo
        /\ q.event = pass[w].event /\ q.pc = "decide" /\ q.asked_at = now
        /\ q.paid = settles
    BY <1>1, <2>2 DEF HandleOK, Handles, HandlePcs, SendPcs
  <2> HIDE DEF q
  <2>4. PassOK(pass'[w]) /\ Others(w) /\ Remembers(w) /\ pass'[w] = q
    BY <1>1, <2>1, <2>3, ToBusy
  <2> QED BY <1>1, <2>3, <2>4 DEF Quiet, Follows, Decides, Approves, Holds
<1> QED BY <1>2, <1>3

LEMMA DecisionWorks ==
    ASSUME Types, NEW w \in Workers, DeferOrExpireInvoice(w) \/ CheckConnection(w)
    PROVE  Quiet(w) \/ Expires(w)
<1>1. /\ Busy(w) /\ pass[w].pc = "decide" /\ HandleOK(pass[w])
      /\ pass[w].item.id \in InvoiceRequests
  BY BusyPass DEF DeferOrExpireInvoice, CheckConnection, Busy, HandlePcs, HandleOK
<1>2. UNCHANGED sent_payments /\ received' = received
  BY DEF DeferOrExpireInvoice, CheckConnection
<1>3. CASE NextItem(w) /\ UNCHANGED created_invoices
  BY <1>1, <1>2, <1>3, NextItemFollows, TablesStay DEF Quiet, ledgerVars
<1>4. CASE /\ NextItem(w) /\ ExpireNwcInvoice(pass[w].item.id)
           /\ \/ ~pass[w].paid /\ Stale(pass[w].item.row)
              \/ ~RevisionActive(ConnectionOf[pass[w].item.id], pass[w].item.row.revision)
  <2>1. PICK e \in InvoiceRequests : e = pass[w].item.id
    BY <1>1
  <2>2. PICK row : /\ created_invoices' = [created_invoices EXCEPT ![e] = row]
                   /\ row = IF created_invoices[e] # NoRow /\ created_invoices[e].event = NoEvent
                            THEN NoRow ELSE created_invoices[e]
    BY <1>4, <2>1 DEF ExpireNwcInvoice
  <2>3. row \in InvoiceRow \cup {NoRow} /\ Row(e) = created_invoices[e]
    BY <2>2, TypesParts DEF TablesOK, Row
  <2>4. RowOnly(e) /\ Row(e)' = row
    BY <1>2, <2>2, <2>3, InvoiceReplaced, TypesParts
  <2>5. Follows(w) /\ Holds(w)
    BY <1>1, <1>4, NextItemFollows
  <2> QED BY <1>1, <1>2, <1>4, <2>1, <2>2, <2>3, <2>4, <2>5 DEF Expires
<1>5. CASE GotoPass(w, "secret") /\ UNCHANGED created_invoices /\ pass[w].paid
  <2> DEFINE q == [pass[w] EXCEPT !.pc = "secret"]
  <2>1. pass' = [pass EXCEPT ![w] = q]
    BY <1>5, TypesParts DEF GotoPass
  <2>2. /\ HandleOK(q) /\ q.item = pass[w].item /\ q.todo = pass[w].todo
        /\ q.event = pass[w].event /\ q.pc = "secret"
    BY <1>1 DEF HandleOK, Handles, HandlePcs, SendPcs
  <2> HIDE DEF q
  <2>3. PassOK(pass'[w]) /\ Others(w) /\ Remembers(w) /\ pass'[w] = q
    BY <1>1, <2>1, <2>2, ToBusy
  <2> QED BY <1>1, <1>2, <1>5, <2>2, <2>3, TablesStay
          DEF Quiet, Follows, Decides, Approves, Holds, ledgerVars
<1> QED BY <1>3, <1>4, <1>5 DEF DeferOrExpireInvoice, CheckConnection

\* The window closes: nothing but `cut' changes.
LEMMA CutWorks ==
    ASSUME Types, NEW w \in Workers, Cut(w)
    PROVE  Quiet(w)
<1>1. PICK why \in Cuts : pass' = [pass EXCEPT ![w] = [pass[w] EXCEPT !.cut = why]]
  BY TypesParts DEF Cut, Cuts
<1>2. RowsKept /\ received' = received /\ pass[w] # PassIdle
  BY TablesStay DEF Cut
<1>3. CASE Busy(w)
  <2> DEFINE q == [pass[w] EXCEPT !.cut = why]
  <2>1. HandleOK(pass[w])
    BY <1>3, BusyPass
  <2>2. /\ HandleOK(q) /\ q.item = pass[w].item /\ q.todo = pass[w].todo
        /\ q.event = pass[w].event /\ q.pc = pass[w].pc /\ q.relays = pass[w].relays
        /\ q.asked_at = pass[w].asked_at /\ q.paid = pass[w].paid
    BY <2>1 DEF HandleOK, Handles, HandlePcs, SendPcs
  <2>3. pass' = [pass EXCEPT ![w] = q]
    BY <1>1
  <2> HIDE DEF q
  <2>4. PassOK(pass'[w]) /\ Others(w) /\ Remembers(w) /\ pass'[w] = q
    BY <1>3, <2>2, <2>3, ToBusy
  <2> QED BY <1>2, <1>3, <2>2, <2>4 DEF Quiet, Follows, Decides, Approves, Holds
<1>4. CASE ~Busy(w)
  <2>1. /\ LoopOK(pass[w]) /\ DistinctIds(pass[w].todo) /\ pass[w].scope \in Scopes
        /\ pass[w].pc \in {"payments", "invoices"}
    BY <1>2, <1>4, TypesParts DEF PassOK, HandleOK, Handles, Busy, LoopOK, Loops
  <2>2. [pass[w] EXCEPT !.cut = why] = Looping(pass[w].pc, pass[w].scope, pass[w].todo, why)
    BY <2>1 DEF LoopOK, Loops, Looping
  <2>3. /\ \A i \in pass[w].todo : i \in Remembered(w)
        /\ pass[w].todo \subseteq IF pass[w].pc = "invoices" THEN InvoiceItem ELSE PaymentItem
    BY <1>2, <2>1 DEF Remembered, LoopOK
  <2>4. Follows(w) /\ Holds(w)
    BY <1>1, <2>1, <2>2, <2>3, ToLoop
  <2> QED BY <1>2, <2>4 DEF Quiet
<1> QED BY <1>3, <1>4

LEMMA LoadRelaysWorks ==
    ASSUME Types, NEW w \in Workers, LoadRelays(w)
    PROVE  Quiet(w)
<1>1. /\ Busy(w) /\ pass[w].pc = "relays" /\ HandleOK(pass[w])
      /\ RowsKept /\ received' = received
  BY BusyPass, TablesStay DEF LoadRelays, Busy, HandlePcs, SendPcs
<1>2. PICK relays : /\ pass' = [pass EXCEPT ![w] = [pass[w] EXCEPT !.pc = "publish",
                                                              !.relays = relays]]
                    /\ relays = IF IsInvoice(w) THEN Undelivered(created_invoices[pass[w].item.id])
                                ELSE Undelivered(sent_payments[pass[w].item.id])
  BY TypesParts DEF LoadRelays, UndeliveredNwcInvoiceRelays, UndeliveredNwcSentRelays
<1>3. relays \in SUBSET Relays
  <2>1. \A row \in InvoiceRow \cup PaymentRow \cup {NoRow} : Undelivered(row) \in SUBSET Relays
    BY DEF Undelivered, InvoiceRow, PaymentRow
  <2>2. ~IsInvoice(w) => pass[w].item.id \in PaymentRequests
    BY <1>1 DEF IsInvoice, HandleOK, PaymentItem
  <2> QED BY <1>2, <2>1, <2>2, TypesParts DEF TablesOK, IsInvoice
<1> DEFINE q == [pass[w] EXCEPT !.pc = "publish", !.relays = relays]
<1>4. /\ HandleOK(q) /\ q.item = pass[w].item /\ q.todo = pass[w].todo
      /\ q.event = pass[w].event /\ q.pc = "publish"
  BY <1>1, <1>3 DEF HandleOK, Handles, HandlePcs, SendPcs
<1>5. pass' = [pass EXCEPT ![w] = q]
  BY <1>2
<1> HIDE DEF q
<1>6. PassOK(pass'[w]) /\ Others(w) /\ Remembers(w) /\ pass'[w] = q
  BY <1>1, <1>4, <1>5, ToBusy
<1> QED BY <1>1, <1>4, <1>6 DEF Quiet, Follows, Decides, Approves, Holds

LEMMA StoreEventWorks ==
    ASSUME Types, NEW w \in Workers, StoreEvent(w)
    PROVE  Quiet(w) \/ Stores(w)
<1>1. /\ Busy(w) /\ pass[w].pc = "secret" /\ HandleOK(pass[w]) /\ DistinctIds(pass[w].todo)
      /\ received' = received /\ pass[w].scope \in Scopes /\ pass[w].cut \in Cuts
  BY BusyPass DEF StoreEvent, Busy, HandlePcs, HandleOK, Handles
<1>2. PICK e \in Requests : e = pass[w].item.id
  BY <1>1, ItemFields DEF HandleOK, Handles
<1>3. CASE UNCHANGED ledgerVars /\ NextItem(w)
  BY <1>1, <1>3, NextItemFollows, TablesStay DEF Quiet
<1>4. CASE UNCHANGED ledgerVars /\ pass' = [pass EXCEPT ![w] = PassIdle]
  BY <1>1, <1>4, ToIdle, TablesStay DEF Quiet
<1>5. CASE /\ UNCHANGED ledgerVars
           /\ pass' = [pass EXCEPT ![w] = Looping("payments", pass[w].scope, {}, pass[w].cut)]
  <2>1. DistinctIds({})
    BY DEF DistinctIds
  <2>2. Follows(w) /\ Holds(w)
    BY <1>1, <1>5, <2>1, ToLoop
  <2> QED BY <1>1, <1>5, <2>2, TablesStay DEF Quiet
<1>6. CASE /\ pass' = [pass EXCEPT ![w].pc = "relays", ![w].event = Canonical(Row(e), w)]
           /\ IF IsInvoice(w)
              THEN e \in Pending(created_invoices) /\ StoreNwcInvoiceNotificationEvent(e, w)
                   /\ UNCHANGED sent_payments
              ELSE e \in Pending(sent_payments) /\ StoreNwcSentNotificationEvent(e, w)
                   /\ UNCHANGED created_invoices
  <2>1. PICK row : row = WithEvent(Row(e), w)
    OBVIOUS
  <2>2. Row(e) # NoRow /\ RowOnly(e) /\ Row(e)' = row /\ row.event \in Workers
    <3>1. CASE IsInvoice(w)
      <4>1. e \in InvoiceRequests /\ Row(e) = created_invoices[e]
        BY <1>2, <3>1 DEF IsInvoice, Row
      <4>2. Row(e) \in InvoiceRow /\ Row(e) # NoRow
        BY <1>6, <3>1, <4>1, TypesParts DEF Pending, TablesOK
      <4>3. row \in InvoiceRow /\ row.event \in Workers
        BY <2>1, <4>2 DEF WithEvent, InvoiceRow
      <4>4. created_invoices' = [created_invoices EXCEPT ![e] = row] /\ UNCHANGED sent_payments
        BY <1>6, <2>1, <3>1, <4>1 DEF StoreNwcInvoiceNotificationEvent
      <4> QED BY <4>1, <4>2, <4>3, <4>4, InvoiceReplaced, TypesParts
    <3>2. CASE ~IsInvoice(w)
      <4>1. e \in PaymentRequests /\ Row(e) = sent_payments[e]
        BY <1>2, <3>2 DEF IsInvoice, Row, Requests
      <4>2. Row(e) \in PaymentRow /\ Row(e) # NoRow
        BY <1>6, <3>2, <4>1, TypesParts DEF Pending, TablesOK
      <4>3. row \in PaymentRow /\ row.event \in Workers
        BY <2>1, <4>2 DEF WithEvent, PaymentRow
      <4>4. sent_payments' = [sent_payments EXCEPT ![e] = row] /\ UNCHANGED created_invoices
        BY <1>6, <2>1, <3>2, <4>1 DEF StoreNwcSentNotificationEvent
      <4> QED BY <4>1, <4>2, <4>3, <4>4, PaymentReplaced, TypesParts
    <3> QED BY <3>1, <3>2
  <2> DEFINE q == [pass[w] EXCEPT !.pc = "relays", !.event = row.event]
  <2>3. pass' = [pass EXCEPT ![w] = q]
    BY <1>6, <2>1, TypesParts DEF Canonical
  <2>4. /\ HandleOK(q) /\ q.item = pass[w].item /\ q.todo = pass[w].todo
        /\ q.event = row.event /\ q.pc = "relays"
    BY <1>1, <2>2 DEF HandleOK, Handles, HandlePcs, SendPcs
  <2> HIDE DEF q
  <2>5. PassOK(pass'[w]) /\ Others(w) /\ Remembers(w) /\ pass'[w] = q
    BY <1>1, <2>3, <2>4, ToBusy
  <2>6. Follows(w)
    BY <2>4, <2>5 DEF Follows, Decides, Approves
  <2> QED BY <1>1, <1>2, <2>1, <2>2, <2>4, <2>5, <2>6 DEF Stores
<1> QED
  <2>1. IF IsInvoice(w) THEN Row(e) = created_invoices[e] ELSE Row(e) = sent_payments[e]
    BY <1>2 DEF IsInvoice, Row
  <2> QED BY <1>2, <1>3, <1>4, <1>5, <1>6, <2>1 DEF StoreEvent

\* A relay that has not stored an event does not acknowledge it.
LEMMA RefusedIsNotPublished ==
    ASSUME NEW event \in Workers, NEW frames \in Replies(event, FALSE)
    PROVE  ~Relay!PublishRelayEvent("open", frames, event).ok
<1> DEFINE S == Relay!PublishDeciding(frames, event)
           mine == Acknowledgement(event, "false")
           other == Acknowledgement("other", "true")
<1>1. event # "none" /\ event # "other"
  BY NotificationsAssumption
<1>2. /\ mine.kind = "text" /\ mine.array /\ mine.label = "OK" /\ mine.id = event
      /\ mine.accepted = "false"
      /\ other.kind = "text" /\ other.array /\ other.label = "OK" /\ other.id = "other"
  BY DEF Acknowledgement
<1>3. frames \in {<<>>, <<mine>>, <<other>>, <<other, mine>>}
  BY DEF Replies
<1> HIDE DEF mine, other
<1>4. Relay!PublishFrame(other, event) = Relay!Ignored
  BY <1>1, <1>2 DEF Relay!PublishFrame, Relay!ParsePublishAck
<1>5. Relay!PublishFrame(mine, event) = Relay!Decided(Relay!Err("Unavailable"))
  BY <1>1, <1>2 DEF Relay!PublishFrame, Relay!ParsePublishAck
<1>6. \A i \in 1..Len(frames) : i \in Nat /\ (frames[i] = mine \/ frames[i] = other)
  BY <1>3
<1>7. ASSUME NEW i \in S
      PROVE  i \in Nat /\ ~Relay!PublishFrame(frames[i], event).answer.ok
  <2>1. i \in 1..Len(frames) /\ Relay!PublishFrame(frames[i], event).decided
    BY DEF Relay!PublishDeciding
  <2>2. frames[i] = mine
    BY <1>4, <1>6, <2>1 DEF Relay!Ignored
  <2> QED BY <1>5, <1>6, <2>1, <2>2 DEF Relay!Decided, Relay!Err
<1> HIDE DEF S
<1>8. CASE S = {}
  BY <1>1, <1>8 DEF Relay!PublishRelayEvent, S, Relay!Err
<1>9. CASE S # {}
  <2>1. \E i \in S : \A j \in S : i <= j
    BY <1>7, <1>9, LeastExists
  <2>2. PICK i \in S : i = CHOOSE j \in S : Relay!IsFirst(j, S)
    BY <2>1 DEF Relay!IsFirst
  <2>3. Relay!PublishRelayEvent("open", frames, event)
            = Relay!PublishFrame(frames[i], event).answer
    BY <1>1, <1>9, <2>2 DEF Relay!PublishRelayEvent, S
  <2> QED BY <1>7, <2>3
<1> QED BY <1>8, <1>9

LEMMA PublishedIsAccepted ==
    ASSUME NEW w \in Workers, pass[w].event \in Workers, NEW r, Publication(w, r, TRUE)
    PROVE  Accept(w, r)
BY RefusedIsNotPublished DEF Publication

LEMMA PublishEventWorks ==
    ASSUME Types, NEW w \in Workers, PublishEvent(w)
    PROVE  Quiet(w) \/ Publishes(w)
<1>1. Busy(w) /\ pass[w].pc = "publish" /\ HandleOK(pass[w]) /\ RowsKept
  BY BusyPass, TablesStay DEF PublishEvent, Busy, HandlePcs, SendPcs
<1>2. CASE /\ pass[w].relays # {} /\ Publication(w, NextRelay(w), TRUE)
           /\ GotoPass(w, "acknowledge")
  <2> DEFINE q == [pass[w] EXCEPT !.pc = "acknowledge"]
  <2>1. pass' = [pass EXCEPT ![w] = q]
    BY <1>2, TypesParts DEF GotoPass
  <2>2. /\ HandleOK(q) /\ q.item = pass[w].item /\ q.todo = pass[w].todo
        /\ q.event = pass[w].event /\ q.pc = "acknowledge" /\ q.relays = pass[w].relays
    BY <1>1, <1>2 DEF HandleOK, Handles, HandlePcs, SendPcs
  <2> HIDE DEF q
  <2>3. PassOK(pass'[w]) /\ Others(w) /\ Remembers(w) /\ pass'[w] = q
    BY <1>1, <2>1, <2>2, ToBusy
  <2>4. Accept(w, NextRelay(w))
    BY <1>1, <1>2, PublishedIsAccepted DEF HandleOK, SendPcs
  <2> QED BY <1>1, <1>2, <2>2, <2>3, <2>4 DEF Publishes, Follows, Decides, Approves
<1>3. CASE NextItem(w) /\ UNCHANGED received
  BY <1>1, <1>3, NextItemFollows DEF Quiet
<1>4. CASE GotoPass(w, "complete") /\ UNCHANGED received
  <2> DEFINE q == [pass[w] EXCEPT !.pc = "complete"]
  <2>1. pass' = [pass EXCEPT ![w] = q]
    BY <1>4, TypesParts DEF GotoPass
  <2>2. /\ HandleOK(q) /\ q.item = pass[w].item /\ q.todo = pass[w].todo
        /\ q.event = pass[w].event /\ q.pc = "complete"
    BY <1>1 DEF HandleOK, Handles, HandlePcs, SendPcs
  <2> HIDE DEF q
  <2>3. PassOK(pass'[w]) /\ Others(w) /\ Remembers(w) /\ pass'[w] = q
    BY <1>1, <2>1, <2>2, ToBusy
  <2> QED BY <1>1, <1>4, <2>2, <2>3 DEF Quiet, Follows, Decides, Approves, Holds
<1> QED BY <1>2, <1>3, <1>4 DEF PublishEvent

\* The relay served last is taken off the list.
LEMMA RelayDone ==
    ASSUME Types, NEW w \in Workers, Busy(w), pass[w].pc \in {"publish", "acknowledge"},
           pass[w].relays # {}, NEW failed \in BOOLEAN,
           pass' = [pass EXCEPT ![w] = [pass[w] EXCEPT !.pc = "publish",
                        !.relays = pass[w].relays \ {NextRelay(w)}, !.failed = failed]]
    PROVE  Follows(w) /\ Holds(w)
<1> DEFINE q == [pass[w] EXCEPT !.pc = "publish",
                     !.relays = pass[w].relays \ {NextRelay(w)}, !.failed = failed]
<1>1. HandleOK(pass[w])
  BY BusyPass
<1>2. pass[w].relays \ {NextRelay(w)} \in SUBSET Relays
  BY <1>1 DEF HandleOK, Handles
<1>3. /\ HandleOK(q) /\ q.item = pass[w].item /\ q.todo = pass[w].todo
      /\ q.event = pass[w].event /\ q.pc = "publish"
  BY <1>1, <1>2 DEF HandleOK, Handles, HandlePcs, SendPcs
<1>4. pass' = [pass EXCEPT ![w] = q]
  OBVIOUS
<1> HIDE DEF q
<1>5. PassOK(pass'[w]) /\ Others(w) /\ Remembers(w) /\ pass'[w] = q
  BY <1>3, <1>4, ToBusy
<1> QED BY <1>3, <1>5 DEF Follows, Decides, Approves, Holds

LEMMA PublishFailsWorks ==
    ASSUME Types, NEW w \in Workers, PublishFails(w)
    PROVE  Misses(w)
<1>1. Busy(w) /\ pass[w].pc = "publish" /\ HandleOK(pass[w]) /\ RowsKept
      /\ pass[w].relays # {} /\ (Accept(w, NextRelay(w)) \/ received' = received)
  BY BusyPass, TablesStay DEF PublishFails, Busy, HandlePcs, SendPcs, Publication
<1>2. pass' = [pass EXCEPT ![w] = [pass[w] EXCEPT
                  !.relays = pass[w].relays \ {NextRelay(w)}, !.failed = TRUE]]
  BY TypesParts DEF PublishFails
<1>3. [pass[w] EXCEPT !.relays = pass[w].relays \ {NextRelay(w)}, !.failed = TRUE]
        = [pass[w] EXCEPT !.pc = "publish", !.relays = pass[w].relays \ {NextRelay(w)},
                          !.failed = TRUE]
  BY <1>1 DEF HandleOK, Handles
<1>4. Follows(w) /\ Holds(w)
  BY <1>1, <1>2, <1>3, RelayDone
<1> QED BY <1>1, <1>4 DEF Misses

\* A row that a relay or a completion changes keeps its type.
LEMMA RowsChange ==
    /\ \A row \in InvoiceRow \cup {NoRow} : \A r :
           /\ Acknowledged(row, r) \in InvoiceRow \cup {NoRow}
           /\ Completed(row) \in InvoiceRow \cup {NoRow}
    /\ \A row \in PaymentRow \cup {NoRow} : \A r :
           /\ Acknowledged(row, r) \in PaymentRow \cup {NoRow}
           /\ Completed(row) \in PaymentRow \cup {NoRow}
<1>1. ASSUME NEW row \in InvoiceRow, NEW r
      PROVE  Acknowledged(row, r) \in InvoiceRow \cup {NoRow} /\ Completed(row) \in InvoiceRow
  BY DEF Acknowledged, Completed, InvoiceRow
<1>2. ASSUME NEW row \in PaymentRow, NEW r
      PROVE  Acknowledged(row, r) \in PaymentRow \cup {NoRow} /\ Completed(row) \in PaymentRow
  BY DEF Acknowledged, Completed, PaymentRow
<1>3. \A r : Acknowledged(NoRow, r) = NoRow /\ Completed(NoRow) = NoRow
  BY DEF Acknowledged, Completed
<1> QED BY <1>1, <1>2, <1>3

LEMMA AcknowledgeWorks ==
    ASSUME Types, NEW w \in Workers, AcknowledgeRelay(w)
    PROVE  Acknowledges(w)
<1>1. Busy(w) /\ pass[w].pc = "acknowledge" /\ HandleOK(pass[w]) /\ pass[w].relays # {}
      /\ received' = received
  BY BusyPass DEF AcknowledgeRelay, Busy, HandlePcs, SendPcs, HandleOK
<1>2. pass' = [pass EXCEPT ![w] = [pass[w] EXCEPT !.pc = "publish",
                  !.relays = pass[w].relays \ {NextRelay(w)}]]
  BY TypesParts DEF AcknowledgeRelay
<1>3. [pass[w] EXCEPT !.pc = "publish", !.relays = pass[w].relays \ {NextRelay(w)}]
        = [pass[w] EXCEPT !.pc = "publish", !.relays = pass[w].relays \ {NextRelay(w)},
                          !.failed = pass[w].failed]
  BY <1>1 DEF HandleOK, Handles
<1>4. pass[w].failed \in BOOLEAN
  BY <1>1 DEF HandleOK, Handles
<1>5. Follows(w) /\ Holds(w)
  BY <1>1, <1>2, <1>3, <1>4, RelayDone
<1>6. PICK e \in Requests : e = pass[w].item.id
  BY <1>1, ItemFields DEF HandleOK, Handles
<1>7. RowOnly(e) /\ Row(e)' = Acknowledged(Row(e), NextRelay(w))
  <2>1. CASE IsInvoice(w)
    <3>1. e \in InvoiceRequests /\ Row(e) = created_invoices[e]
      BY <1>6, <2>1 DEF IsInvoice, Row
    <3> QED BY <1>6, <2>1, <3>1, InvoiceReplaced, RowsChange, TypesParts
            DEF AcknowledgeRelay, AcknowledgeNwcInvoiceRelay, TablesOK
  <2>2. CASE ~IsInvoice(w)
    <3>1. e \in PaymentRequests /\ Row(e) = sent_payments[e]
      BY <1>6, <2>2 DEF IsInvoice, Row, Requests
    <3> QED BY <1>6, <2>2, <3>1, PaymentReplaced, RowsChange, TypesParts
            DEF AcknowledgeRelay, AcknowledgeNwcSentRelay, TablesOK
  <2> QED BY <2>1, <2>2
<1> QED BY <1>1, <1>5, <1>6, <1>7 DEF Acknowledges

LEMMA CompleteWorks ==
    ASSUME Types, NEW w \in Workers, CompleteNotification(w)
    PROVE  Completes(w)
<1>1. Busy(w) /\ HandleOK(pass[w]) /\ received' = received /\ NextItem(w)
  BY BusyPass DEF CompleteNotification, Busy, HandlePcs, SendPcs
<1>2. PICK e \in Requests : e = pass[w].item.id
  BY <1>1, ItemFields DEF HandleOK, Handles
<1>3. RowOnly(e) /\ Row(e)' = Completed(Row(e))
  <2>1. CASE IsInvoice(w)
    <3>1. e \in InvoiceRequests /\ Row(e) = created_invoices[e]
      BY <1>2, <2>1 DEF IsInvoice, Row
    <3> QED BY <1>2, <2>1, <3>1, InvoiceReplaced, RowsChange, TypesParts
            DEF CompleteNotification, CompleteNwcInvoiceNotification, TablesOK
  <2>2. CASE ~IsInvoice(w)
    <3>1. e \in PaymentRequests /\ Row(e) = sent_payments[e]
      BY <1>2, <2>2 DEF IsInvoice, Row, Requests
    <3> QED BY <1>2, <2>2, <3>1, PaymentReplaced, RowsChange, TypesParts
            DEF CompleteNotification, CompleteNwcSentNotification, TablesOK
  <2> QED BY <2>1, <2>2
<1> QED BY <1>1, <1>3, NextItemFollows DEF Completes

\* The steps of a pass.
LEMMA WorkerWorks ==
    ASSUME Types, NEW w \in Workers, Worker(w)
    PROVE  /\ UNCHANGED envVars
           /\ \/ Quiet(w) \/ Discards(w) \/ Expires(w) \/ Stores(w) \/ Publishes(w)
              \/ Misses(w) \/ Acknowledges(w) \/ Completes(w)
<1>1. UNCHANGED envVars
  BY DEF Worker, PassStep, NextPayment, LoadInvoices, NextInvoice, PassEnds, LookupInvoice,
     DeferOrExpireInvoice, CheckConnection, StoreEvent, LoadRelays, PublishEvent,
     AcknowledgeRelay, CompleteNotification, Run, RunInvoice, LookupFails, PublishFails,
     Cut, Abort
<1> QED BY <1>1, NextPaymentWorks, LoadInvoicesWorks, NextInvoiceWorks, PassEndsWorks,
        LookupWorks, DecisionWorks, StoreEventWorks, LoadRelaysWorks, PublishEventWorks,
        AcknowledgeWorks, CompleteWorks, RunWorks, RunInvoiceWorks, PublishFailsWorks,
        CutWorks DEF Worker, PassStep

-----------------------------------------------------------------------------
(* Types are kept.                                                         *)

LEMMA PassTypes ==
    ASSUME NEW q, PassOK(q)
    PROVE  PassTypeOK(q)
<1>1. CASE LoopOK(q)
  BY <1>1 DEF LoopOK, Loops, PassTypeOK, Cuts
<1>2. CASE HandleOK(q)
  <2>1. q \in Handles /\ q.item.id \in Requests /\ q.item.row # NoRow
    BY <1>2, ItemFields DEF HandleOK, Handles
  <2> QED BY <1>2, <2>1 DEF HandleOK, Handles, HandlePcs, SendPcs, PassTypeOK
<1> QED BY <1>1, <1>2 DEF PassOK, PassTypeOK

\* A relay that accepts an event keeps those it has.
LEMMA Accepted ==
    ASSUME Types, NEW w \in Workers, Busy(w), pass[w].pc = "publish", pass[w].relays # {},
           Accept(w, NextRelay(w))
    PROVE  /\ received' \in [Requests -> [Relays -> SUBSET Workers]]
           /\ pass[w].event \in received'[pass[w].item.id][NextRelay(w)]
           /\ \A e \in Requests : \A r \in Relays :
                  /\ received[e][r] \subseteq received'[e][r]
                  /\ \A x \in received'[e][r] :
                         x \in received[e][r] \/ (x = pass[w].event /\ e = pass[w].item.id)
<1>1. HandleOK(pass[w]) /\ pass[w].event \in Workers /\ pass[w].relays \in SUBSET Relays
  BY BusyPass DEF HandleOK, Handles, SendPcs
<1>2. PICK r \in Relays : r = NextRelay(w)
  BY <1>1, NextRelayChosen
<1>3. PICK e \in Requests : e = pass[w].item.id
  BY <1>1, ItemFields DEF HandleOK, Handles
<1>4. received' = [received EXCEPT ![e][r] = received[e][r] \cup {pass[w].event}]
  BY <1>2, <1>3 DEF Accept
<1>5. received \in [Requests -> [Relays -> SUBSET Workers]]
  BY TypesParts
<1>6. received' \in [Requests -> [Relays -> SUBSET Workers]]
  BY <1>1, <1>4, <1>5
<1>7. \A f \in Requests : \A s \in Relays :
          received'[f][s] = IF f = e /\ s = r THEN received[e][r] \cup {pass[w].event}
                            ELSE received[f][s]
  BY <1>4, <1>5
<1> QED BY <1>2, <1>3, <1>6, <1>7

LEMMA WorkerTypes ==
    ASSUME Types, NEW w \in Workers, Worker(w)
    PROVE  Types'
<1>1. /\ UNCHANGED envVars /\ Follows(w) /\ TablesOK'
      /\ \/ received' = received
         \/ /\ pass[w].pc = "publish" /\ pass[w].relays # {} /\ Accept(w, NextRelay(w))
  BY WorkerWorks DEF Quiet, Discards, Expires, Stores, Publishes, Misses, Acknowledges,
     Completes, RowsKept, RowOnly
<1>2. received' \in [Requests -> [Relays -> SUBSET Workers]]
  BY <1>1, Accepted, TypesParts DEF Busy, HandlePcs, SendPcs
<1>3. \A v \in Workers : PassOK(pass'[v])
  BY <1>1, TypesParts DEF Follows, Others
<1>4. \A v \in Workers : PassTypeOK(pass'[v])
  BY <1>3, PassTypes
<1>5. pass' \in [Workers -> Loops \cup Handles \cup {PassIdle}]
  BY <1>1 DEF Follows, Others
<1>6. NotificationsTypeOK'
  BY <1>1, <1>2, <1>4 DEF Types, NotificationsTypeOK, TablesOK, envVars, payVars, history
<1> QED BY <1>1, <1>3, <1>5, <1>6 DEF Types, envVars, registryVars

\* The steps of a make_invoice execution.
Execute(p) ==
    MakeInvoiceStep(p) \/ EngineDies(p) \/ \E e \in InvoiceRequests : Claim(p, e)

LEMMA BusyEngine ==
    ASSUME Types, NEW p \in Engines, engine[p] # EngineIdle
    PROVE  /\ engine[p] \in Execution
           /\ engine[p].pc = "record" => engine[p].invoice \in WalletInvoices
BY DEF Types, ExecutionOK

LEMMA NumbersDiffer ==
    /\ WalletInvoices \subseteq Nat /\ Failed \notin WalletInvoices
    /\ Unanswered \notin WalletInvoices /\ Unanswered # Failed /\ Nobody \notin Engines
BY NotificationsAssumption DEF WalletInvoices, Failed, Unanswered, Nobody

\* An engine takes a step with another local state.
LEMMA EngineMoves ==
    ASSUME Types, NEW p \in Engines, NEW x \in Execution \cup {EngineIdle}, ExecutionOK(x),
           engine' = [engine EXCEPT ![p] = x]
    PROVE  /\ engine' \in [Engines -> Execution \cup {EngineIdle}]
           /\ \A q \in Engines : ExecutionOK(engine'[q])
           /\ engine'[p] = x /\ \A q \in Engines \ {p} : engine'[q] = engine[q]
BY DEF Types

-----------------------------------------------------------------------------
(* What a step of an execution may do.                                     *)

invoiceVars == <<created_invoices, lease_owner, answer, made>>

Claims(p) ==
    \E e \in InvoiceRequests :
        /\ answer[e] = Unanswered /\ lease_owner' = [lease_owner EXCEPT ![e] = p]
        /\ engine'[p] # EngineIdle /\ engine'[p].id = e /\ engine'[p].pc = "load"
        /\ engine'[p].invoice = Failed
        /\ UNCHANGED <<created_invoices, answer, made>>

\* It ends or goes on with the invoice it has or without one.
Stays(p) ==
    /\ UNCHANGED invoiceVars
    /\ \/ engine'[p] = EngineIdle
       \/ /\ engine[p] # EngineIdle /\ engine'[p] # EngineIdle /\ engine'[p].id = engine[p].id
          /\ \/ engine'[p].invoice = Failed
             \/ engine'[p].invoice = engine[p].invoice /\ engine'[p].pc # "respond"

\* It answers with the invoice of the row.
Finds(p) ==
    /\ UNCHANGED invoiceVars
    /\ engine[p] # EngineIdle /\ engine'[p] # EngineIdle /\ engine'[p].id = engine[p].id
    /\ created_invoices[engine[p].id] # NoRow
    /\ engine'[p].invoice = created_invoices[engine[p].id].hash

Makes(p) ==
    /\ UNCHANGED <<created_invoices, lease_owner, answer>>
    /\ engine[p] # EngineIdle /\ engine'[p] # EngineIdle /\ engine'[p].id = engine[p].id
    /\ engine'[p].pc = "record"
    /\ \E i \in WalletInvoices :
           /\ made[i] = 0 /\ made' = [made EXCEPT ![i] = now + Lifetime]
           /\ engine'[p].invoice = i

Records(p) ==
    /\ UNCHANGED <<lease_owner, answer, made>>
    /\ engine[p].pc = "record" /\ engine'[p].pc = "respond"
    /\ engine[p] # EngineIdle /\ engine'[p] # EngineIdle /\ engine'[p].id = engine[p].id
    /\ engine'[p].invoice = engine[p].invoice /\ engine[p].invoice \in WalletInvoices
    /\ \E e \in InvoiceRequests :
           /\ e = engine[p].id /\ Row(e) = NoRow /\ RowOnly(e)
           /\ Row(e)' # NoRow /\ Row(e)'.hash = engine[p].invoice
           /\ Row(e)'.event = NoEvent /\ Row(e)'.undelivered = Relays /\ ~Row(e)'.completed
           /\ Row(e)'.expires_at = made[engine[p].invoice] /\ Row(e)'.revision = 0

Answers(p) ==
    /\ UNCHANGED <<created_invoices, made>> /\ engine'[p] = EngineIdle
    /\ engine[p].pc = "respond"
    /\ \E e \in InvoiceRequests :
           /\ e = engine[p].id /\ lease_owner[e] = p
           /\ answer' = [answer EXCEPT ![e] = engine[p].invoice]
           /\ lease_owner' = [lease_owner EXCEPT ![e] = Nobody]

Moves(p) ==
    /\ UNCHANGED <<registryVars, now, sent_payments, passVars>>
    /\ engine' \in [Engines -> Execution \cup {EngineIdle}]
    /\ \A q \in Engines : ExecutionOK(engine'[q])
    /\ \A q \in Engines \ {p} : engine'[q] = engine[q]

LEMMA ClaimWorks ==
    ASSUME Types, NEW p \in Engines, NEW e \in InvoiceRequests, Claim(p, e)
    PROVE  Moves(p) /\ Claims(p)
<1> DEFINE x == [pc |-> "load", id |-> e, at |-> now, invoice |-> Failed]
<1>1. x \in Execution /\ ExecutionOK(x)
  BY DEF Execution, ExecutionOK, Types
<1>2. engine' = [engine EXCEPT ![p] = x]
  BY DEF Claim
<1>3. x.id = e /\ x.pc = "load" /\ x.invoice = Failed /\ x # EngineIdle
  BY DEF EngineIdle
<1> HIDE DEF x
<1> QED BY <1>1, <1>2, <1>3, EngineMoves DEF Moves, Claims, Claim, ledgerVars

LEMMA LoadWorks ==
    ASSUME Types, NEW p \in Engines, LoadNwcInvoice(p)
    PROVE  Moves(p) /\ (Stays(p) \/ Finds(p))
<1>1. engine[p] # EngineIdle /\ engine[p] \in Execution
  BY BusyEngine DEF LoadNwcInvoice, EngineIdle
<1>2. PICK e \in InvoiceRequests : e = engine[p].id
  BY <1>1 DEF Execution
<1>3. CASE created_invoices[e] = NoRow
  <2> DEFINE x == [engine[p] EXCEPT !.pc = "create"]
  <2>1. engine' = [engine EXCEPT ![p] = x]
    BY <1>2, <1>3 DEF LoadNwcInvoice, GotoEngine, Types
  <2>2. /\ x \in Execution /\ ExecutionOK(x) /\ x # EngineIdle /\ x.id = engine[p].id
        /\ x.invoice = engine[p].invoice /\ x.pc # "respond"
    BY <1>1 DEF Execution, ExecutionOK, EngineIdle
  <2> HIDE DEF x
  <2> QED BY <1>1, <2>1, <2>2, EngineMoves
          DEF Moves, Stays, LoadNwcInvoice, ledgerVars, invoiceVars
<1>4. CASE created_invoices[e] # NoRow
  <2> DEFINE x == [engine[p] EXCEPT !.pc = "respond", !.invoice = created_invoices[e].hash]
  <2>0. created_invoices[e].hash \in WalletInvoices
    BY <1>4, TypesParts DEF TablesOK, InvoiceRow
  <2>1. engine' = [engine EXCEPT ![p] = x]
    BY <1>2, <1>4 DEF LoadNwcInvoice, Types
  <2>2. /\ x \in Execution /\ ExecutionOK(x) /\ x # EngineIdle /\ x.id = engine[p].id
        /\ x.invoice = created_invoices[e].hash
    BY <1>1, <2>0 DEF Execution, ExecutionOK, EngineIdle
  <2> HIDE DEF x
  <2> QED BY <1>1, <1>2, <1>4, <2>1, <2>2, EngineMoves
          DEF Moves, Finds, LoadNwcInvoice, ledgerVars, invoiceVars
<1> QED BY <1>3, <1>4

LEMMA CreateWorks ==
    ASSUME Types, NEW p \in Engines, CreateInvoice(p)
    PROVE  Moves(p) /\ Makes(p)
<1>1. engine[p] # EngineIdle /\ engine[p] \in Execution
  BY BusyEngine DEF CreateInvoice, EngineIdle
<1>2. PICK i \in WalletInvoices :
          /\ made[i] = 0 /\ made' = [made EXCEPT ![i] = now + Lifetime]
          /\ engine' = [engine EXCEPT ![p].pc = "record", ![p].invoice = i]
  BY DEF CreateInvoice
<1> DEFINE x == [engine[p] EXCEPT !.pc = "record", !.invoice = i]
<1>3. engine' = [engine EXCEPT ![p] = x]
  BY <1>2 DEF Types
<1>4. /\ x \in Execution /\ ExecutionOK(x) /\ x # EngineIdle /\ x.id = engine[p].id
      /\ x.invoice = i /\ x.pc = "record"
  BY <1>1 DEF Execution, ExecutionOK, EngineIdle
<1> HIDE DEF x
<1> QED BY <1>1, <1>2, <1>3, <1>4, EngineMoves DEF Moves, Makes, CreateInvoice, ledgerVars

LEMMA RecordWorks ==
    ASSUME Types, NEW p \in Engines, RecordInvoice(p)
    PROVE  Moves(p) /\ (Stays(p) \/ Finds(p) \/ Records(p))
<1>1. /\ engine[p] # EngineIdle /\ engine[p] \in Execution /\ engine[p].pc = "record"
      /\ engine[p].invoice \in WalletInvoices /\ engine[p].at \in Time
  BY BusyEngine DEF RecordInvoice, EngineIdle, Execution
<1>2. PICK e \in InvoiceRequests : e = engine[p].id
  BY <1>1 DEF Execution
<1>3. PICK i \in WalletInvoices \cup {Failed} :
          i = IF RecordMatches(e, engine[p].invoice) THEN engine[p].invoice ELSE Failed
  BY <1>1
<1> DEFINE x == [engine[p] EXCEPT !.pc = "respond", !.invoice = i]
<1>4. engine' = [engine EXCEPT ![p] = x]
  BY <1>2, <1>3 DEF RecordInvoice, Types
<1>5. /\ x \in Execution /\ ExecutionOK(x) /\ x # EngineIdle /\ x.id = engine[p].id
      /\ x.invoice = i /\ x.pc = "respond"
  BY <1>1 DEF Execution, ExecutionOK, EngineIdle
<1> HIDE DEF x
<1>6. Moves(p) /\ engine'[p] = x /\ UNCHANGED <<lease_owner, answer, made>>
  BY <1>4, <1>5, EngineMoves DEF Moves, RecordInvoice
<1>7. CASE ~RecordMatches(e, engine[p].invoice)
  <2>1. UNCHANGED created_invoices /\ i = Failed
    BY <1>2, <1>3, <1>7 DEF RecordInvoice
  <2> QED BY <1>1, <1>5, <1>6, <2>1 DEF Stays, invoiceVars
<1>8. CASE RecordMatches(e, engine[p].invoice) /\ created_invoices[e] # NoRow
  <2>1. created_invoices' = created_invoices /\ i = created_invoices[e].hash
    BY <1>2, <1>3, <1>8, TypesParts
       DEF RecordInvoice, RecordMatches, RecordNwcInvoice, TablesOK
  <2> QED BY <1>1, <1>2, <1>5, <1>6, <1>8, <2>1 DEF Finds, invoiceVars
<1>9. CASE RecordMatches(e, engine[p].invoice) /\ created_invoices[e] = NoRow
  <2> DEFINE row == [hash |-> engine[p].invoice, revision |-> 0, created_at |-> engine[p].at,
                     expires_at |-> made[engine[p].invoice],
                     last_checked_at |-> engine[p].at, event |-> NoEvent,
                     undelivered |-> Relays, completed |-> FALSE]
  <2>1. created_invoices' = [created_invoices EXCEPT ![e] = row] /\ UNCHANGED sent_payments
    BY <1>2, <1>9 DEF RecordInvoice, RecordNwcInvoice
  <2>2. made[engine[p].invoice] \in Nat /\ engine[p].at \in Nat
    BY <1>1, TimeIsNat DEF Types
  <2>3. row \in InvoiceRow /\ row # NoRow
    BY <1>1, <2>2 DEF InvoiceRow, NoRow
  <2>4. /\ row.hash = engine[p].invoice /\ row.event = NoEvent /\ row.undelivered = Relays
        /\ ~row.completed /\ row.expires_at = made[engine[p].invoice] /\ row.revision = 0
    OBVIOUS
  <2> HIDE DEF row
  <2>5. RowOnly(e) /\ Row(e)' = row /\ Row(e) = NoRow
    BY <1>9, <2>1, <2>3, InvoiceReplaced, TypesParts DEF Row
  <2>6. i = engine[p].invoice
    BY <1>3, <1>9
  <2> QED BY <1>1, <1>2, <1>5, <1>6, <2>3, <2>4, <2>5, <2>6 DEF Records
<1> QED BY <1>7, <1>8, <1>9

LEMMA RespondWorks ==
    ASSUME Types, NEW p \in Engines, Respond(p) \/ EngineDies(p)
    PROVE  Moves(p) /\ (Stays(p) \/ Answers(p))
<1>1. engine[p] # EngineIdle /\ engine[p] \in Execution
  BY BusyEngine DEF Respond, EngineDies, EngineIdle
<1>2. PICK e \in InvoiceRequests : e = engine[p].id
  BY <1>1 DEF Execution
<1>3. engine' = [engine EXCEPT ![p] = EngineIdle]
  BY DEF Respond, EngineDies
<1>4. Moves(p) /\ engine'[p] = EngineIdle
  BY <1>3, EngineMoves DEF Moves, Respond, EngineDies, ExecutionOK, ledgerVars
<1>5. UNCHANGED <<created_invoices, made>>
  BY DEF Respond, EngineDies, ledgerVars
<1>6. \/ UNCHANGED <<answer, lease_owner>>
      \/ /\ lease_owner[e] = p /\ engine[p].pc = "respond"
         /\ answer' = [answer EXCEPT ![e] = engine[p].invoice]
         /\ lease_owner' = [lease_owner EXCEPT ![e] = Nobody]
  BY <1>2 DEF Respond, EngineDies
<1> QED BY <1>1, <1>2, <1>4, <1>5, <1>6 DEF Stays, Answers, invoiceVars

\* The steps of an execution.
LEMMA ExecuteWorks ==
    ASSUME Types, NEW p \in Engines, Execute(p)
    PROVE  /\ Moves(p)
           /\ \/ Claims(p) \/ Stays(p) \/ Finds(p) \/ Makes(p) \/ Records(p) \/ Answers(p)
BY ClaimWorks, LoadWorks, CreateWorks, RecordWorks, RespondWorks DEF Execute, MakeInvoiceStep

\* The history of an execution: an invoice it makes is made for its request,
\* and a request is claimed early or counted as overtaken.
LEMMA ExecuteHistory ==
    ASSUME Types, NEW p \in Engines, Execute(p)
    PROVE  /\ overtaken \subseteq overtaken' /\ overtaken' \subseteq InvoiceRequests
           /\ \/ made_for' = made_for /\ made' = made
              \/ \E i \in WalletInvoices :
                     /\ made[i] = 0 /\ made' = [made EXCEPT ![i] = now + Lifetime]
                     /\ made_for' = [made_for EXCEPT ![i] = engine[p].id]
                     /\ engine[p] # EngineIdle /\ engine[p].id \in InvoiceRequests
           /\ \A e \in InvoiceRequests : Executing(p, e)' =>
                  Executing(p, e) \/ (Outlived(e, now) => e \in overtaken')
<1>0. overtaken \subseteq InvoiceRequests
  BY DEF Types, NotificationsTypeOK
<1>1. ASSUME NEW e \in InvoiceRequests, Claim(p, e)
      PROVE  /\ overtaken' = IF Outlived(e, now) THEN overtaken \cup {e} ELSE overtaken
             /\ made_for' = made_for /\ made' = made /\ engine'[p].id = e
  BY <1>1 DEF Claim, Types
<1>2. ASSUME MakeInvoiceStep(p) \/ EngineDies(p)
      PROVE  overtaken' = overtaken
  BY <1>2 DEF MakeInvoiceStep, LoadNwcInvoice, CreateInvoice, RecordInvoice, Respond, EngineDies,
     history
<1>3. ASSUME LoadNwcInvoice(p) \/ RecordInvoice(p) \/ Respond(p) \/ EngineDies(p)
      PROVE  made_for' = made_for /\ made' = made
  BY <1>3 DEF LoadNwcInvoice, RecordInvoice, Respond, EngineDies, history
<1>4. ASSUME CreateInvoice(p)
      PROVE  \E i \in WalletInvoices :
                 /\ made[i] = 0 /\ made' = [made EXCEPT ![i] = now + Lifetime]
                 /\ made_for' = [made_for EXCEPT ![i] = engine[p].id]
                 /\ engine[p] # EngineIdle /\ engine[p].id \in InvoiceRequests
  <2>1. engine[p] # EngineIdle
    BY <1>4 DEF CreateInvoice, EngineIdle
  <2>2. engine[p].id \in InvoiceRequests
    BY <2>1, BusyEngine DEF Execution
  <2> QED BY <1>4, <2>1, <2>2 DEF CreateInvoice
<1>5. ASSUME MakeInvoiceStep(p) \/ EngineDies(p), NEW e \in InvoiceRequests, Executing(p, e)'
      PROVE  Executing(p, e)
  <2>1. engine[p] # EngineIdle
    BY <1>5 DEF MakeInvoiceStep, LoadNwcInvoice, CreateInvoice, RecordInvoice, Respond, EngineDies,
       EngineIdle
  <2>2. engine'[p] = EngineIdle \/ engine'[p].id = engine[p].id
    <3>1. engine[p] \in Execution
      BY <2>1, BusyEngine
    <3>2. CASE Respond(p) \/ EngineDies(p)
      BY <3>2 DEF Respond, EngineDies, Types
    <3>3. CASE LoadNwcInvoice(p)
      BY <3>1, <3>3 DEF LoadNwcInvoice, GotoEngine, Types, Execution
    <3>4. CASE CreateInvoice(p)
      BY <3>1, <3>4 DEF CreateInvoice, Types, Execution
    <3>5. CASE RecordInvoice(p)
      BY <3>1, <3>5 DEF RecordInvoice, Types, Execution
    <3> QED BY <1>5, <3>2, <3>3, <3>4, <3>5 DEF MakeInvoiceStep
  <2> QED BY <1>5, <2>1, <2>2 DEF Executing
<1>6. CASE \E e \in InvoiceRequests : Claim(p, e)
  <2>1. PICK e \in InvoiceRequests : Claim(p, e)
    BY <1>6
  <2>2. /\ overtaken' = IF Outlived(e, now) THEN overtaken \cup {e} ELSE overtaken
        /\ made_for' = made_for /\ made' = made /\ engine'[p].id = e
    BY <1>1, <2>1
  <2>3. \A f \in InvoiceRequests : Executing(p, f)' => f = e
    BY <2>2 DEF Executing
  <2> QED BY <1>0, <2>2, <2>3
<1>7. CASE MakeInvoiceStep(p) \/ EngineDies(p)
  BY <1>0, <1>2, <1>3, <1>4, <1>5, <1>7 DEF MakeInvoiceStep
<1> QED BY <1>6, <1>7 DEF Execute

LEMMA ExecuteTypes ==
    ASSUME Types, NEW p \in Engines, Execute(p)
    PROVE  Types'
<1>1. /\ Moves(p)
      /\ \/ Claims(p) \/ Stays(p) \/ Finds(p) \/ Makes(p) \/ Records(p) \/ Answers(p)
  BY ExecuteWorks
<1>2. TablesOK'
  BY <1>1, TypesParts DEF Moves, Claims, Stays, Finds, Makes, Records, Answers, RowOnly,
     TablesOK, invoiceVars
<1>3. made' \in [WalletInvoices -> Nat]
  <2>1. now + Lifetime \in Nat
    BY TimeIsNat, NotificationsAssumption DEF Types
  <2> QED BY <1>1, <2>1 DEF Claims, Stays, Finds, Makes, Records, Answers, Types, invoiceVars
<1>4. lease_owner' \in [InvoiceRequests -> Engines \cup {Nobody}]
  BY <1>1 DEF Claims, Stays, Finds, Makes, Records, Answers, Types, invoiceVars
<1>5. answer' \in [InvoiceRequests -> WalletInvoices \cup {Unanswered, Failed}]
  <2>1. CASE Answers(p)
    <3>1. engine[p] # EngineIdle
      BY <2>1 DEF Answers, EngineIdle
    <3>2. engine[p].invoice \in WalletInvoices \cup {Failed}
      BY <3>1, BusyEngine DEF Execution
    <3> QED BY <2>1, <3>2 DEF Answers, Types, NotificationsTypeOK
  <2>2. CASE ~Answers(p)
    BY <1>1, <2>2 DEF Claims, Stays, Finds, Makes, Records, Types, NotificationsTypeOK,
       invoiceVars
  <2> QED BY <2>1, <2>2
<1>6. made_for' \in [WalletInvoices -> InvoiceRequests \cup {NoRequest}]
      /\ overtaken' \subseteq InvoiceRequests
  BY ExecuteHistory DEF Types, NotificationsTypeOK
<1>7. NotificationsTypeOK'
  BY <1>1, <1>2, <1>5, <1>6 DEF Moves, NotificationsTypeOK, TablesOK, Types, passVars, payVars
<1> QED BY <1>1, <1>3, <1>4, <1>7 DEF Moves, Types, passVars, registryVars

\* The steps of a payment that leave the notifications alone.
Pays ==
    \/ \E p \in Engines :
           \/ \E e \in PaymentRequests : StartPayment(p, e)
           \/ PaymentPending(p) \/ PaymentSucceeds(p) \/ RespondPaid(p) \/ PayerDies(p)
    \/ \E e \in PaymentRequests : ReconcilePayment(e)

\* So do the client, the connections and the clock.
Outside ==
    \/ \E e \in InvoiceRequests : ClientPays(e)
    \/ \E c \in ConnectionIds : Revoke(c)
    \/ Tick

LEMMA BusyPayer ==
    ASSUME Types, NEW p \in Engines, payer[p] # PayerIdle
    PROVE  payer[p] \in Payments /\ payer[p].id \in PaymentRequests
BY DEF Types, NotificationsTypeOK, Payments

LEMMA PaysLeaves ==
    ASSUME Types, Pays
    PROVE  /\ UNCHANGED <<otherVars, sent_payments>>
           /\ payer' \in [Engines -> Payments \cup {PayerIdle}]
           /\ sending' \in [PaymentRequests -> Progress]
<1>0. /\ payer \in [Engines -> Payments \cup {PayerIdle}]
      /\ sending \in [PaymentRequests -> Progress]
  BY DEF Types, NotificationsTypeOK
<1>1. ASSUME NEW p \in Engines, NEW e \in PaymentRequests, StartPayment(p, e)
      PROVE  /\ payer' \in [Engines -> Payments \cup {PayerIdle}]
             /\ sending' \in [PaymentRequests -> Progress]
  <2>1. [pc |-> "pay", id |-> e] \in Payments
    BY DEF Payments
  <2> QED BY <1>0, <1>1, <2>1 DEF StartPayment, Progress
<1>2. ASSUME NEW p \in Engines, PaymentPending(p) \/ RespondPaid(p) \/ PayerDies(p)
      PROVE  /\ payer' \in [Engines -> Payments \cup {PayerIdle}]
             /\ sending' \in [PaymentRequests -> Progress]
  BY <1>0, <1>2 DEF PaymentPending, RespondPaid, PayerDies, Progress
<1>3. ASSUME NEW p \in Engines, PaymentSucceeds(p)
      PROVE  /\ payer' \in [Engines -> Payments \cup {PayerIdle}]
             /\ sending' \in [PaymentRequests -> Progress]
  <2>1. payer[p] # PayerIdle
    BY <1>3 DEF PaymentSucceeds, PayerIdle
  <2>2. [payer[p] EXCEPT !.pc = "record"] \in Payments
    BY <2>1, BusyPayer DEF Payments
  <2> QED BY <1>0, <1>3, <2>2 DEF PaymentSucceeds, Progress
<1>4. ASSUME NEW e \in PaymentRequests, ReconcilePayment(e)
      PROVE  /\ payer' \in [Engines -> Payments \cup {PayerIdle}]
             /\ sending' \in [PaymentRequests -> Progress]
  BY <1>0, <1>4 DEF ReconcilePayment, Progress
<1>5. UNCHANGED <<otherVars, sent_payments>>
  BY DEF Pays, StartPayment, PaymentPending, PaymentSucceeds, RespondPaid, PayerDies,
     ReconcilePayment
<1> QED BY <1>1, <1>2, <1>3, <1>4, <1>5 DEF Pays

\* A payment is recorded, unless it is already.
LEMMA PaymentRecorded ==
    ASSUME Types, NEW p \in Engines, RecordSentPayment(p)
    PROVE  /\ UNCHANGED <<otherVars, sending, faults>>
           /\ payer' \in [Engines -> Payments \cup {PayerIdle}]
           /\ \E e \in PaymentRequests :
                  /\ RowOnly(e)
                  /\ \/ Row(e)' = Row(e)
                     \/ /\ Row(e) = NoRow /\ Row(e)' # NoRow /\ Row(e)'.event = NoEvent
                        /\ Row(e)'.undelivered = Relays /\ ~Row(e)'.completed
<1> DEFINE row == [revision |-> 0, created_at |-> now, event |-> NoEvent,
                   undelivered |-> Relays, completed |-> FALSE]
<1>0. payer[p] # PayerIdle
  BY DEF RecordSentPayment, PayerIdle
<1>1. PICK e \in PaymentRequests : e = payer[p].id
  BY <1>0, BusyPayer
<1>2. row \in PaymentRow /\ row # NoRow
  BY DEF PaymentRow, NoRow, Types
<1>3. row.event = NoEvent /\ row.undelivered = Relays /\ ~row.completed
  OBVIOUS
<1>4. sent_payments' = [sent_payments EXCEPT ![e] =
          IF sent_payments[e] # NoRow THEN sent_payments[e] ELSE row]
      /\ UNCHANGED created_invoices
  BY <1>1 DEF RecordSentPayment, RecordNwcSentPayment, otherVars
<1> HIDE DEF row
<1>5. e \notin InvoiceRequests /\ sent_payments \in [PaymentRequests -> PaymentRow \cup {NoRow}]
  BY TypesParts, NotificationsAssumption DEF TablesOK
<1>6. RowOnly(e) /\ (Row(e)' = Row(e) \/ (Row(e) = NoRow /\ Row(e)' = row))
  <2>1. CASE sent_payments[e] # NoRow
    <3>1. sent_payments' = [sent_payments EXCEPT ![e] = sent_payments[e]]
      BY <1>4, <2>1
    <3>2. RowOnly(e) /\ Row(e)' = sent_payments[e]
      BY <1>4, <1>5, <3>1, PaymentReplaced, TypesParts
    <3> QED BY <1>5, <3>2 DEF Row
  <2>2. CASE sent_payments[e] = NoRow
    <3>1. sent_payments' = [sent_payments EXCEPT ![e] = row]
      BY <1>4, <2>2
    <3>2. RowOnly(e) /\ Row(e)' = row
      BY <1>2, <1>4, <3>1, PaymentReplaced, TypesParts
    <3> QED BY <1>5, <2>2, <3>2 DEF Row
  <2> QED BY <2>1, <2>2
<1>7. payer' \in [Engines -> Payments \cup {PayerIdle}]
  <2>1. [payer[p] EXCEPT !.pc = "respond"] \in Payments
    BY <1>0, BusyPayer DEF Payments
  <2> QED BY <2>1 DEF RecordSentPayment, Types, NotificationsTypeOK
<1>8. UNCHANGED <<otherVars, sending, faults>>
  BY DEF RecordSentPayment
<1>9. Row(e)' = row => /\ Row(e)' # NoRow /\ Row(e)'.event = NoEvent
                       /\ Row(e)'.undelivered = Relays /\ ~Row(e)'.completed
  BY <1>2, <1>3
<1> QED BY <1>1, <1>6, <1>7, <1>8, <1>9

LEMMA RevokeType ==
    ASSUME Types, NEW c \in ConnectionIds, Revoke(c)
    PROVE  connections' \in [ConnectionIds -> ConnectionRow]
<1>1. connections[c].revision + 1 \in Nat
  BY DEF Types, ConnectionRow
<1>2. [connections[c] EXCEPT !.status = "tombstoned",
           !.revision = connections[c].revision + 1, !.updated_at = now] \in ConnectionRow
  BY <1>1 DEF Types, ConnectionRow
<1> QED BY <1>2 DEF Types, Revoke, TombstoneConnection

LEMMA TickTime ==
    ASSUME Types, Tick
    PROVE  now' \in Time /\ now' = now + 1
<1>1. cast.until \in Time
  BY NotificationsAssumption DEF Types
<1> QED BY <1>1, RegistryAssumption DEF Types, Tick, Time

LEMMA NotificationSteps ==
    ASSUME Types, [NotificationsNext]_notificationVars
    PROVE  \/ \E w \in Workers : Worker(w)
           \/ \E p \in Engines : Execute(p)
           \/ \E p \in Engines : RecordSentPayment(p)
           \/ Pays \/ Outside \/ UNCHANGED notificationVars
<1>1. cast.workers \subseteq Workers /\ cast.engines \subseteq Engines
  BY NotificationsAssumption DEF Types
<1> QED BY <1>1 DEF NotificationsNext, Worker, Execute, Outside, Pays, PayStep

LEMMA TypesStep == Types /\ [NotificationsNext]_notificationVars => Types'
<1> SUFFICES ASSUME Types, [NotificationsNext]_notificationVars
             PROVE  Types'
  OBVIOUS
<1>1. ASSUME NEW p \in Engines, RecordSentPayment(p)
      PROVE  Types'
  <2>1. /\ TablesOK' /\ UNCHANGED <<otherVars, sending>>
        /\ payer' \in [Engines -> Payments \cup {PayerIdle}]
    BY <1>1, PaymentRecorded DEF RowOnly
  <2>2. NotificationsTypeOK'
    BY <2>1 DEF otherVars, history, TablesOK, NotificationsTypeOK, Types
  <2> QED BY <2>1, <2>2 DEF otherVars, Types, registryVars
<1>6. CASE Pays
  <2>1. /\ UNCHANGED <<otherVars, sent_payments>>
        /\ payer' \in [Engines -> Payments \cup {PayerIdle}]
        /\ sending' \in [PaymentRequests -> Progress]
    BY <1>6, PaysLeaves
  <2>2. NotificationsTypeOK'
    BY <2>1 DEF otherVars, history, NotificationsTypeOK, Types
  <2> QED BY <2>1, <2>2 DEF otherVars, Types, registryVars
<1>2. ASSUME NEW e \in InvoiceRequests, ClientPays(e)
      PROVE  Types'
  <2>1. NotificationsTypeOK'
    BY <1>2 DEF ClientPays, NotificationsTypeOK, Types, ledgerVars, payVars, history
  <2> QED BY <1>2, <2>1 DEF ClientPays, Types, registryVars, ledgerVars
<1>3. ASSUME NEW c \in ConnectionIds, Revoke(c)
      PROVE  Types'
  <2>1. NotificationsTypeOK'
    BY <1>3 DEF Revoke, NotificationsTypeOK, Types, ledgerVars, passVars, payVars, history
  <2> QED BY <1>3, <2>1, RevokeType DEF Revoke, Types, ledgerVars, passVars
<1>4. CASE Tick
  <2>1. NotificationsTypeOK'
    BY <1>4 DEF Tick, NotificationsTypeOK, Types, ledgerVars, passVars, payVars
  <2> QED BY <1>4, <2>1, TickTime DEF Tick, Types, registryVars, ledgerVars, passVars
<1>5. CASE UNCHANGED notificationVars
  <2>1. NotificationsTypeOK'
    BY <1>5 DEF notificationVars, NotificationsTypeOK, Types
  <2> QED BY <1>5, <2>1 DEF notificationVars, registryVars, Types
<1> QED BY <1>1, <1>2, <1>3, <1>4, <1>5, <1>6, NotificationSteps, WorkerTypes, ExecuteTypes
        DEF Outside

LEMMA TypesInit == NotificationsInit => Types
<1> SUFFICES ASSUME NotificationsInit
             PROVE  Types
  OBVIOUS
<1>1. connections \in [ConnectionIds -> ConnectionRow]
  <2>1. [AbsentConnection EXCEPT !.status = "active"] \in ConnectionRow
    BY RegistryAssumption DEF AbsentConnection, ConnectionRow, Time
  <2> QED BY <2>1 DEF NotificationsInit
<1>2. now \in Time /\ cast \in Casts
  BY RegistryAssumption DEF NotificationsInit, Time
<1>3. pass \in [Workers -> {PassIdle}] /\ engine \in [Engines -> {EngineIdle}]
  BY DEF NotificationsInit
<1>4. \A w \in Workers : PassOK(pass[w]) /\ PassTypeOK(pass[w])
  BY <1>3 DEF PassOK, PassTypeOK
<1>5. \A p \in Engines : ExecutionOK(engine[p])
  BY <1>3 DEF ExecutionOK
<1>6. NotificationsTypeOK
  BY <1>4 DEF NotificationsInit, NotificationsTypeOK, Progress
<1> QED BY <1>1, <1>2, <1>3, <1>4, <1>5, <1>6 DEF Types, NotificationsInit

(***************************************************************************)
(* Rows, answers, passes and relays keep their types; in particular a pass *)
(* publishes a stored event, never the empty one.                          *)
(***************************************************************************)
THEOREM NotificationsTypeCorrect == NotificationsSafety => []NotificationsTypeOK
<1>1. Types => NotificationsTypeOK
  BY DEF Types
<1> QED BY <1>1, TypesInit, TypesStep, PTL DEF NotificationsSafety

-----------------------------------------------------------------------------
(* One event per request.                                                  *)

\* What one pass knows of a request.
PassKnows(v, e, x) ==
    \/ Busy(v) /\ pass[v].item.id = e /\ pass[v].event = x
    \/ \E i \in Remembered(v) : i.id = e /\ i.row.event = x

LEMMA KnownParts ==
    ASSUME NEW e, NEW x
    PROVE  Known(e, x) <=> \/ Row(e) # NoRow /\ Row(e).event = x
                           \/ \E r \in Relays : x \in received[e][r]
                           \/ \E v \in Workers : PassKnows(v, e, x)
BY DEF Known, PassKnows

\* The same after a step.
LEMMA KnownAfter ==
    ASSUME NEW e, NEW x
    PROVE  Known(e, x)' <=> \/ Row(e)' # NoRow /\ Row(e)'.event = x
                            \/ \E r \in Relays : x \in received'[e][r]
                            \/ \E v \in Workers : PassKnows(v, e, x)'
BY DEF Known, PassKnows

\* A pass that was not moved knows what it knew.
LEMMA OthersKnow ==
    ASSUME NEW v, pass'[v] = pass[v], NEW e, NEW x, PassKnows(v, e, x)'
    PROVE  PassKnows(v, e, x)
BY DEF PassKnows, Remembered, Busy

\* What a pass remembers is known.
LEMMA RemembersKnown ==
    ASSUME NEW w \in Workers, Remembers(w), NEW e, NEW x,
           \E i \in Remembered(w)' : i.id = e /\ i.row.event = x
    PROVE  Known(e, x)
<1>1. PICK i \in Remembered(w)' : i.id = e /\ i.row.event = x
  OBVIOUS
<1>2. CASE i \in Remembered(w)
  BY <1>1, <1>2 DEF Known
<1>3. CASE Fresh(i)
  BY <1>1, <1>3 DEF Known, Fresh
<1> QED BY <1>1, <1>2, <1>3 DEF Remembers

LEMMA HoldsKnown ==
    ASSUME Types, NEW w \in Workers, Follows(w), Holds(w), NEW e, NEW x,
           NEW v \in Workers, PassKnows(v, e, x)'
    PROVE  Known(e, x)
<1>1. CASE v # w
  <2>1. pass'[v] = pass[v]
    BY <1>1 DEF Follows, Others
  <2> QED BY <2>1, OthersKnow, KnownParts
<1>2. CASE v = w /\ (\E i \in Remembered(w)' : i.id = e /\ i.row.event = x)
  BY <1>2, RemembersKnown DEF Follows
<1>3. CASE v = w /\ Busy(w)' /\ pass'[w].item.id = e /\ pass'[w].event = x
  BY <1>3 DEF Holds, Known
<1> QED BY <1>1, <1>2, <1>3 DEF PassKnows

\* A revocation is for good, so what was not kept is not kept later.
LEMMA KeptBefore ==
    ASSUME Types, [NotificationsNext]_notificationVars
    PROVE  \A e \in Requests :
               /\ Kept(e)' => Kept(e)
               /\ RevisionActive(ConnectionOf[e], 0)' => RevisionActive(ConnectionOf[e], 0)
<1>1. ASSUME connections' = connections
      PROVE  \A c : RevisionActive(c, 0)' => RevisionActive(c, 0)
  BY <1>1 DEF RevisionActive
<1>2. ASSUME NEW c \in ConnectionIds, Revoke(c), NEW d \in ConnectionIds, RevisionActive(d, 0)'
      PROVE  RevisionActive(d, 0)
  <2>1. connections' = [connections EXCEPT ![c].status = "tombstoned",
            ![c].revision = connections[c].revision + 1, ![c].updated_at = now]
    BY <1>2 DEF Revoke, TombstoneConnection
  <2>2. d # c => connections'[d] = connections[d]
    BY <2>1 DEF Types
  <2>3. connections'[c].status = "tombstoned"
    BY <2>1 DEF Types, ConnectionRow
  <2> QED BY <1>2, <2>2, <2>3 DEF RevisionActive
<1>3. \/ connections' = connections
      \/ \E c \in ConnectionIds : Revoke(c)
  <2>1. ASSUME NEW w \in Workers, Worker(w)
        PROVE  connections' = connections
    BY <2>1, WorkerWorks DEF envVars, registryVars
  <2>2. ASSUME NEW p \in Engines, Execute(p)
        PROVE  connections' = connections
    BY <2>2, ExecuteWorks DEF Moves, registryVars
  <2>3. ASSUME NEW p \in Engines, RecordSentPayment(p)
        PROVE  connections' = connections
    BY <2>3 DEF RecordSentPayment, otherVars, registryVars
  <2>4. CASE Pays
    BY <2>4, PaysLeaves DEF otherVars, registryVars
  <2>5. CASE UNCHANGED notificationVars
    BY <2>5 DEF notificationVars, registryVars
  <2>6. CASE Outside
    BY <2>6 DEF Outside, ClientPays, Tick, registryVars
  <2> QED BY <2>1, <2>2, <2>3, <2>4, <2>5, <2>6, NotificationSteps
<1>4. \A e \in Requests : ConnectionOf[e] \in ConnectionIds
  BY NotificationsAssumption
<1>5. \A e \in Requests :
          RevisionActive(ConnectionOf[e], 0)' => RevisionActive(ConnectionOf[e], 0)
  BY <1>1, <1>2, <1>3, <1>4
<1> QED BY <1>5 DEF Kept

\* Nothing new is known, and no request becomes blank that was not.
LEMMA EventsKept ==
    ASSUME EventsInv, \A e \in Requests : Kept(e)' => Kept(e),
           \A e \in Requests : \A x \in Workers : Known(e, x)' => Known(e, x),
           \A e \in Requests : Kept(e) /\ Blank(e)' => Blank(e)
    PROVE  EventsInv'
BY DEF EventsInv

\* Rows that are kept, changed but for their event, or dropped while blank or
\* after a revocation.
Tame ==
    /\ \A e \in Requests : Row(e)' # NoRow => Row(e) # NoRow /\ Row(e)'.event = Row(e).event
    /\ \A e \in Requests : Row(e)' = NoRow =>
           Row(e) = NoRow \/ Row(e).event = NoEvent \/ ~Kept(e)

LEMMA TameKeepsEvents ==
    ASSUME EventsInv, Tame, \A e \in Requests : Kept(e)' => Kept(e),
           \A e \in Requests : \A x \in Workers : Known(e, x)' => Known(e, x)
    PROVE  EventsInv'
<1>1. ASSUME NEW e \in Requests, Kept(e), Blank(e)'
      PROVE  Blank(e)
  <2>1. CASE Row(e)' # NoRow
    BY <1>1, <2>1 DEF Blank, Tame
  <2>2. CASE Row(e)' = NoRow
    BY <1>1, <2>2 DEF Blank, Tame
  <2> QED BY <2>1, <2>2
<1> QED BY <1>1, EventsKept

\* A step that holds what it knows and keeps the relays or gives one of them
\* the event of the pass.
LEMMA TameKnown ==
    ASSUME Types, Tame, NEW w \in Workers,
           \A e \in Requests : \A x \in Workers : \A v \in Workers :
               PassKnows(v, e, x)' => Known(e, x),
           \/ received' = received
           \/ /\ Busy(w) /\ pass[w].pc = "publish" /\ pass[w].relays # {}
              /\ Accept(w, NextRelay(w))
    PROVE  \A e \in Requests : \A x \in Workers : Known(e, x)' => Known(e, x)
<1> SUFFICES ASSUME NEW e \in Requests, NEW x \in Workers, Known(e, x)'
             PROVE  Known(e, x)
  OBVIOUS
<1>1. CASE Row(e)' # NoRow /\ Row(e)'.event = x
  BY <1>1, KnownParts DEF Tame
<1>2. ASSUME NEW r \in Relays, x \in received'[e][r]
      PROVE  Known(e, x)
  <2>1. CASE received' = received
    BY <1>2, <2>1, KnownParts
  <2>2. CASE /\ Busy(w) /\ pass[w].pc = "publish" /\ pass[w].relays # {}
             /\ Accept(w, NextRelay(w))
    <3>1. x \in received[e][r] \/ (x = pass[w].event /\ e = pass[w].item.id)
      BY <1>2, <2>2, Accepted
    <3> QED BY <2>2, <3>1 DEF Known
  <2> QED BY <2>1, <2>2
<1>3. ASSUME NEW v \in Workers, PassKnows(v, e, x)'
      PROVE  Known(e, x)
  BY <1>3
<1> QED BY <1>1, <1>2, <1>3, KnownAfter

\* Every step of a pass but the one that stores an event is tame.
LEMMA WorkerTame ==
    ASSUME Types, NEW w \in Workers,
           \/ Quiet(w) \/ Discards(w) \/ Expires(w) \/ Publishes(w)
           \/ Misses(w) \/ Acknowledges(w) \/ Completes(w)
    PROVE  Tame
<1>0. InvoiceRequests \subseteq Requests /\ InvoiceRequests \cap PaymentRequests = {}
      /\ PaymentRequests \subseteq Requests
  BY NotificationsAssumption DEF Requests
<1>1. CASE RowsKept
  BY <1>0, <1>1 DEF RowsKept, Like, Tame
<1>2. ASSUME NEW e \in Requests, RowOnly(e),
             \/ Row(e)' = Row(e)
             \/ Row(e)' = NoRow /\ (~Kept(e) \/ Row(e).event = NoEvent)
             \/ Row(e) # NoRow /\ Row(e)' # NoRow /\ Row(e)'.event = Row(e).event
      PROVE  Tame
  <2>1. \A f \in Requests : f # e => Row(f)' = Row(f)
    BY <1>2 DEF RowOnly
  <2> QED BY <1>0, <1>2, <2>1 DEF Tame
<1>3. CASE Discards(w)
  BY <1>0, <1>2, <1>3 DEF Discards
<1>4. CASE Expires(w)
  BY <1>0, <1>2, <1>4 DEF Expires
<1>5. ASSUME NEW row, row \in InvoiceRow \cup PaymentRow, NEW r
      PROVE  Acknowledged(row, r).event = row.event /\ Completed(row).event = row.event
             /\ Acknowledged(row, r) # NoRow /\ Completed(row) # NoRow
  <2>1. CASE row \in InvoiceRow
    BY <2>1 DEF InvoiceRow, Acknowledged, Completed, NoRow
  <2>2. CASE row \in PaymentRow
    BY <2>2 DEF PaymentRow, Acknowledged, Completed, NoRow
  <2> QED BY <1>5, <2>1, <2>2
<1>6. \A e \in Requests : Row(e) \in InvoiceRow \cup PaymentRow \cup {NoRow}
  BY TypesParts DEF TablesOK, Row, Requests
<1>7. \A r : Acknowledged(NoRow, r) = NoRow /\ Completed(NoRow) = NoRow
  BY DEF Acknowledged, Completed
<1>8. CASE Acknowledges(w)
  <2>1. PICK e \in Requests : RowOnly(e) /\ Row(e)' = Acknowledged(Row(e), NextRelay(w))
    BY <1>8 DEF Acknowledges
  <2>2. CASE Row(e) = NoRow
    BY <1>2, <1>7, <2>1, <2>2
  <2>3. CASE Row(e) # NoRow
    <3>1. Row(e) \in InvoiceRow \cup PaymentRow
      BY <1>6, <2>3
    <3>2. Row(e)' # NoRow /\ Row(e)'.event = Row(e).event
      BY <1>5, <2>1, <3>1
    <3> QED BY <1>2, <2>1, <2>3, <3>2
  <2> QED BY <2>2, <2>3
<1>9. CASE Completes(w)
  <2>1. PICK e \in Requests : RowOnly(e) /\ Row(e)' = Completed(Row(e))
    BY <1>9 DEF Completes
  <2>2. CASE Row(e) = NoRow
    BY <1>2, <1>7, <2>1, <2>2
  <2>3. CASE Row(e) # NoRow
    <3>1. Row(e) \in InvoiceRow \cup PaymentRow
      BY <1>6, <2>3
    <3>2. Row(e)' # NoRow /\ Row(e)'.event = Row(e).event
      BY <1>5, <2>1, <3>1
    <3> QED BY <1>2, <2>1, <2>3, <3>2
  <2> QED BY <2>2, <2>3
<1> QED BY <1>1, <1>3, <1>4, <1>8, <1>9 DEF Quiet, Publishes, Misses

\* A pass that publishes keeps its item and its event.
LEMMA PublishesKnown ==
    ASSUME Types, NEW w \in Workers, Publishes(w), NEW e, NEW x,
           NEW v \in Workers, PassKnows(v, e, x)'
    PROVE  Known(e, x)
<1>1. CASE v # w
  <2>1. pass'[v] = pass[v]
    BY <1>1 DEF Publishes, Follows, Others
  <2> QED BY <2>1, OthersKnow, KnownParts
<1>2. CASE v = w /\ (\E i \in Remembered(w)' : i.id = e /\ i.row.event = x)
  BY <1>2, RemembersKnown DEF Publishes, Follows
<1>3. CASE v = w /\ Busy(w)' /\ pass'[w].item.id = e /\ pass'[w].event = x
  BY <1>3 DEF Publishes, Known, Busy, HandlePcs, SendPcs
<1> QED BY <1>1, <1>2, <1>3 DEF PassKnows

\* A step of a pass that stores no event makes nothing known.
LEMMA WorkerKnown ==
    ASSUME Types, NEW w \in Workers,
           \/ Quiet(w) \/ Discards(w) \/ Expires(w) \/ Publishes(w)
           \/ Misses(w) \/ Acknowledges(w) \/ Completes(w)
    PROVE  \A e \in Requests : \A x \in Workers : Known(e, x)' => Known(e, x)
<1>1. Tame
  BY WorkerTame
<1>2. \A e \in Requests : \A x \in Workers : \A v \in Workers :
          PassKnows(v, e, x)' => Known(e, x)
  <2>1. CASE Publishes(w)
    BY <2>1, PublishesKnown
  <2>2. CASE ~Publishes(w)
    <3>1. Follows(w) /\ Holds(w)
      BY <2>2 DEF Quiet, Discards, Expires, Misses, Acknowledges, Completes
    <3> QED BY <3>1, HoldsKnown
  <2> QED BY <2>1, <2>2
<1>3. \/ received' = received
      \/ /\ Busy(w) /\ pass[w].pc = "publish" /\ pass[w].relays # {}
         /\ Accept(w, NextRelay(w))
  BY DEF Quiet, Discards, Expires, Misses, Acknowledges, Completes, Publishes, Busy,
     HandlePcs, SendPcs
<1> QED BY <1>1, <1>2, <1>3, TameKnown

\* The pass takes up the event the row has after it.
LEMMA StoresKnown ==
    ASSUME Types, NEW w \in Workers, Stores(w), NEW f \in Requests, NEW x \in Workers,
           Known(f, x)'
    PROVE  Known(f, x) \/ (f = pass[w].item.id /\ x = Row(f)'.event)
<1>1. PICK e \in Requests :
          /\ e = pass[w].item.id /\ RowOnly(e) /\ pass'[w].event = Row(e)'.event
  BY DEF Stores
<1>2. \A g \in Requests : g # e => Row(g)' = Row(g)
  BY <1>1 DEF RowOnly
<1>3. CASE Row(f)' # NoRow /\ Row(f)'.event = x
  BY <1>1, <1>2, <1>3, KnownParts
<1>4. ASSUME NEW r \in Relays, x \in received'[f][r]
      PROVE  Known(f, x)
  BY <1>4, KnownParts DEF Stores
<1>5. ASSUME NEW v \in Workers, PassKnows(v, f, x)'
      PROVE  Known(f, x) \/ (f = e /\ x = Row(e)'.event)
  <2>1. CASE v # w
    <3>1. pass'[v] = pass[v]
      BY <2>1 DEF Stores, Follows, Others
    <3> QED BY <1>5, <3>1, OthersKnow, KnownParts
  <2>2. CASE v = w /\ (\E i \in Remembered(w)' : i.id = f /\ i.row.event = x)
    BY <2>2, RemembersKnown DEF Stores, Follows
  <2>3. CASE v = w /\ Busy(w)' /\ pass'[w].item.id = f /\ pass'[w].event = x
    BY <2>3, <1>1 DEF Stores
  <2> QED BY <1>5, <2>1, <2>2, <2>3 DEF PassKnows
<1> QED BY <1>1, <1>3, <1>4, <1>5, KnownAfter

\* The event that is stored first is the only one from then on.
LEMMA StoreKeepsEvents ==
    ASSUME Types, EventsInv, NEW w \in Workers, Stores(w),
           \A f \in Requests : Kept(f)' => Kept(f)
    PROVE  EventsInv'
<1>1. PICK e \in Requests :
          /\ e = pass[w].item.id /\ RowOnly(e) /\ Row(e) # NoRow
          /\ Row(e)' = WithEvent(Row(e), w) /\ pass'[w].event = Row(e)'.event
  BY DEF Stores
<1>2. \A f \in Requests : f # e => Row(f)' = Row(f)
  BY <1>1 DEF RowOnly
<1>3. Row(e) \in InvoiceRow \cup PaymentRow
  BY <1>1, TypesParts DEF TablesOK, Row, Requests
<1>4. /\ Row(e)' # NoRow
      /\ Row(e)'.event = IF Row(e).event = NoEvent THEN w ELSE Row(e).event
  <2>1. CASE Row(e) \in InvoiceRow
    BY <1>1, <2>1 DEF InvoiceRow, WithEvent, NoRow
  <2>2. CASE Row(e) \in PaymentRow
    BY <1>1, <2>2 DEF PaymentRow, WithEvent, NoRow
  <2> QED BY <1>3, <2>1, <2>2
<1>5. Row(e).event \in Workers \cup {NoEvent} /\ NoEvent \notin Workers
  BY <1>3, TypesParts DEF InvoiceRow, PaymentRow
<1>6. PICK s \in Workers : s = Row(e)'.event
  BY <1>4, <1>5
<1>7. \A f \in Requests : \A x \in Workers : Known(f, x)' => Known(f, x) \/ (f = e /\ x = s)
  BY <1>1, <1>6, StoresKnown
<1>8. Kept(e) => \A x \in Workers : Known(e, x) => x = s
  <2>1. CASE Row(e).event = NoEvent
    <3>1. Blank(e)
      BY <1>1, <2>1 DEF Blank
    <3> QED BY <3>1 DEF EventsInv
  <2>2. CASE Row(e).event # NoEvent
    <3>1. Known(e, s)
      BY <1>1, <1>4, <1>6, <2>2, KnownParts
    <3> QED BY <3>1 DEF EventsInv
  <2> QED BY <2>1, <2>2
<1>9. ASSUME NEW f \in Requests, Kept(f)
      PROVE  \A x, y \in Workers : Known(f, x)' /\ Known(f, y)' => x = y
  BY <1>7, <1>8, <1>9 DEF EventsInv
<1>10. ASSUME NEW f \in Requests, Kept(f), Blank(f)'
       PROVE  \A x \in Workers : ~Known(f, x)'
  <2>1. f # e
    BY <1>4, <1>5, <1>6, <1>10 DEF Blank
  <2>2. Row(f)' = Row(f)
    BY <1>2, <2>1
  <2>3. Blank(f)
    BY <1>10, <2>2 DEF Blank
  <2> QED BY <1>7, <1>10, <2>1, <2>3 DEF EventsInv
<1> QED BY <1>9, <1>10 DEF EventsInv

\* Nothing becomes known of a row that is kept or comes without an event.
LEMMA StillKnown ==
    ASSUME Types, pass' = pass, received' = received,
           \A e \in Requests : \/ Row(e)' = Row(e)
                               \/ Row(e)'.event = NoEvent
    PROVE  \A e \in Requests : \A x \in Workers : Known(e, x)' => Known(e, x)
<1> SUFFICES ASSUME NEW e \in Requests, NEW x \in Workers, Known(e, x)'
             PROVE  Known(e, x)
  OBVIOUS
<1>0. NoEvent \notin Workers
  BY TypesParts
<1>1. CASE Row(e)' # NoRow /\ Row(e)'.event = x
  BY <1>0, <1>1, KnownParts
<1>2. ASSUME NEW r \in Relays, x \in received'[e][r]
      PROVE  Known(e, x)
  BY <1>2, KnownParts
<1>3. ASSUME NEW v \in Workers, PassKnows(v, e, x)'
      PROVE  Known(e, x)
  BY <1>3, OthersKnow, KnownParts
<1> QED BY <1>1, <1>2, <1>3, KnownAfter

\* A row is recorded for a request without one, and nothing was known of it.
LEMMA NewRowKeepsEvents ==
    ASSUME Types, EventsInv, \A f \in Requests : Kept(f)' => Kept(f),
           NEW e \in Requests, Row(e) = NoRow, RowOnly(e), Row(e)'.event = NoEvent,
           pass' = pass, received' = received
    PROVE  EventsInv'
<1>1. \A f \in Requests : f # e => Row(f)' = Row(f)
  BY DEF RowOnly
<1>2. \A f \in Requests : \A x \in Workers : Known(f, x)' => Known(f, x)
  BY <1>1, StillKnown
<1>3. \A f \in Requests : Blank(f)' => Blank(f)
  BY <1>1 DEF Blank
<1> QED BY <1>2, <1>3, EventsKept

\* Steps that change neither row nor pass nor relay.
LEMMA StillKeepsEvents ==
    ASSUME Types, EventsInv, \A e \in Requests : Kept(e)' => Kept(e),
           \A e \in Requests : Row(e)' = Row(e), pass' = pass, received' = received
    PROVE  EventsInv'
<1>1. Tame
  BY DEF Tame
<1> QED BY <1>1, StillKnown, TameKeepsEvents

LEMMA EventsStep ==
    ASSUME Types, EventsInv, [NotificationsNext]_notificationVars
    PROVE  EventsInv'
<1>0. \A e \in Requests : Kept(e)' => Kept(e)
  BY KeptBefore
<1>1. ASSUME NEW w \in Workers, Worker(w)
      PROVE  EventsInv'
  BY <1>0, <1>1, WorkerWorks, WorkerTame, WorkerKnown, TameKeepsEvents, StoreKeepsEvents
<1>2. ASSUME NEW p \in Engines, Execute(p)
      PROVE  EventsInv'
  <2>1. Moves(p)
    BY <1>2, ExecuteWorks
  <2>2. CASE Records(p)
    <3>1. PICK e \in InvoiceRequests :
              /\ Row(e) = NoRow /\ RowOnly(e) /\ Row(e)' # NoRow /\ Row(e)'.event = NoEvent
      BY <2>2 DEF Records
    <3>2. e \in Requests
      BY <3>1 DEF Requests
    <3> QED BY <1>0, <2>1, <3>1, <3>2, NewRowKeepsEvents DEF Moves, passVars
  <2>3. CASE ~Records(p)
    <3>1. created_invoices' = created_invoices
      BY <1>2, <2>3, ExecuteWorks DEF Claims, Stays, Finds, Makes, Answers, invoiceVars
    <3> QED BY <1>0, <2>1, <3>1, StillKeepsEvents DEF Moves, passVars, Row
  <2> QED BY <2>2, <2>3
<1>3. ASSUME NEW p \in Engines, RecordSentPayment(p)
      PROVE  EventsInv'
  <2>1. PICK e \in PaymentRequests :
            /\ RowOnly(e)
            /\ Row(e)' = Row(e) \/ (Row(e) = NoRow /\ Row(e)'.event = NoEvent)
    BY <1>3, PaymentRecorded
  <2>2. e \in Requests /\ pass' = pass /\ received' = received
    BY <1>3 DEF RecordSentPayment, otherVars, Requests
  <2>3. CASE Row(e)' = Row(e)
    <3>1. \A f \in Requests : Row(f)' = Row(f)
      BY <2>1, <2>3 DEF RowOnly
    <3> QED BY <1>0, <2>2, <3>1, StillKeepsEvents
  <2>4. CASE Row(e) = NoRow /\ Row(e)'.event = NoEvent
    BY <1>0, <2>1, <2>2, <2>4, NewRowKeepsEvents
  <2> QED BY <2>1, <2>3, <2>4
<1>4. CASE Pays
  BY <1>0, <1>4, PaysLeaves, StillKeepsEvents DEF otherVars, Row
<1>5. CASE Outside \/ UNCHANGED notificationVars
  <2>1. UNCHANGED <<created_invoices, sent_payments, pass, received>>
    BY <1>5 DEF Outside, ClientPays, Revoke, Tick, notificationVars, ledgerVars, passVars
  <2> QED BY <1>0, <2>1, StillKeepsEvents DEF Row
<1> QED BY <1>1, <1>2, <1>3, <1>4, <1>5, NotificationSteps

LEMMA NothingAtFirst ==
    ASSUME NotificationsInit, NEW e \in Requests, NEW x
    PROVE  Row(e) = NoRow /\ ~Known(e, x)
<1>1. Row(e) = NoRow
  BY DEF NotificationsInit, Row, Requests
<1>2. \A w \in Workers : ~Busy(w) /\ Remembered(w) = {}
  BY DEF NotificationsInit, Busy, Remembered, PassIdle, HandlePcs, SendPcs
<1>3. \A r \in Relays : received[e][r] = {}
  BY DEF NotificationsInit
<1> QED BY <1>1, <1>2, <1>3 DEF Known

LEMMA EventsInit == NotificationsInit => EventsInv
BY NothingAtFirst DEF EventsInv, Requests

(***************************************************************************)
(* However many passes build a notification of one request, in whatever    *)
(* order they store and publish, all relays are given one event: the one   *)
(* store_nwc_*_notification_event stored first, although expiry may drop   *)
(* the row of an invoice and replays record invoices and payments again.   *)
(* Of a payment this is so until its connection is revoked: then its row   *)
(* may be discarded with its event and recorded again without one.         *)
(***************************************************************************)
THEOREM OneCanonicalEvent == NotificationsSafety => []OneEventPerRequest
<1>1. Types /\ EventsInv => OneEventPerRequest
  <2> SUFFICES ASSUME Types, EventsInv, NEW e \in Requests, Kept(e)
               PROVE  Cardinality(UNION {received[e][r] : r \in Relays}) <= 1
    BY DEF OneEventPerRequest
  <2> DEFINE all == UNION {received[e][r] : r \in Relays}
  <2>1. all \subseteq Workers
    BY TypesParts
  <2>2. \A x \in all : Known(e, x)
    BY DEF Known
  <2>3. \A x, y \in all : x = y
    BY <2>1, <2>2 DEF EventsInv
  <2>4. CASE all = {}
    BY <2>4, FS_EmptySet
  <2>5. CASE all # {}
    <3>1. PICK x : x \in all
      BY <2>5
    <3>2. all = {x}
      BY <2>3, <3>1
    <3>3. Cardinality({x}) = 1
      BY FS_Singleton
    <3> QED BY <3>2, <3>3
  <2> QED BY <2>4, <2>5
<1>2. Types /\ EventsInv /\ [NotificationsNext]_notificationVars => EventsInv'
  BY EventsStep
<1> QED BY <1>1, <1>2, TypesInit, TypesStep, EventsInit, PTL DEF NotificationsSafety

-----------------------------------------------------------------------------
(* A completed notification is at every relay.                             *)

Grows == \A e \in Requests : \A r \in Relays : received[e][r] \subseteq received'[e][r]

\* Delivery as a row has it, and as a pass that acknowledges has it.
RowDelivered(e) ==
    Kept(e) /\ Row(e) # NoRow =>
        /\ Row(e).completed => Row(e).undelivered = {}
        /\ \A r \in Relays \ Row(e).undelivered : Row(e).event \in received[e][r]

PassDelivered(w) ==
    pass[w].pc = "acknowledge" => pass[w].event \in received[pass[w].item.id][NextRelay(w)]

LEMMA DeliveredParts ==
    DeliveredInv <=> /\ \A e \in Requests : RowDelivered(e)
                     /\ \A w \in Workers : PassDelivered(w)
BY DEF DeliveredInv, RowDelivered, PassDelivered

\* A row that keeps event, relays and completion stays delivered.
LEMMA RowStaysDelivered ==
    ASSUME NEW e \in Requests, RowDelivered(e), Grows, Kept(e)' => Kept(e),
           \/ Row(e)' = NoRow
           \/ Like(Row(e), Row(e)')
           \/ Row(e)'.undelivered = Relays /\ ~Row(e)'.completed
    PROVE  RowDelivered(e)'
<1>1. CASE Row(e)' = NoRow
  BY <1>1 DEF RowDelivered
<1>2. CASE Row(e)' # NoRow /\ Like(Row(e), Row(e)')
  <2>1. /\ Row(e) # NoRow /\ Row(e)'.event = Row(e).event
        /\ Row(e)'.undelivered = Row(e).undelivered /\ Row(e)'.completed = Row(e).completed
    BY <1>2 DEF Like
  <2> QED BY <2>1 DEF RowDelivered, Grows
<1>3. CASE Row(e)'.undelivered = Relays /\ ~Row(e)'.completed
  BY <1>3 DEF RowDelivered
<1> QED BY <1>1, <1>2, <1>3

LEMMA SameNextRelay ==
    ASSUME NEW w, pass'[w].relays = pass[w].relays
    PROVE  NextRelay(w)' = NextRelay(w)
BY DEF NextRelay

\* A pass that is about to acknowledge.
LEMMA Acknowledging ==
    ASSUME Types, NEW w \in Workers, pass[w].pc = "acknowledge"
    PROVE  /\ Busy(w) /\ pass[w].item.id \in Requests /\ NextRelay(w) \in Relays
           /\ pass[w].event \in Workers
<1>1. Busy(w)
  BY DEF Busy, HandlePcs, SendPcs
<1>2. HandleOK(pass[w])
  BY <1>1, BusyPass
<1> QED BY <1>1, <1>2, ItemFields, NextRelayChosen DEF HandleOK, Handles, SendPcs

\* A pass that goes on as it was, or holds its item.
LEMMA PassStaysDelivered ==
    ASSUME Types, NEW w \in Workers, PassDelivered(w), Grows, pass'[w] = pass[w] \/ Holds(w)
    PROVE  PassDelivered(w)'
<1> SUFFICES ASSUME pass'[w].pc = "acknowledge"
             PROVE  pass'[w].event \in received'[pass'[w].item.id][NextRelay(w)']
  BY DEF PassDelivered
<1>1. /\ pass[w].pc = "acknowledge" /\ pass'[w].item = pass[w].item
      /\ pass'[w].event = pass[w].event /\ pass'[w].relays = pass[w].relays
  BY DEF Holds, Busy, HandlePcs, SendPcs
<1>2. NextRelay(w)' = NextRelay(w)
  BY <1>1, SameNextRelay
<1>3. pass[w].event \in received[pass[w].item.id][NextRelay(w)]
  BY <1>1 DEF PassDelivered
<1> QED BY <1>1, <1>2, <1>3, Acknowledging DEF Grows

LEMMA WorkerKeepsRelays ==
    ASSUME Types, NEW w \in Workers, Worker(w)
    PROVE  Grows
<1>1. \/ received' = received
      \/ /\ Busy(w) /\ pass[w].pc = "publish" /\ pass[w].relays # {}
         /\ Accept(w, NextRelay(w))
  BY WorkerWorks DEF Quiet, Discards, Expires, Stores, Misses, Acknowledges, Completes,
     Publishes, Busy, HandlePcs, SendPcs
<1> QED BY <1>1, Accepted DEF Grows

\* The row a pass acknowledges has the event of the pass.
LEMMA AcknowledgesItsEvent ==
    ASSUME Types, EventsInv, NEW w \in Workers, pass[w].pc = "acknowledge",
           NEW e \in Requests, e = pass[w].item.id, Row(e) # NoRow, Kept(e)
    PROVE  Row(e).event = pass[w].event
<1>1. Busy(w) /\ pass[w].event \in Workers
  BY Acknowledging
<1>2. Known(e, pass[w].event)
  BY <1>1 DEF Known
<1>3. Row(e).event # NoEvent
  BY <1>1, <1>2 DEF EventsInv, Blank
<1>4. Row(e).event \in Workers /\ Known(e, Row(e).event)
  <2>1. Row(e) \in InvoiceRow \cup PaymentRow
    BY TypesParts DEF TablesOK, Row, Requests
  <2> QED BY <1>3, <2>1 DEF InvoiceRow, PaymentRow, Known
<1> QED BY <1>1, <1>2, <1>4 DEF EventsInv

LEMMA OneRowDelivered ==
    ASSUME Types, EventsInv, DeliveredInv, NEW w \in Workers,
           Worker(w), NEW e \in Requests, Kept(e)
    PROVE  RowDelivered(e)'
<1>0. Grows /\ RowDelivered(e)
  BY WorkerKeepsRelays, DeliveredParts
<1>1. Row(e) # NoRow => Row(e) \in InvoiceRow \cup PaymentRow
  BY TypesParts DEF TablesOK, Row, Requests
<1>2. CASE Quiet(w) \/ Publishes(w) \/ Misses(w)
  <2>1. Like(Row(e), Row(e)')
    BY <1>2 DEF Quiet, Publishes, Misses, RowsKept
  <2> QED BY <1>0, <2>1, RowStaysDelivered
<1>3. CASE Row(e)' = Row(e)
  <2>1. Like(Row(e), Row(e)')
    BY <1>3 DEF Like
  <2> QED BY <1>0, <2>1, RowStaysDelivered
<1>4. CASE Row(e)' = NoRow
  BY <1>0, <1>4, RowStaysDelivered
<1>5. CASE Discards(w) \/ Expires(w)
  BY <1>3, <1>4, <1>5 DEF Discards, Expires, RowOnly
<1>6. CASE Stores(w) /\ e = pass[w].item.id
  <2>1. Row(e) # NoRow /\ Row(e)' = WithEvent(Row(e), w)
    BY <1>6 DEF Stores
  <2>2. CASE Row(e).event # NoEvent
    BY <1>3, <2>1, <2>2 DEF WithEvent
  <2>3. CASE Row(e).event = NoEvent
    <3>1. /\ Row(e)' # NoRow /\ Row(e)'.undelivered = Row(e).undelivered
          /\ Row(e)'.completed = Row(e).completed
      <4>1. CASE Row(e) \in InvoiceRow
        BY <2>1, <2>3, <4>1 DEF InvoiceRow, WithEvent, NoRow
      <4>2. CASE Row(e) \in PaymentRow
        BY <2>1, <2>3, <4>2 DEF PaymentRow, WithEvent, NoRow
      <4> QED BY <1>1, <2>1, <4>1, <4>2
    <3>2. \A r \in Relays : NoEvent \notin received[e][r]
      BY TypesParts
    <3>3. Relays \ Row(e).undelivered = {}
      BY <1>0, <2>1, <2>3, <3>2 DEF RowDelivered
    <3> QED BY <1>0, <2>1, <3>1, <3>3 DEF RowDelivered
  <2> QED BY <2>2, <2>3
<1>7. CASE Acknowledges(w) /\ e = pass[w].item.id
  <2>1. Row(e)' = Acknowledged(Row(e), NextRelay(w)) /\ pass[w].pc = "acknowledge"
    BY <1>7 DEF Acknowledges
  <2>2. CASE Row(e) = NoRow
    BY <1>3, <2>1, <2>2 DEF Acknowledged
  <2>3. CASE Row(e) # NoRow
    <3>1. /\ Row(e)' # NoRow /\ Row(e)'.undelivered = Row(e).undelivered \ {NextRelay(w)}
          /\ Row(e)'.completed = Row(e).completed /\ Row(e)'.event = Row(e).event
      <4>1. CASE Row(e) \in InvoiceRow
        BY <2>1, <2>3, <4>1 DEF InvoiceRow, Acknowledged, NoRow
      <4>2. CASE Row(e) \in PaymentRow
        BY <2>1, <2>3, <4>2 DEF PaymentRow, Acknowledged, NoRow
      <4> QED BY <1>1, <2>3, <4>1, <4>2
    <3>2. Row(e).event \in received[e][NextRelay(w)]
      BY <1>7, <2>1, <2>3, AcknowledgesItsEvent DEF DeliveredInv
    <3> QED BY <1>0, <2>3, <3>1, <3>2 DEF RowDelivered, Grows
  <2> QED BY <2>2, <2>3
<1>8. CASE Completes(w) /\ Row(e)' = Completed(Row(e))
  <2>1. CASE Row(e) # NoRow /\ Row(e).event # NoEvent /\ Row(e).undelivered = {}
    <3>1. /\ Row(e)' # NoRow /\ Row(e)'.undelivered = Row(e).undelivered
          /\ Row(e)'.event = Row(e).event
      <4>1. CASE Row(e) \in InvoiceRow
        BY <1>8, <2>1, <4>1 DEF InvoiceRow, Completed, NoRow
      <4>2. CASE Row(e) \in PaymentRow
        BY <1>8, <2>1, <4>2 DEF PaymentRow, Completed, NoRow
      <4> QED BY <1>1, <2>1, <4>1, <4>2
    <3> QED BY <1>0, <2>1, <3>1 DEF RowDelivered, Grows
  <2>2. CASE ~(Row(e) # NoRow /\ Row(e).event # NoEvent /\ Row(e).undelivered = {})
    BY <1>3, <1>8, <2>2 DEF Completed
  <2> QED BY <2>1, <2>2
<1>9. CASE Stores(w) /\ e # pass[w].item.id
  BY <1>3, <1>9 DEF Stores, RowOnly
<1>10. CASE Acknowledges(w) /\ e # pass[w].item.id
  BY <1>3, <1>10 DEF Acknowledges, RowOnly
<1>11. CASE Completes(w) /\ Row(e)' # Completed(Row(e))
  BY <1>3, <1>11 DEF Completes, RowOnly
<1> QED BY <1>2, <1>5, <1>6, <1>7, <1>8, <1>9, <1>10, <1>11, WorkerWorks

LEMMA WorkerDelivers ==
    ASSUME Types, EventsInv, DeliveredInv, NEW w \in Workers, Worker(w)
    PROVE  DeliveredInv'
<1>1. Grows
  BY WorkerKeepsRelays
<1>2. ASSUME NEW e \in Requests
      PROVE  RowDelivered(e)'
  <2>1. connections' = connections
    BY WorkerWorks DEF envVars, registryVars
  <2>2. Kept(e)' => Kept(e)
    BY <2>1 DEF Kept, RevisionActive
  <2>3. CASE Kept(e)
    BY <2>3, OneRowDelivered
  <2>4. CASE ~Kept(e)
    BY <2>2, <2>4 DEF RowDelivered
  <2> QED BY <2>3, <2>4
<1>3. ASSUME NEW v \in Workers, v # w
      PROVE  PassDelivered(v)'
  <2>1. pass'[v] = pass[v]
    BY <1>3, WorkerWorks DEF Quiet, Discards, Expires, Stores, Misses, Acknowledges, Completes,
       Publishes, Follows, Others
  <2> QED BY <1>1, <2>1, PassStaysDelivered, DeliveredParts
<1>4. PassDelivered(w)'
  <2>1. CASE Publishes(w)
    <3>1. NextRelay(w)' = NextRelay(w)
      BY <2>1, SameNextRelay DEF Publishes
    <3>2. pass[w].event \in received'[pass[w].item.id][NextRelay(w)]
      BY <2>1, Accepted DEF Publishes, Busy, HandlePcs, SendPcs
    <3> QED BY <2>1, <3>1, <3>2 DEF Publishes, PassDelivered
  <2>2. CASE Stores(w)
    BY <2>2 DEF Stores, PassDelivered
  <2>3. CASE ~Publishes(w) /\ ~Stores(w)
    <3>1. Holds(w)
      BY <2>3, WorkerWorks DEF Quiet, Discards, Expires, Misses, Acknowledges, Completes
    <3> QED BY <1>1, <3>1, PassStaysDelivered, DeliveredParts
  <2> QED BY <2>1, <2>2, <2>3
<1> QED BY <1>2, <1>3, <1>4 DEF DeliveredInv, RowDelivered, PassDelivered

LEMMA DeliveredStep ==
    ASSUME Types, EventsInv, DeliveredInv, [NotificationsNext]_notificationVars
    PROVE  DeliveredInv'
<1>0. \A e \in Requests : Kept(e)' => Kept(e)
  BY KeptBefore
<1>1. ASSUME pass' = pass, received' = received,
             \A e \in Requests : \/ Row(e)' = Row(e)
                                 \/ Row(e)'.undelivered = Relays /\ ~Row(e)'.completed
      PROVE  DeliveredInv'
  <2>1. Grows
    BY <1>1 DEF Grows
  <2>2. \A e \in Requests : RowDelivered(e)'
    BY <1>0, <1>1, <2>1, RowStaysDelivered, DeliveredParts DEF Like
  <2>3. \A w \in Workers : PassDelivered(w)'
    BY <1>1, <2>1, PassStaysDelivered, DeliveredParts
  <2> QED BY <2>2, <2>3 DEF DeliveredInv, RowDelivered, PassDelivered
<1>2. ASSUME NEW p \in Engines, Execute(p)
      PROVE  DeliveredInv'
  <2>1. Moves(p)
    BY <1>2, ExecuteWorks
  <2>2. CASE Records(p)
    BY <1>1, <2>1, <2>2 DEF Records, Moves, passVars, RowOnly
  <2>3. CASE ~Records(p)
    <3>1. created_invoices' = created_invoices
      BY <1>2, <2>3, ExecuteWorks DEF Claims, Stays, Finds, Makes, Answers, invoiceVars
    <3> QED BY <1>1, <2>1, <3>1 DEF Moves, passVars, Row
  <2> QED BY <2>2, <2>3
<1>3. ASSUME NEW p \in Engines, RecordSentPayment(p)
      PROVE  DeliveredInv'
  <2>1. \A e \in Requests :
            Row(e)' = Row(e) \/ (Row(e)'.undelivered = Relays /\ ~Row(e)'.completed)
    BY <1>3, PaymentRecorded DEF RowOnly
  <2> QED BY <1>1, <1>3, <2>1 DEF RecordSentPayment, otherVars
<1>4. CASE Pays
  BY <1>1, <1>4, PaysLeaves DEF otherVars, Row
<1>5. CASE Outside \/ UNCHANGED notificationVars
  BY <1>1, <1>5 DEF Outside, ClientPays, Revoke, Tick, notificationVars, ledgerVars, passVars, Row
<1> QED BY <1>2, <1>3, <1>4, <1>5, WorkerDelivers, NotificationSteps

LEMMA DeliveredInit == NotificationsInit => DeliveredInv
<1> SUFFICES ASSUME NotificationsInit
             PROVE  DeliveredInv
  OBVIOUS
<1>1. \A w \in Workers : pass[w].pc = "idle"
  BY DEF NotificationsInit, PassIdle
<1> QED BY <1>1, NothingAtFirst DEF DeliveredInv

(***************************************************************************)
(* A completed row says the truth: every approved relay has accepted its   *)
(* event, although a pass acknowledges on a list of relays it loaded       *)
(* earlier and other passes acknowledge and complete the same row.  Of a   *)
(* payment this is so until its connection is revoked.                     *)
(***************************************************************************)
THEOREM CompletionIsTrue == NotificationsSafety => []CompletedIsEverywhere
<1>1. DeliveredInv => CompletedIsEverywhere
  BY DEF DeliveredInv, CompletedIsEverywhere, Row
<1>2. Types /\ EventsInv /\ [NotificationsNext]_notificationVars => EventsInv'
  BY EventsStep
<1>3. Types /\ EventsInv /\ DeliveredInv /\ [NotificationsNext]_notificationVars
          => DeliveredInv'
  BY DeliveredStep
<1> QED BY <1>1, <1>2, <1>3, TypesInit, TypesStep, EventsInit, DeliveredInit, PTL
        DEF NotificationsSafety

-----------------------------------------------------------------------------
(* An invoice belongs to one request, and only a paid one is notified.     *)

\* What an execution and what a pass knows of the invoice of a request.
EngineMade(p, e, i) == engine[p] # EngineIdle /\ engine[p].id = e /\ engine[p].invoice = i

PassMade(w, e, i) == \E j \in Remembered(w) : j.id = e /\ j.row.hash = i

RowMade(e, i) == created_invoices[e] # NoRow /\ created_invoices[e].hash = i

LEMMA MadeParts ==
    ASSUME NEW e, NEW i
    PROVE  MadeFor(e, i) <=> \/ \E p \in Engines : EngineMade(p, e, i)
                             \/ RowMade(e, i) \/ answer[e] = i
                             \/ \E w \in Workers : PassMade(w, e, i)
BY DEF MadeFor, EngineMade, PassMade, RowMade

LEMMA MadeAfter ==
    ASSUME NEW e, NEW i
    PROVE  MadeFor(e, i)' <=> \/ \E p \in Engines : EngineMade(p, e, i)'
                              \/ RowMade(e, i)' \/ answer'[e] = i
                              \/ \E w \in Workers : PassMade(w, e, i)'
BY DEF MadeFor, EngineMade, PassMade, RowMade

\* The row of an invoice keeps its invoice while passes work on it.
SameInvoice(e) ==
    created_invoices'[e] # NoRow =>
        /\ created_invoices[e] # NoRow
        /\ created_invoices'[e].hash = created_invoices[e].hash
        /\ created_invoices'[e].expires_at = created_invoices[e].expires_at
        /\ created_invoices'[e].revision = created_invoices[e].revision

LEMMA WorkerKeepsInvoices ==
    ASSUME Types, NEW w \in Workers, Worker(w), NEW e \in InvoiceRequests
    PROVE  SameInvoice(e)
<1>0. /\ e \in Requests /\ Row(e) = created_invoices[e] /\ Row(e)' = created_invoices'[e]
      /\ e \notin PaymentRequests
  BY NotificationsAssumption DEF Requests, Row
<1>1. Row(e) # NoRow => Row(e) \in InvoiceRow
  BY <1>0, TypesParts DEF TablesOK
<1>2. CASE Row(e)' = Row(e) \/ Row(e)' = NoRow \/ Like(Row(e), Row(e)')
  BY <1>0, <1>2 DEF SameInvoice, Like
<1>3. CASE Quiet(w) \/ Publishes(w) \/ Misses(w)
  BY <1>0, <1>2, <1>3 DEF Quiet, Publishes, Misses, RowsKept
<1>4. CASE Discards(w) \/ Expires(w)
  BY <1>0, <1>2, <1>4 DEF Discards, Expires, RowOnly
<1>5. CASE Row(e) # NoRow /\ Row(e)' = WithEvent(Row(e), w)
  BY <1>0, <1>1, <1>5 DEF WithEvent, InvoiceRow, SameInvoice
<1>6. CASE Row(e)' = Acknowledged(Row(e), NextRelay(w))
  BY <1>0, <1>1, <1>6 DEF Acknowledged, InvoiceRow, SameInvoice
<1>7. CASE Row(e)' = Completed(Row(e))
  BY <1>0, <1>1, <1>7 DEF Completed, InvoiceRow, SameInvoice
<1>8. CASE Stores(w)
  BY <1>0, <1>2, <1>5, <1>8 DEF Stores, RowOnly
<1>9. CASE Acknowledges(w)
  BY <1>0, <1>2, <1>6, <1>9 DEF Acknowledges, RowOnly
<1>10. CASE Completes(w)
  BY <1>0, <1>2, <1>7, <1>10 DEF Completes, RowOnly
<1> QED BY <1>3, <1>4, <1>8, <1>9, <1>10, WorkerWorks

\* What a pass remembers after a step it remembered or has just loaded.
LEMMA WorkerRemembers ==
    ASSUME Types, NEW w \in Workers, Worker(w), NEW v \in Workers, NEW j \in Remembered(v)'
    PROVE  j \in Remembered(v) \/ Fresh(j)
<1>1. Follows(w)
  BY WorkerWorks DEF Quiet, Discards, Expires, Stores, Misses, Acknowledges, Completes, Publishes
<1>2. CASE v = w
  BY <1>1, <1>2 DEF Follows, Remembers
<1>3. CASE v # w
  <2>1. pass'[v] = pass[v]
    BY <1>1, <1>3 DEF Follows, Others
  <2> QED BY <2>1 DEF Remembered, Busy
<1> QED BY <1>2, <1>3

LEMMA WorkerMade ==
    ASSUME Types, NEW w \in Workers, Worker(w), NEW e \in InvoiceRequests, NEW i,
           MadeFor(e, i)'
    PROVE  MadeFor(e, i)
<1>1. engine' = engine /\ answer' = answer
  BY WorkerWorks DEF envVars
<1>2. CASE \E p \in Engines : EngineMade(p, e, i)'
  BY <1>1, <1>2, MadeParts DEF EngineMade
<1>3. CASE RowMade(e, i)'
  BY <1>3, WorkerKeepsInvoices, MadeParts DEF RowMade, SameInvoice
<1>4. ASSUME NEW v \in Workers, PassMade(v, e, i)'
      PROVE  MadeFor(e, i)
  <2>1. PICK j \in Remembered(v)' : j.id = e /\ j.row.hash = i
    BY <1>4 DEF PassMade
  <2>2. CASE j \in Remembered(v)
    BY <2>1, <2>2, MadeParts DEF PassMade
  <2>3. CASE Fresh(j)
    BY <2>1, <2>3, MadeParts DEF Fresh, Row, RowMade
  <2> QED BY <2>1, <2>2, <2>3, WorkerRemembers
<1> QED BY <1>1, <1>2, <1>3, <1>4, MadeAfter, MadeParts

LEMMA WorkerKeepsInvoicesInv ==
    ASSUME Types, InvoicesInv, NEW w \in Workers, Worker(w)
    PROVE  InvoicesInv'
<1>1. /\ engine' = engine /\ answer' = answer /\ made' = made /\ lease_owner' = lease_owner
      /\ settled' = settled
  BY WorkerWorks DEF envVars
<1>2. \A e, f \in InvoiceRequests : \A i \in WalletInvoices :
          MadeFor(e, i)' => made'[i] # 0 /\ (MadeFor(f, i)' => e = f)
  BY <1>1, WorkerMade DEF InvoicesInv
<1>3. ASSUME NEW e \in InvoiceRequests, created_invoices'[e] # NoRow
      PROVE  RowOf(created_invoices[e])'
  BY <1>1, <1>3, WorkerKeepsInvoices DEF InvoicesInv, SameInvoice, RowOf
<1>4. ASSUME NEW v \in Workers, NEW j \in Remembered(v)', j.id \in InvoiceRequests
      PROVE  RowOf(j.row)'
  <2>1. RowOf(j.row)
    BY <1>4, WorkerRemembers DEF InvoicesInv, Fresh, Row
  <2> QED BY <1>1, <2>1 DEF RowOf
<1> QED BY <1>1, <1>2, <1>3, <1>4 DEF InvoicesInv

\* A step of an execution makes an invoice known only by making it.
LEMMA ExecuteMade ==
    ASSUME Types, NEW p \in Engines, Execute(p), NEW e \in InvoiceRequests,
           NEW i \in WalletInvoices, MadeFor(e, i)'
    PROVE  \/ MadeFor(e, i)
           \/ Makes(p) /\ engine[p].id = e /\ made[i] = 0 /\ engine'[p].invoice = i
<1>1. Moves(p) /\ pass' = pass
  BY ExecuteWorks DEF Moves, passVars
<1>2. ASSUME NEW q \in Engines, q # p, EngineMade(q, e, i)'
      PROVE  MadeFor(e, i)
  BY <1>1, <1>2, MadeParts DEF Moves, EngineMade
<1>3. CASE EngineMade(p, e, i)'
  <2>1. CASE Claims(p) \/ Stays(p) \/ Records(p)
    BY <1>3, <2>1, NumbersDiffer, MadeParts DEF Claims, Stays, Records, EngineMade
  <2>2. CASE Finds(p)
    BY <1>3, <2>2, MadeParts DEF Finds, EngineMade, RowMade
  <2>3. CASE Makes(p)
    BY <1>3, <2>3 DEF Makes, EngineMade
  <2>4. CASE Answers(p)
    BY <1>3, <2>4 DEF Answers, EngineMade
  <2> QED BY <2>1, <2>2, <2>3, <2>4, ExecuteWorks
<1>4. CASE RowMade(e, i)'
  <2>1. CASE Records(p)
    <3>1. PICK f \in InvoiceRequests : f = engine[p].id /\ RowOnly(f)
                                       /\ Row(f)'.hash = engine[p].invoice
      BY <2>1 DEF Records
    <3>2. CASE e = f
      BY <1>4, <2>1, <3>1, <3>2, MadeParts DEF Records, RowMade, Row, EngineMade
    <3>3. CASE e # f
      BY <1>4, <3>1, <3>3, MadeParts DEF RowOnly, Row, RowMade, Requests
    <3> QED BY <3>2, <3>3
  <2>2. CASE ~Records(p)
    <3>1. created_invoices' = created_invoices
      BY <2>2, ExecuteWorks DEF Claims, Stays, Finds, Makes, Answers, invoiceVars
    <3> QED BY <1>4, <3>1, MadeParts DEF RowMade
  <2> QED BY <2>1, <2>2
<1>5. CASE answer'[e] = i
  <2>1. CASE answer' = answer
    BY <1>5, <2>1, MadeParts
  <2>2. CASE Answers(p)
    <3>1. PICK f \in InvoiceRequests : f = engine[p].id
                                       /\ answer' = [answer EXCEPT ![f] = engine[p].invoice]
      BY <2>2 DEF Answers
    <3>2. engine[p] # EngineIdle
      BY <2>2 DEF Answers, EngineIdle
    <3>3. CASE e = f
      <4>1. engine[p].invoice = i
        BY <1>5, <3>1, <3>3 DEF Types, NotificationsTypeOK
      <4> QED BY <3>1, <3>2, <3>3, <4>1, MadeParts DEF EngineMade
    <3>4. CASE e # f
      BY <1>5, <3>1, <3>4, MadeParts
    <3> QED BY <3>3, <3>4
  <2> QED BY <2>1, <2>2, ExecuteWorks DEF Claims, Stays, Finds, Makes, Records, invoiceVars
<1>6. ASSUME NEW v \in Workers, PassMade(v, e, i)'
      PROVE  MadeFor(e, i)
  BY <1>1, <1>6, MadeParts DEF PassMade, Remembered, Busy
<1> QED BY <1>2, <1>3, <1>4, <1>5, <1>6, MadeAfter

\* The row of an invoice and the loaded ones, while no pass moves.
LEMMA RowsOfInvoices ==
    ASSUME Types, InvoicesInv, pass' = pass,
           \A i \in WalletInvoices : made[i] # 0 => made'[i] = made[i],
           \A e \in InvoiceRequests :
               \/ created_invoices'[e] = created_invoices[e]
               \/ /\ created_invoices'[e].revision = 0
                  /\ created_invoices'[e].expires_at = made'[created_invoices'[e].hash]
    PROVE  /\ \A e \in InvoiceRequests :
                  created_invoices'[e] # NoRow => RowOf(created_invoices[e])'
           /\ \A w \in Workers : \A j \in Remembered(w)' :
                  j.id \in InvoiceRequests => RowOf(j.row)'
<1>1. ASSUME NEW row \in InvoiceRow, RowOf(row), made[row.hash] # 0
      PROVE  row.expires_at = made'[row.hash] /\ row.revision = 0
  BY <1>1 DEF RowOf, InvoiceRow
<1>2. ASSUME NEW e \in InvoiceRequests, created_invoices'[e] # NoRow
      PROVE  RowOf(created_invoices[e])'
  <2>1. CASE created_invoices'[e] = created_invoices[e]
    <3>1. created_invoices[e] \in InvoiceRow
      BY <1>2, <2>1, TypesParts DEF TablesOK
    <3>2. MadeFor(e, created_invoices[e].hash) /\ created_invoices[e].hash \in WalletInvoices
      BY <1>2, <2>1, <3>1, MadeParts DEF RowMade, InvoiceRow
    <3> QED BY <1>1, <1>2, <2>1, <3>1, <3>2 DEF InvoicesInv, RowOf
  <2>2. CASE created_invoices'[e] # created_invoices[e]
    BY <2>2 DEF RowOf
  <2> QED BY <2>1, <2>2
<1>3. ASSUME NEW w \in Workers, NEW j \in Remembered(w)', j.id \in InvoiceRequests
      PROVE  RowOf(j.row)'
  <2>1. j \in Remembered(w)
    BY <1>3 DEF Remembered, Busy
  <2>2. j.row \in InvoiceRow
    <3>1. pass[w] # PassIdle
      BY <2>1 DEF Remembered
    <3>2. CASE Busy(w)
      BY <1>3, <2>1, <3>1, <3>2, BusyPass, NotificationsAssumption
         DEF Remembered, HandleOK, InvoiceItem, PaymentItem
    <3>3. CASE ~Busy(w)
      <4>1. LoopOK(pass[w])
        BY <3>1, <3>3, TypesParts DEF PassOK, HandleOK, Handles, Busy
      <4> QED BY <1>3, <2>1, <3>3, <4>1, NotificationsAssumption
              DEF Remembered, LoopOK, InvoiceItem, PaymentItem
    <3> QED BY <3>2, <3>3
  <2>3. MadeFor(j.id, j.row.hash) /\ j.row.hash \in WalletInvoices
    BY <2>1, <2>2, MadeParts DEF PassMade, InvoiceRow
  <2>4. RowOf(j.row) /\ made[j.row.hash] # 0
    BY <1>3, <2>1, <2>3 DEF InvoicesInv
  <2> QED BY <1>1, <2>2, <2>4 DEF RowOf
<1> QED BY <1>2, <1>3

LEMMA ExecuteKeepsInvoicesInv ==
    ASSUME Types, InvoicesInv, NEW p \in Engines, Execute(p)
    PROVE  InvoicesInv'
<1>0. /\ Moves(p) /\ pass' = pass /\ settled' = settled
      /\ \/ Claims(p) \/ Stays(p) \/ Finds(p) \/ Makes(p) \/ Records(p) \/ Answers(p)
  BY ExecuteWorks DEF Moves, passVars
<1>1. \A i \in WalletInvoices : made[i] # 0 => made'[i] = made[i]
  BY <1>0 DEF Claims, Stays, Finds, Makes, Records, Answers, invoiceVars, Types
<1>2. ASSUME NEW e \in InvoiceRequests, NEW f \in InvoiceRequests, NEW i \in WalletInvoices,
             MadeFor(e, i)'
      PROVE  made'[i] # 0 /\ (MadeFor(f, i)' => e = f)
  <2>1. CASE MadeFor(e, i)
    <3>1. made[i] # 0
      BY <2>1 DEF InvoicesInv
    <3> QED BY <1>1, <2>1, <3>1, ExecuteMade DEF InvoicesInv
  <2>2. CASE Makes(p) /\ engine[p].id = e /\ made[i] = 0 /\ engine'[p].invoice = i
    <3>1. ~MadeFor(f, i) /\ ~MadeFor(e, i)
      BY <2>2 DEF InvoicesInv
    <3>2. MadeFor(f, i)' => f = e
      BY <2>2, <3>1, ExecuteMade
    <3>3. made'[i] # 0
      <4>1. now + Lifetime # 0
        BY TimeIsNat, NotificationsAssumption DEF Types
      <4> QED BY <2>2, <4>1 DEF Makes, Types
    <3> QED BY <3>2, <3>3
  <2> QED BY <1>2, <2>1, <2>2, ExecuteMade
<1>3. \A e \in InvoiceRequests :
          \/ created_invoices'[e] = created_invoices[e]
          \/ /\ created_invoices'[e].revision = 0
             /\ created_invoices'[e].expires_at = made'[created_invoices'[e].hash]
  <2>1. CASE Records(p)
    <3>1. PICK f \in InvoiceRequests :
              /\ RowOnly(f) /\ Row(f)'.hash = engine[p].invoice
              /\ Row(f)'.expires_at = made[engine[p].invoice] /\ Row(f)'.revision = 0
      BY <2>1 DEF Records
    <3>2. made' = made
      BY <2>1 DEF Records
    <3> QED BY <3>1, <3>2 DEF RowOnly, Row, Requests
  <2>2. CASE ~Records(p)
    BY <1>0, <2>2 DEF Claims, Stays, Finds, Makes, Answers, invoiceVars
  <2> QED BY <2>1, <2>2
<1>4. \A e \in InvoiceRequests : lease_owner'[e] \in Engines => answer'[e] = Unanswered
  <2>1. CASE Claims(p) \/ Answers(p)
    BY <2>1, NumbersDiffer DEF Claims, Answers, InvoicesInv, Types, NotificationsTypeOK
  <2>2. CASE ~Claims(p) /\ ~Answers(p)
    BY <1>0, <2>2 DEF Stays, Finds, Makes, Records, invoiceVars, InvoicesInv
  <2> QED BY <2>1, <2>2
<1>5. ASSUME NEW i \in settled'
      PROVE  \E e \in InvoiceRequests : answer'[e] = i
  <2>1. PICK e \in InvoiceRequests : answer[e] = i
    BY <1>0, <1>5 DEF InvoicesInv
  <2>2. answer[e] # Unanswered
    BY <1>0, <1>5, <2>1, NumbersDiffer DEF Types, NotificationsTypeOK
  <2>3. answer'[e] = i
    <3>1. CASE Answers(p)
      <4>1. lease_owner[e] \notin Engines
        BY <2>2 DEF InvoicesInv
      <4> QED BY <2>1, <3>1, <4>1 DEF Answers
    <3>2. CASE ~Answers(p)
      BY <1>0, <2>1, <3>2 DEF Claims, Stays, Finds, Makes, Records, invoiceVars
    <3> QED BY <3>1, <3>2
  <2> QED BY <2>3
<1>6. /\ \A e \in InvoiceRequests :
             created_invoices'[e] # NoRow => RowOf(created_invoices[e])'
      /\ \A w \in Workers : \A j \in Remembered(w)' : j.id \in InvoiceRequests => RowOf(j.row)'
  BY <1>0, <1>1, <1>3, RowsOfInvoices
<1> QED BY <1>2, <1>4, <1>5, <1>6 DEF InvoicesInv

LEMMA InvoicesStep ==
    ASSUME Types, InvoicesInv, [NotificationsNext]_notificationVars
    PROVE  InvoicesInv'
<1>1. ASSUME UNCHANGED <<created_invoices, engine, lease_owner, answer, pass, made>>,
             \A i \in settled' : i \in settled \/ (\E e \in InvoiceRequests : answer[e] = i)
      PROVE  InvoicesInv'
  <2>1. \A e, i : MadeFor(e, i)' => MadeFor(e, i)
    BY <1>1 DEF MadeFor, Remembered, Busy
  <2>2. \A w \in Workers : Remembered(w)' = Remembered(w)
    BY <1>1 DEF Remembered, Busy
  <2>3. \A e, f \in InvoiceRequests : \A i \in WalletInvoices :
            MadeFor(e, i)' => made'[i] # 0 /\ (MadeFor(f, i)' => e = f)
    BY <1>1, <2>1 DEF InvoicesInv
  <2> QED BY <1>1, <2>2, <2>3 DEF InvoicesInv, RowOf
<1>2. ASSUME Pays \/ \E p \in Engines : RecordSentPayment(p)
      PROVE  InvoicesInv'
  <2>1. UNCHANGED otherVars
    BY <1>2, PaysLeaves DEF RecordSentPayment
  <2> QED BY <1>1, <2>1 DEF otherVars
<1>3. CASE Outside \/ UNCHANGED notificationVars
  BY <1>1, <1>3 DEF Outside, ClientPays, Revoke, Tick, notificationVars, ledgerVars, passVars
<1> QED BY <1>2, <1>3, WorkerKeepsInvoicesInv, ExecuteKeepsInvoicesInv, NotificationSteps

LEMMA InvoicesInit == NotificationsInit => InvoicesInv
<1> SUFFICES ASSUME NotificationsInit
             PROVE  InvoicesInv
  OBVIOUS
<1>1. \A w \in Workers : Remembered(w) = {}
  BY DEF NotificationsInit, Remembered
<1>2. \A e \in InvoiceRequests : \A i \in WalletInvoices : ~MadeFor(e, i)
  BY <1>1, NumbersDiffer DEF NotificationsInit, MadeFor
<1> QED BY <1>1, <1>2 DEF NotificationsInit, InvoicesInv

\* A pass that takes an invoice for paid.
Approved(w) ==
    /\ pass[w].pc = "secret" \/ (pass[w].pc = "decide" /\ pass[w].paid)
    /\ pass[w].item.id \in InvoiceRequests

\* A settled invoice that a pass looks up is the one its request was answered with.
LEMMA SettledIsAnswer ==
    ASSUME Types, InvoicesInv, NEW w \in Workers, Busy(w), pass[w].item.id \in InvoiceRequests,
           pass[w].item.row.hash \in settled
    PROVE  answer[pass[w].item.id] = pass[w].item.row.hash
<1>1. PICK e \in InvoiceRequests : answer[e] = pass[w].item.row.hash
  BY DEF InvoicesInv
<1>2. PICK f \in InvoiceRequests : f = pass[w].item.id
  OBVIOUS
<1>3. PICK i \in WalletInvoices : i = pass[w].item.row.hash
  BY DEF Types, NotificationsTypeOK
<1>4. MadeFor(e, i)
  BY <1>1, <1>3, MadeParts
<1>5. PassMade(w, f, i)
  <2>1. pass[w] # PassIdle
    BY PcsDiffer DEF Busy
  <2>2. pass[w].item \in Remembered(w)
    BY <2>1 DEF Remembered
  <2> QED BY <1>2, <1>3, <2>2 DEF PassMade
<1>6. MadeFor(f, i)
  BY <1>5, MadeParts
<1> QED BY <1>1, <1>2, <1>3, <1>4, <1>6 DEF InvoicesInv

LEMMA WorkerPaid ==
    ASSUME Types, InvoicesInv, PaidInv, NEW w \in Workers, Worker(w)
    PROVE  PaidInv'
<1>0. /\ UNCHANGED envVars
      /\ \/ Quiet(w) \/ Discards(w) \/ Expires(w) \/ Stores(w) \/ Publishes(w)
         \/ Misses(w) \/ Acknowledges(w) \/ Completes(w)
  BY WorkerWorks
<1>1. answer' = answer /\ settled' = settled
  BY <1>0 DEF envVars
<1>2. Follows(w)
  BY <1>0 DEF Quiet, Discards, Expires, Stores, Misses, Acknowledges, Completes, Publishes
<1>3. ASSUME NEW v \in Workers, Approved(v)
      PROVE  answer[pass[v].item.id] \in settled
  BY <1>3 DEF PaidInv, Approved
<1>4. ASSUME NEW e \in InvoiceRequests, NEW x \in Workers, Known(e, x)'
      PROVE  answer[e] \in settled
  <2>1. e \in Requests
    BY DEF Requests
  <2>2. CASE Known(e, x)
    BY <2>2 DEF PaidInv
  <2>3. CASE Stores(w) /\ e = pass[w].item.id
    BY <1>3, <2>3 DEF Stores, Approved
  <2> QED BY <1>0, <1>4, <2>1, <2>2, <2>3, WorkerKnown, StoresKnown
<1>5. ASSUME NEW v \in Workers, Approved(v)'
      PROVE  answer[pass'[v].item.id] \in settled
  <2>1. CASE v # w
    <3>1. pass'[v] = pass[v]
      BY <1>2, <2>1 DEF Follows, Others
    <3>2. Approved(v)
      BY <1>5, <3>1 DEF Approved
    <3> QED BY <1>3, <3>1, <3>2
  <2>2. CASE v = w /\ pass'[w].pc = "secret"
    <3>1. Busy(w) /\ pass'[w].item = pass[w].item /\ Approved(w)
      BY <1>2, <1>5, <2>2 DEF Follows, Approves, Approved
    <3> QED BY <1>3, <2>2, <3>1
  <2>3. CASE v = w /\ pass'[w].pc = "decide" /\ pass'[w].paid
    <3>1. /\ Busy(w) /\ pass'[w].item = pass[w].item /\ pass[w].item.id \in InvoiceRequests
          /\ Approved(w) \/ pass[w].item.row.hash \in settled
      BY <1>2, <1>5, <2>3 DEF Follows, Decides, Approved
    <3> QED BY <1>3, <2>3, <3>1, SettledIsAnswer
  <2> QED BY <1>5, <2>1, <2>2, <2>3 DEF Approved
<1> QED BY <1>1, <1>4, <1>5 DEF PaidInv, Approved

LEMMA PaidStep ==
    ASSUME Types, InvoicesInv, PaidInv, [NotificationsNext]_notificationVars
    PROVE  PaidInv'
<1>1. ASSUME pass' = pass, received' = received,
             \A e \in Requests : Row(e)' = Row(e) \/ Row(e)'.event = NoEvent,
             \A e \in InvoiceRequests : answer[e] \in settled => answer'[e] \in settled'
      PROVE  PaidInv'
  <2>1. \A e \in InvoiceRequests : \A x \in Workers : Known(e, x)' => answer'[e] \in settled'
    BY <1>1, StillKnown DEF PaidInv, Requests
  <2> QED BY <1>1, <2>1 DEF PaidInv
<1>2. ASSUME NEW p \in Engines, Execute(p)
      PROVE  PaidInv'
  <2>1. Moves(p)
    BY <1>2, ExecuteWorks
  <2>2. \A e \in Requests : Row(e)' = Row(e) \/ Row(e)'.event = NoEvent
    <3>1. CASE Records(p)
      BY <3>1 DEF Records, RowOnly
    <3>2. CASE ~Records(p)
      <4>1. created_invoices' = created_invoices
        BY <1>2, <3>2, ExecuteWorks DEF Claims, Stays, Finds, Makes, Answers, invoiceVars
      <4> QED BY <2>1, <4>1 DEF Moves, Row
    <3> QED BY <3>1, <3>2
  <2>3. \A e \in InvoiceRequests : answer[e] \in settled => answer'[e] = answer[e]
    <3>1. CASE Answers(p)
      <4>1. PICK f \in InvoiceRequests : lease_owner[f] = p
                                         /\ answer' = [answer EXCEPT ![f] = engine[p].invoice]
        BY <3>1 DEF Answers
      <4>2. answer[f] \notin settled
        BY <4>1, NumbersDiffer DEF InvoicesInv, Types, NotificationsTypeOK
      <4> QED BY <4>1, <4>2
    <3>2. CASE ~Answers(p)
      BY <1>2, <3>2, ExecuteWorks DEF Claims, Stays, Finds, Makes, Records, invoiceVars
    <3> QED BY <3>1, <3>2
  <2> QED BY <1>1, <2>1, <2>2, <2>3 DEF Moves, passVars
<1>3. ASSUME NEW p \in Engines, RecordSentPayment(p)
      PROVE  PaidInv'
  <2>1. \A e \in Requests : Row(e)' = Row(e) \/ Row(e)'.event = NoEvent
    BY <1>3, PaymentRecorded DEF RowOnly
  <2> QED BY <1>1, <1>3, <2>1 DEF RecordSentPayment, otherVars
<1>5. CASE Pays
  BY <1>1, <1>5, PaysLeaves DEF otherVars, Row
<1>4. CASE Outside \/ UNCHANGED notificationVars
  BY <1>1, <1>4 DEF Outside, ClientPays, Revoke, Tick, notificationVars, ledgerVars, passVars, Row
<1> QED BY <1>2, <1>3, <1>4, <1>5, WorkerPaid, NotificationSteps

LEMMA PaidInit == NotificationsInit => PaidInv
<1> SUFFICES ASSUME NotificationsInit
             PROVE  PaidInv
  OBVIOUS
<1>1. \A w \in Workers : pass[w].pc = "idle"
  BY DEF NotificationsInit, PassIdle
<1> QED BY <1>1, NothingAtFirst DEF PaidInv, Requests

(***************************************************************************)
(* A relay is given the notification of an invoice only when the invoice   *)
(* in the committed response was paid: the wallet's answer is the only way *)
(* to an event, and the invoice a pass has looked up belongs to no other   *)
(* request, whatever executions and replays made meanwhile.                *)
(***************************************************************************)
THEOREM OnlyPaidIsNotified == NotificationsSafety => []NotifiedOnlyIfPaid
<1>1. Types /\ PaidInv => NotifiedOnlyIfPaid
  <2> SUFFICES ASSUME Types, PaidInv, NEW e \in InvoiceRequests, NEW r \in Relays,
                      received[e][r] # {}
               PROVE  answer[e] \in settled
    BY DEF NotifiedOnlyIfPaid
  <2>1. PICK x \in Workers : x \in received[e][r]
    BY TypesParts DEF Requests
  <2>2. Known(e, x)
    BY <2>1 DEF Known
  <2> QED BY <2>2 DEF PaidInv
<1>2. Types /\ InvoicesInv /\ [NotificationsNext]_notificationVars => InvoicesInv'
  BY InvoicesStep
<1>3. Types /\ InvoicesInv /\ PaidInv /\ [NotificationsNext]_notificationVars => PaidInv'
  BY PaidStep
<1> QED BY <1>1, <1>2, <1>3, TypesInit, TypesStep, InvoicesInit, PaidInit, PTL
        DEF NotificationsSafety

-----------------------------------------------------------------------------
(* A paid invoice stays tracked.                                           *)

EngineRecorded(p, e, i) ==
    engine[p].pc = "respond" /\ engine[p].id = e /\ engine[p].invoice = i

LEMMA RecordedParts ==
    ASSUME NEW e, NEW i
    PROVE  Recorded(e, i) <=> \/ \E p \in Engines : EngineRecorded(p, e, i)
                              \/ RowMade(e, i) \/ answer[e] = i
                              \/ \E w \in Workers : PassMade(w, e, i)
BY DEF Recorded, EngineRecorded, PassMade, RowMade

LEMMA RecordedAfter ==
    ASSUME NEW e, NEW i
    PROVE  Recorded(e, i)' <=> \/ \E p \in Engines : EngineRecorded(p, e, i)'
                               \/ RowMade(e, i)' \/ answer'[e] = i
                               \/ \E w \in Workers : PassMade(w, e, i)'
BY DEF Recorded, EngineRecorded, PassMade, RowMade

LEMMA RecordedWasMade ==
    ASSUME NEW e, NEW i, Recorded(e, i)
    PROVE  MadeFor(e, i)
<1>1. \A p \in Engines : EngineRecorded(p, e, i) => EngineMade(p, e, i)
  BY DEF EngineRecorded, EngineMade, EngineIdle
<1> QED BY <1>1, RecordedParts, MadeParts

LEMMA WorkerRecorded ==
    ASSUME Types, NEW w \in Workers, Worker(w), NEW e \in InvoiceRequests, NEW i,
           Recorded(e, i)'
    PROVE  Recorded(e, i)
<1>1. engine' = engine /\ answer' = answer
  BY WorkerWorks DEF envVars
<1>2. CASE \E p \in Engines : EngineRecorded(p, e, i)'
  BY <1>1, <1>2, RecordedParts DEF EngineRecorded
<1>3. CASE RowMade(e, i)'
  BY <1>3, WorkerKeepsInvoices, RecordedParts DEF RowMade, SameInvoice
<1>4. ASSUME NEW v \in Workers, PassMade(v, e, i)'
      PROVE  Recorded(e, i)
  <2>1. PICK j \in Remembered(v)' : j.id = e /\ j.row.hash = i
    BY <1>4 DEF PassMade
  <2>2. CASE j \in Remembered(v)
    BY <2>1, <2>2, RecordedParts DEF PassMade
  <2>3. CASE Fresh(j)
    BY <2>1, <2>3, RecordedParts DEF Fresh, Row, RowMade
  <2> QED BY <2>1, <2>2, <2>3, WorkerRemembers
<1> QED BY <1>1, <1>2, <1>3, <1>4, RecordedAfter, RecordedParts

\* Only a record adds an invoice, and only for a request without a row.
LEMMA ExecuteRecorded ==
    ASSUME Types, NEW p \in Engines, Execute(p), NEW e \in InvoiceRequests,
           NEW i \in WalletInvoices, Recorded(e, i)'
    PROVE  \/ Recorded(e, i)
           \/ /\ Records(p) /\ engine[p].id = e /\ engine[p].invoice = i
<1>1. Moves(p) /\ pass' = pass
  BY ExecuteWorks DEF Moves, passVars
<1>2. ASSUME NEW q \in Engines, q # p, EngineRecorded(q, e, i)'
      PROVE  Recorded(e, i)
  BY <1>1, <1>2, RecordedParts DEF Moves, EngineRecorded
<1>3. ASSUME EngineRecorded(p, e, i)'
      PROVE  Recorded(e, i) \/ (Records(p) /\ engine[p].id = e /\ engine[p].invoice = i)
  <2>1. CASE Claims(p) \/ Stays(p) \/ Makes(p) \/ Answers(p)
    BY <1>3, <2>1, NumbersDiffer DEF Claims, Stays, Makes, Answers, EngineRecorded, EngineIdle
  <2>2. CASE Finds(p)
    BY <1>3, <2>2, RecordedParts DEF Finds, EngineRecorded, RowMade
  <2>3. CASE Records(p)
    BY <1>3, <2>3 DEF Records, EngineRecorded
  <2> QED BY <2>1, <2>2, <2>3, ExecuteWorks
<1>4. ASSUME RowMade(e, i)'
      PROVE  Recorded(e, i) \/ (Records(p) /\ engine[p].id = e /\ engine[p].invoice = i)
  <2>1. CASE Records(p)
    <3>1. PICK f \in InvoiceRequests : f = engine[p].id /\ RowOnly(f)
                                       /\ Row(f)'.hash = engine[p].invoice
      BY <2>1 DEF Records
    <3>2. CASE e = f
      BY <1>4, <2>1, <3>1, <3>2 DEF RowMade, Row
    <3>3. CASE e # f
      BY <1>4, <3>1, <3>3, RecordedParts DEF RowOnly, Row, RowMade, Requests
    <3> QED BY <3>2, <3>3
  <2>2. CASE ~Records(p)
    <3>1. created_invoices' = created_invoices
      BY <2>2, ExecuteWorks DEF Claims, Stays, Finds, Makes, Answers, invoiceVars
    <3> QED BY <1>4, <3>1, RecordedParts DEF RowMade
  <2> QED BY <2>1, <2>2
<1>5. CASE answer'[e] = i
  <2>1. CASE answer' = answer
    BY <1>5, <2>1, RecordedParts
  <2>2. CASE Answers(p)
    <3>1. PICK f \in InvoiceRequests : f = engine[p].id /\ engine[p].pc = "respond"
                                       /\ answer' = [answer EXCEPT ![f] = engine[p].invoice]
      BY <2>2 DEF Answers
    <3>2. CASE e = f
      <4>1. engine[p].invoice = i
        BY <1>5, <3>1, <3>2 DEF Types, NotificationsTypeOK
      <4> QED BY <3>1, <3>2, <4>1, RecordedParts DEF EngineRecorded
    <3>3. CASE e # f
      BY <1>5, <3>1, <3>3, RecordedParts
    <3> QED BY <3>2, <3>3
  <2> QED BY <2>1, <2>2, ExecuteWorks DEF Claims, Stays, Finds, Makes, Records, invoiceVars
<1>6. ASSUME NEW v \in Workers, PassMade(v, e, i)'
      PROVE  Recorded(e, i)
  BY <1>1, <1>6, RecordedParts DEF PassMade, Remembered, Busy
<1> QED BY <1>2, <1>3, <1>4, <1>5, <1>6, RecordedAfter

\* A row goes only when a pass expires it.
LEMMA OnlyExpiryDrops ==
    ASSUME Types, NEW w \in Workers, Worker(w), NEW e \in InvoiceRequests,
           created_invoices[e] # NoRow, created_invoices'[e] = NoRow
    PROVE  Expires(w) /\ e = pass[w].item.id
<1>0. /\ e \in Requests /\ Row(e) = created_invoices[e] /\ Row(e)' = created_invoices'[e]
      /\ e \notin PaymentRequests
  BY NotificationsAssumption DEF Requests, Row
<1>1. Row(e) \in InvoiceRow
  BY <1>0, TypesParts DEF TablesOK
<1>2. /\ WithEvent(Row(e), w) # NoRow /\ Completed(Row(e)) # NoRow
      /\ Acknowledged(Row(e), NextRelay(w)) # NoRow
  BY <1>1 DEF WithEvent, Completed, Acknowledged, InvoiceRow, NoRow
<1>3. ~Quiet(w) /\ ~Publishes(w) /\ ~Misses(w)
  BY <1>0 DEF Quiet, Publishes, Misses, RowsKept, Like
<1>4. ~Discards(w)
  BY <1>0 DEF Discards, RowOnly
<1>5. ~Stores(w) /\ ~Acknowledges(w) /\ ~Completes(w)
  BY <1>0, <1>2 DEF Stores, Acknowledges, Completes, RowOnly
<1>6. Expires(w)
  BY <1>3, <1>4, <1>5, WorkerWorks
<1> QED BY <1>0, <1>6 DEF Expires, RowOnly

\* The parts of the invariant.
ForTheirRequest ==
    \A e \in InvoiceRequests : \A i \in WalletInvoices : MadeFor(e, i) => made_for[i] = e

Early(e) == \A p \in Engines : Executing(p, e) => ~Outlived(e, now)

OneRecorded(e) ==
    \A i, j \in WalletInvoices : Recorded(e, i) /\ Recorded(e, j) => i = j

GoneIsOver(e) ==
    created_invoices[e] = NoRow =>
        \A i \in WalletInvoices : Recorded(e, i) => now >= made[i] + Grace /\ i \notin settled

LookedUp(w) ==
    pass[w].pc = "decide" =>
        /\ pass[w].asked_at <= now
        /\ ~pass[w].paid =>
               /\ pass[w].item.id \in overtaken \/ now < pass[w].asked_at + Grace
               /\ pass[w].item.row.hash \in settled =>
                      pass[w].asked_at < made[pass[w].item.row.hash]

LEMMA TrackedParts ==
    TrackedInv <=>
        /\ ForTheirRequest
        /\ \A e \in InvoiceRequests \ overtaken : Early(e)
        /\ \A e \in InvoiceRequests \ overtaken : RevisionActive(ConnectionOf[e], 0) =>
               OneRecorded(e) /\ GoneIsOver(e)
        /\ \A w \in Workers : LookedUp(w)
BY DEF TrackedInv, ForTheirRequest, Early, OneRecorded, GoneIsOver, LookedUp

LEMMA TrackedAfter ==
    ASSUME ForTheirRequest', \A e \in InvoiceRequests \ overtaken' : Early(e)',
           \A e \in InvoiceRequests \ overtaken' : RevisionActive(ConnectionOf[e], 0)' =>
               OneRecorded(e)' /\ GoneIsOver(e)',
           \A w \in Workers : LookedUp(w)'
    PROVE  TrackedInv'
BY DEF TrackedInv, ForTheirRequest, Early, OneRecorded, GoneIsOver, LookedUp

\* A pass that decides, its item and its numbers.
LEMMA Deciding ==
    ASSUME Types, NEW w \in Workers, pass[w].pc = "decide"
    PROVE  /\ Busy(w) /\ pass[w].item \in Remembered(w) /\ pass[w].item.id \in InvoiceRequests
           /\ pass[w].item.row \in InvoiceRow /\ pass[w].asked_at \in Nat
           /\ pass[w].item.row.hash \in WalletInvoices
<1>1. Busy(w)
  BY DEF Busy, HandlePcs
<1>2. HandleOK(pass[w]) /\ pass[w] # PassIdle
  BY <1>1, BusyPass, PcsDiffer DEF Busy
<1> QED BY <1>1, <1>2 DEF HandleOK, Handles, Remembered, InvoiceItem, InvoiceRow

LEMMA Clock ==
    ASSUME Types
    PROVE  now \in Nat /\ Grace \in Nat \ {0} /\ Lifetime \in Nat \ {0}
           /\ \A i \in WalletInvoices : made[i] \in Nat
BY TimeIsNat, NotificationsAssumption DEF Types

LEMMA WorkerTracks ==
    ASSUME Types, InvoicesInv, TrackedInv, NEW w \in Workers, Worker(w)
    PROVE  TrackedInv'
<1>0. /\ answer' = answer /\ settled' = settled /\ made' = made /\ now' = now
      /\ connections' = connections /\ made_for' = made_for /\ overtaken' = overtaken
      /\ engine' = engine
  BY WorkerWorks DEF envVars, registryVars, history
<1>1. ForTheirRequest'
  BY <1>0, WorkerMade, TrackedParts DEF ForTheirRequest
<1>2. \A e \in InvoiceRequests \ overtaken' : Early(e)'
  BY <1>0, TrackedParts DEF Early, Executing, Outlived
<1>3. ASSUME NEW e \in InvoiceRequests \ overtaken', RevisionActive(ConnectionOf[e], 0)'
      PROVE  OneRecorded(e)' /\ GoneIsOver(e)'
  <2>1. /\ RevisionActive(ConnectionOf[e], 0) /\ OneRecorded(e) /\ GoneIsOver(e)
        /\ e \notin overtaken
    BY <1>0, <1>3, TrackedParts DEF RevisionActive
  <2>2. OneRecorded(e)'
    BY <2>1, WorkerRecorded DEF OneRecorded
  <2>3. ASSUME created_invoices'[e] = NoRow, NEW i \in WalletInvoices, Recorded(e, i)
        PROVE  now >= made[i] + Grace /\ i \notin settled
    <3>1. CASE created_invoices[e] = NoRow
      BY <2>1, <2>3, <3>1 DEF GoneIsOver
    <3>2. CASE created_invoices[e] # NoRow
      <4>1. Expires(w) /\ e = pass[w].item.id /\ pass[w].pc = "decide"
        BY <2>3, <3>2, OnlyExpiryDrops DEF Expires
      <4>2. /\ pass[w].item \in Remembered(w) /\ pass[w].item.row.hash \in WalletInvoices
            /\ pass[w].asked_at \in Nat /\ pass[w].item.row \in InvoiceRow
        BY <4>1, Deciding
      <4>3. RowOf(pass[w].item.row)
        BY <4>1, <4>2 DEF InvoicesInv
      <4>4. PICK k \in WalletInvoices : k = pass[w].item.row.hash
        BY <4>2
      <4>5. Recorded(e, k)
        BY <4>1, <4>2, <4>4, RecordedParts DEF PassMade
      <4>6. i = k
        BY <2>1, <2>3, <4>5 DEF OneRecorded
      <4>7. ~pass[w].paid /\ Stale(pass[w].item.row)
        BY <2>1, <4>1, <4>3 DEF Expires, RowOf
      <4>8. now >= made[k] + Grace
        BY <4>3, <4>4, <4>7 DEF Stale, RowOf
      <4>9. LookedUp(w)
        BY TrackedParts
      <4>10. now < pass[w].asked_at + Grace /\ (k \in settled => pass[w].asked_at < made[k])
        BY <2>1, <4>1, <4>4, <4>7, <4>9 DEF LookedUp
      <4>11. k \notin settled
        BY <4>2, <4>8, <4>10, Clock
      <4> QED BY <4>6, <4>8, <4>11
    <3> QED BY <3>1, <3>2
  <2>4. GoneIsOver(e)'
    BY <1>0, <2>3, WorkerRecorded DEF GoneIsOver
  <2> QED BY <2>2, <2>4
<1>4. ASSUME NEW v \in Workers
      PROVE  LookedUp(v)'
  <2>0. Follows(w) /\ LookedUp(v)
    BY WorkerWorks, TrackedParts DEF Quiet, Discards, Expires, Stores, Misses, Acknowledges,
       Completes, Publishes
  <2>1. CASE v # w
    <3>1. pass'[v] = pass[v]
      BY <2>0, <2>1 DEF Follows, Others
    <3> QED BY <1>0, <2>0, <3>1 DEF LookedUp
  <2>2. CASE v = w
    <3> SUFFICES ASSUME pass'[w].pc = "decide"
                 PROVE  LookedUp(w)'
      BY <2>2 DEF LookedUp
    <3>1. pass'[w].item = pass[w].item
      BY <2>0 DEF Follows, Decides
    <3>2. CASE /\ pass[w].pc = "decide" /\ pass'[w].paid = pass[w].paid
               /\ pass'[w].asked_at = pass[w].asked_at
      BY <1>0, <2>0, <2>2, <3>1, <3>2 DEF LookedUp
    <3>3. CASE /\ pass'[w].asked_at = now
               /\ pass'[w].paid <=> (pass[w].item.row.hash \in settled)
      <4>1. now <= now /\ now < now + Grace
        BY Clock
      <4> QED BY <1>0, <3>1, <3>3, <4>1 DEF LookedUp
    <3> QED BY <2>0, <3>2, <3>3 DEF Follows, Decides
  <2> QED BY <2>1, <2>2
<1> QED BY <1>1, <1>2, <1>3, <1>4, TrackedAfter

\* While an execution of e runs, no invoice of e is past its grace period.
LEMMA RunningIsEarly ==
    ASSUME Types, InvoicesInv, TrackedInv, NEW p \in Engines,
           NEW e \in InvoiceRequests \ overtaken, engine[p] # EngineIdle,
           engine[p].id = e, NEW i \in WalletInvoices, MadeFor(e, i)
    PROVE  ~(now >= made[i] + Grace)
<1>1. ~Outlived(e, now)
  BY TrackedParts DEF Early, Executing
<1>2. made[i] # 0 /\ made_for[i] = e
  BY TrackedParts DEF ForTheirRequest, InvoicesInv
<1> QED BY <1>1, <1>2 DEF Outlived

LEMMA ExecuteTracks ==
    ASSUME Types, InvoicesInv, TrackedInv, NEW p \in Engines, Execute(p)
    PROVE  TrackedInv'
<1>0. /\ Moves(p) /\ pass' = pass /\ settled' = settled /\ now' = now
      /\ connections' = connections
      /\ \/ Claims(p) \/ Stays(p) \/ Finds(p) \/ Makes(p) \/ Records(p) \/ Answers(p)
  BY ExecuteWorks DEF Moves, passVars, registryVars
<1>1. \A i \in WalletInvoices : made[i] # 0 => made'[i] = made[i] /\ made_for'[i] = made_for[i]
  BY ExecuteHistory DEF Types, NotificationsTypeOK
<1>2. overtaken \subseteq overtaken'
  BY ExecuteHistory
<1>3. ASSUME NEW e \in InvoiceRequests, NEW i \in WalletInvoices, MadeFor(e, i)'
      PROVE  made_for'[i] = e
  <2>1. CASE MadeFor(e, i)
    BY <1>1, <2>1, TrackedParts DEF InvoicesInv, ForTheirRequest
  <2>2. CASE Makes(p) /\ engine[p].id = e /\ made[i] = 0 /\ engine'[p].invoice = i
    <3>1. made'[i] # 0
      <4>1. made'[i] = now + Lifetime
        BY <2>2 DEF Makes, Types
      <4> QED BY <4>1, Clock
    <3>2. made' # made
      BY <2>2, <3>1
    <3>3. PICK k \in WalletInvoices :
              /\ made' = [made EXCEPT ![k] = now + Lifetime]
              /\ made_for' = [made_for EXCEPT ![k] = engine[p].id]
      BY <3>2, ExecuteHistory
    <3>4. k = i
      BY <2>2, <3>1, <3>3 DEF Types
    <3> QED BY <2>2, <3>3, <3>4 DEF Types, NotificationsTypeOK
  <2> QED BY <1>3, <2>1, <2>2, ExecuteMade
<1>4. ASSUME NEW e \in InvoiceRequests \ overtaken'
      PROVE  Early(e)'
  <2>1. Outlived(e, now)' => Outlived(e, now)
    <3>1. CASE made_for' = made_for /\ made' = made
      BY <1>0, <3>1 DEF Outlived
    <3>2. ASSUME NEW k \in WalletInvoices, made' = [made EXCEPT ![k] = now + Lifetime],
                 made_for' = [made_for EXCEPT ![k] = engine[p].id]
          PROVE  Outlived(e, now)' => Outlived(e, now)
      <4>1. ~(now >= (now + Lifetime) + Grace) /\ made'[k] = now + Lifetime
        BY <3>2, Clock DEF Types
      <4>2. \A i \in WalletInvoices : i # k => made'[i] = made[i] /\ made_for'[i] = made_for[i]
        BY <3>2 DEF Types, NotificationsTypeOK
      <4> QED BY <1>0, <4>1, <4>2 DEF Outlived
    <3> QED BY <3>1, <3>2, ExecuteHistory
  <2>2. ASSUME NEW q \in Engines, Executing(q, e)'
        PROVE  ~Outlived(e, now)
    <3>1. e \notin overtaken /\ Early(e)
      BY <1>2, TrackedParts
    <3>2. CASE q # p
      <4>1. Executing(q, e)
        BY <1>0, <2>2, <3>2 DEF Moves, Executing
      <4> QED BY <3>1, <4>1 DEF Early
    <3>3. CASE q = p
      BY <2>2, <3>1, <3>3, ExecuteHistory DEF Early
    <3> QED BY <3>2, <3>3
  <2>3. \A q \in Engines : Executing(q, e)' => ~(Outlived(e, now)')
    BY <2>1, <2>2
  <2> QED BY <2>3 DEF Early
<1>5. ASSUME NEW e \in InvoiceRequests \ overtaken', RevisionActive(ConnectionOf[e], 0)'
      PROVE  OneRecorded(e)' /\ GoneIsOver(e)'
  <2>1. OneRecorded(e) /\ GoneIsOver(e) /\ e \notin overtaken
    BY <1>0, <1>2, <1>5, TrackedParts DEF RevisionActive
  <2>2. CASE Records(p) /\ engine[p].id = e
    <3>1. /\ engine[p] # EngineIdle /\ created_invoices[e] = NoRow
          /\ created_invoices'[e] # NoRow
      BY <2>2 DEF Records, Row
    <3>2. ASSUME NEW i \in WalletInvoices
          PROVE  ~Recorded(e, i)
      BY <2>1, <2>2, <3>1, RunningIsEarly, RecordedWasMade DEF GoneIsOver
    <3>3. \A i \in WalletInvoices : Recorded(e, i)' => i = engine[p].invoice
      BY <3>2, ExecuteRecorded
    <3> QED BY <3>1, <3>3 DEF OneRecorded, GoneIsOver
  <2>3. CASE ~(Records(p) /\ engine[p].id = e)
    <3>1. \A i \in WalletInvoices : Recorded(e, i)' => Recorded(e, i)
      BY <2>3, ExecuteRecorded
    <3>2. created_invoices'[e] = created_invoices[e]
      <4>1. CASE Records(p)
        BY <2>3, <4>1 DEF Records, RowOnly, Row, Requests
      <4>2. CASE ~Records(p)
        BY <1>0, <4>2 DEF Claims, Stays, Finds, Makes, Answers, invoiceVars
      <4> QED BY <4>1, <4>2
    <3>3. \A i \in WalletInvoices : Recorded(e, i) => made'[i] = made[i]
      BY <1>1, RecordedWasMade DEF InvoicesInv
    <3> QED BY <1>0, <2>1, <3>1, <3>2, <3>3 DEF OneRecorded, GoneIsOver
  <2> QED BY <2>2, <2>3
<1>6. ASSUME NEW v \in Workers
      PROVE  LookedUp(v)'
  <2>1. \A i \in settled : made'[i] = made[i]
    <3>1. \A i \in settled : i \in WalletInvoices
      BY DEF Types, NotificationsTypeOK
    <3>2. \A i \in settled : \E e \in InvoiceRequests : MadeFor(e, i)
      BY MadeParts DEF InvoicesInv
    <3> QED BY <1>1, <3>1, <3>2 DEF InvoicesInv
  <2>2. LookedUp(v)
    BY TrackedParts
  <2> QED BY <1>0, <1>2, <2>1, <2>2 DEF LookedUp
<1>7. ForTheirRequest'
  BY <1>3 DEF ForTheirRequest
<1> QED BY <1>4, <1>5, <1>6, <1>7, TrackedAfter

LEMMA TrackedStep ==
    ASSUME Types, InvoicesInv, TrackedInv, [NotificationsNext]_notificationVars
    PROVE  TrackedInv'
<1>0. \A e \in InvoiceRequests :
          RevisionActive(ConnectionOf[e], 0)' => RevisionActive(ConnectionOf[e], 0)
  BY KeptBefore DEF Requests
<1>1. ASSUME UNCHANGED <<created_invoices, engine, answer, pass, made, made_for>>
      PROVE  /\ ForTheirRequest'
             /\ \A e \in InvoiceRequests : \A i : Recorded(e, i)' => Recorded(e, i)
             /\ \A e \in InvoiceRequests : OneRecorded(e) => OneRecorded(e)'
  <2>1. \A e, i : MadeFor(e, i)' => MadeFor(e, i)
    BY <1>1 DEF MadeFor, Remembered, Busy
  <2>2. \A e, i : Recorded(e, i)' => Recorded(e, i)
    BY <1>1 DEF Recorded, Remembered, Busy
  <2> QED BY <1>1, <2>1, <2>2, TrackedParts DEF ForTheirRequest, OneRecorded
<1>2. ASSUME UNCHANGED <<now, created_invoices, engine, answer, pass, made, made_for, overtaken>>,
             settled \subseteq settled',
             \A i \in settled' : i \in settled \/ now < made[i]
      PROVE  TrackedInv'
  <2>1. ASSUME NEW e \in InvoiceRequests \ overtaken', RevisionActive(ConnectionOf[e], 0)'
        PROVE  OneRecorded(e)' /\ GoneIsOver(e)'
    <3>1. OneRecorded(e) /\ GoneIsOver(e)
      BY <1>0, <1>2, <2>1, TrackedParts
    <3>2. \A i \in WalletInvoices : now >= made[i] + Grace => ~(now < made[i])
      BY Clock
    <3>3. GoneIsOver(e)'
      BY <1>1, <1>2, <3>1, <3>2 DEF GoneIsOver
    <3> QED BY <1>1, <1>2, <3>1, <3>3
  <2>2. \A e \in InvoiceRequests \ overtaken' : Early(e)'
    BY <1>2, TrackedParts DEF Early, Executing, Outlived
  <2>3. ASSUME NEW w \in Workers
        PROVE  LookedUp(w)'
    <3>1. LookedUp(w)
      BY TrackedParts
    <3>2. CASE pass[w].pc = "decide"
      <4>1. /\ pass[w].asked_at \in Nat /\ pass[w].asked_at <= now
            /\ pass[w].item.row.hash \in WalletInvoices
        BY <3>1, <3>2, Deciding DEF LookedUp
      <4>2. now < made[pass[w].item.row.hash] => pass[w].asked_at < made[pass[w].item.row.hash]
        BY <4>1, Clock
      <4> QED BY <1>2, <3>1, <3>2, <4>2 DEF LookedUp
    <3>3. CASE pass[w].pc # "decide"
      BY <1>2, <3>3 DEF LookedUp
    <3> QED BY <3>2, <3>3
  <2> QED BY <1>1, <1>2, <2>1, <2>2, <2>3, TrackedAfter
<1>3. ASSUME NEW e \in InvoiceRequests, ClientPays(e)
      PROVE  TrackedInv'
  BY <1>2, <1>3 DEF ClientPays, ledgerVars, history
<1>4. ASSUME NEW c \in ConnectionIds, Revoke(c)
      PROVE  TrackedInv'
  BY <1>2, <1>4 DEF Revoke, ledgerVars, passVars, history
<1>5. CASE Tick
  <2>1. /\ UNCHANGED <<created_invoices, engine, answer, pass, made, settled, made_for>>
        /\ now' = now + 1
        /\ overtaken' = overtaken \cup {e \in InvoiceRequests :
               \/ \E w \in Workers : Asleep(w, now') /\ pass[w].item.id = e
               \/ \E p \in Engines : Executing(p, e) /\ Outlived(e, now')}
    BY <1>5 DEF Tick, ledgerVars, passVars
  <2>2. ASSUME NEW e \in InvoiceRequests \ overtaken', RevisionActive(ConnectionOf[e], 0)'
        PROVE  OneRecorded(e)' /\ GoneIsOver(e)'
    <3>1. OneRecorded(e) /\ GoneIsOver(e)
      BY <1>0, <2>1, <2>2, TrackedParts
    <3>2. \A i \in WalletInvoices : now >= made[i] + Grace => now + 1 >= made[i] + Grace
      BY Clock
    <3> QED BY <1>1, <2>1, <3>1, <3>2 DEF GoneIsOver
  <2>3. ASSUME NEW e \in InvoiceRequests \ overtaken'
        PROVE  Early(e)'
    <3>1. \A p \in Engines : Executing(p, e) => ~Outlived(e, now')
      BY <2>1, <2>3
    <3>2. (\A p \in Engines : Executing(p, e)' <=> Executing(p, e))
          /\ (Outlived(e, now)' <=> Outlived(e, now'))
      BY <2>1 DEF Executing, Outlived
    <3> QED BY <3>1, <3>2 DEF Early
  <2>4. ASSUME NEW w \in Workers
        PROVE  LookedUp(w)'
    <3>1. LookedUp(w)
      BY TrackedParts
    <3>2. CASE pass[w].pc = "decide"
      <4>1. pass[w].asked_at \in Nat /\ pass[w].asked_at <= now
            /\ pass[w].item.id \in InvoiceRequests
        BY <3>1, <3>2, Deciding DEF LookedUp
      <4>2. pass[w].asked_at <= now + 1
        BY <4>1, Clock
      <4>3. ~pass[w].paid => pass[w].item.id \in overtaken' \/ now' < pass[w].asked_at + Grace
        <5>1. now' >= pass[w].asked_at + Grace \/ now' < pass[w].asked_at + Grace
          BY <2>1, <4>1, Clock
        <5> QED BY <2>1, <3>2, <4>1, <5>1 DEF Asleep
      <4> QED BY <2>1, <3>1, <3>2, <4>2, <4>3 DEF LookedUp
    <3>3. CASE pass[w].pc # "decide"
      BY <2>1, <3>3 DEF LookedUp
    <3> QED BY <3>2, <3>3
  <2> QED BY <1>1, <2>1, <2>2, <2>3, <2>4, TrackedAfter
<1>6. CASE Pays \/ \E p \in Engines : RecordSentPayment(p)
  <2>1. UNCHANGED otherVars
    BY <1>6, PaysLeaves DEF RecordSentPayment
  <2> QED BY <1>2, <2>1 DEF otherVars, history
<1>7. CASE UNCHANGED notificationVars
  BY <1>2, <1>7 DEF notificationVars
<1> QED BY <1>3, <1>4, <1>5, <1>6, <1>7, WorkerTracks, ExecuteTracks, NotificationSteps DEF Outside

LEMMA TrackedInit == NotificationsInit => TrackedInv
<1> SUFFICES ASSUME NotificationsInit
             PROVE  TrackedInv
  OBVIOUS
<1>1. \A w \in Workers : Remembered(w) = {} /\ pass[w].pc = "idle"
  BY DEF NotificationsInit, Remembered, PassIdle
<1>2. \A e \in InvoiceRequests : \A i \in WalletInvoices : ~MadeFor(e, i)
  BY <1>1, NumbersDiffer DEF NotificationsInit, MadeFor
<1>3. \A e \in InvoiceRequests : \A i \in WalletInvoices : ~Recorded(e, i)
  BY <1>2, RecordedWasMade
<1>4. \A p \in Engines : \A e : ~Executing(p, e)
  BY DEF NotificationsInit, Executing
<1> QED BY <1>1, <1>2, <1>3, <1>4 DEF TrackedInv

(***************************************************************************)
(* While its connection is active, the invoice in the response is the one  *)
(* the ledger tracks, and a paid one is never given up: neither by a pass  *)
(* that asked the wallet before it was paid nor by the grace period nor by *)
(* the replay of a request whose execution crashed anywhere.  The two      *)
(* delays Tick remembers are the only way to lose it: a pass that sleeps   *)
(* for the grace period before it decides, and a replay so late that an    *)
(* invoice of an earlier execution is past the grace period.               *)
(***************************************************************************)
THEOREM PaidStaysTracked == NotificationsSafety => []PaidInvoiceIsTracked
<1>1. TrackedInv /\ Types => PaidInvoiceIsTracked
  <2> SUFFICES ASSUME TrackedInv, Types, NEW e \in InvoiceRequests \ overtaken,
                      RevisionActive(ConnectionOf[e], 0)
               PROVE  /\ answer[e] \in WalletInvoices /\ created_invoices[e] # NoRow =>
                             created_invoices[e].hash = answer[e]
                      /\ answer[e] \in settled => created_invoices[e] # NoRow
    BY DEF PaidInvoiceIsTracked
  <2>1. OneRecorded(e) /\ GoneIsOver(e)
    BY TrackedParts
  <2>2. Recorded(e, answer[e]) /\ settled \subseteq WalletInvoices
    BY RecordedParts DEF Types, NotificationsTypeOK
  <2>3. created_invoices[e] # NoRow =>
            created_invoices[e].hash \in WalletInvoices /\ Recorded(e, created_invoices[e].hash)
    BY TypesParts, RecordedParts DEF TablesOK, InvoiceRow, RowMade
  <2> QED BY <2>1, <2>2, <2>3 DEF OneRecorded, GoneIsOver
<1>2. Types /\ InvoicesInv /\ [NotificationsNext]_notificationVars => InvoicesInv'
  BY InvoicesStep
<1>3. Types /\ InvoicesInv /\ TrackedInv /\ [NotificationsNext]_notificationVars => TrackedInv'
  BY TrackedStep
<1> QED BY <1>1, <1>2, <1>3, TypesInit, TypesStep, InvoicesInit, TrackedInit, PTL
        DEF NotificationsSafety

=============================================================================
