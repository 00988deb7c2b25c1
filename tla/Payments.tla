------------------------------ MODULE Payments ------------------------------
(***************************************************************************)
(* How a gateway payment of one booking is created and how its status      *)
(* follows the gateway.  Two writers move a row after it is inserted: the  *)
(* webhook receiver, once per event and possibly never, and the            *)
(* reconciliation cron, again and again.  Neither holds a lock between its *)
(* read and its write.                                                     *)
(*                                                                         *)
(*   checkout: idle --(outstanding)--> due --(no PENDING row)--> clear     *)
(*             --(gateway order)--> ordered --(insert)--> idle             *)
(*   webhook:  idle --(WebhookEvent row)--> inserted --(read)--> read      *)
(*             --(transaction)--> idle                                     *)
(*   cron:     idle --(list)--> listed --(fetchStatus)--> fetched          *)
(*             --(transaction)--> idle                                     *)
(*                                                                         *)
(* A checkout handler is one call of createCustomerCheckout, a reconciler  *)
(* one row of one cron invocation's batch.  The booking is billable        *)
(* throughout.  Left out: amounts and currency of events, which the        *)
(* gateway takes from the order itself, and the CREATE and STATUS_CHANGE   *)
(* rows of AuditLog.                                                       *)
(***************************************************************************)
EXTENDS Naturals, FiniteSets, FiniteSetsExt

CONSTANTS
    MaxOrders,    \* bound: the gateway orders of a behaviour
    Customers,    \* checkout handlers
    Hooks,        \* webhook handlers
    Reconcilers,  \* rows being reconciled by invocations of the cron
    Due,          \* the booking's total, in the smallest unit of the model
    MaxDesk,      \* bound: the total recorded at the desk
    BatchSize,    \* BATCH_SIZE of the cron
    None

ASSUME PaymentsAssumption ==
    /\ MaxOrders \in Nat
    /\ Due \in Nat
    /\ MaxDesk \in Nat
    /\ BatchSize \in Nat \ {0}
    /\ IsFiniteSet(Customers)

VARIABLES
    gateway,   \* external: what Razorpay knows of each order
    emitted,   \* external: the events Razorpay sends, and re-sends
    pay,       \* table Payment, the gateway rows, by providerOrderId
    deskPaid,  \* table Payment, the sum of the desk rows
    seen,      \* table WebhookEvent
    shop,      \* the checkout handlers
    hook,      \* the webhook handlers
    rec        \* the reconcilers

vars == <<gateway, emitted, pay, deskPaid, seen, shop, hook, rec>>

\* Orders are numbered as they are created.
Orders == 1..MaxOrders

PaymentRow ==
    [status : {"ABSENT", "PENDING", "CAPTURED", "FAILED", "REFUNDED"},
     amount : Nat, rank : Nat, txnRef : BOOLEAN,
     age : {"fresh", "stuck", "old"}]

NoPayment ==
    [status |-> "ABSENT", amount |-> 0, rank |-> 0, txnRef |-> FALSE,
     age |-> "fresh"]

Events == {"failed", "captured"} \X Orders

CheckoutCall ==
    [stage : {"idle", "due", "clear", "ordered"}, amount : Nat,
     order : Orders \cup {None}]
NoCheckout == [stage |-> "idle", amount |-> 0, order |-> None]

Delivery ==
    [stage : {"idle", "inserted", "read"}, event : Events \cup {None}]
NoDelivery == [stage |-> "idle", event |-> None]

Reconciliation ==
    [stage : {"idle", "listed", "fetched"}, order : Orders \cup {None},
     abandon : BOOLEAN, verdict : {"none", "CAPTURED", "FAILED"}]
NoReconciliation ==
    [stage |-> "idle", order |-> None, abandon |-> FALSE, verdict |-> "none"]

Init ==
    /\ gateway = [o \in Orders |-> "none"]
    /\ emitted = {}
    /\ pay = [o \in Orders |-> NoPayment]
    /\ deskPaid = 0
    /\ seen = {}
    /\ shop = [k \in Customers |-> NoCheckout]
    /\ hook = [h \in Hooks |-> NoDelivery]
    /\ rec = [c \in Reconcilers |-> NoReconciliation]

WithStatus(s) == {o \in Orders : pay[o].status = s}

SetStatus(o, s) == pay' = [pay EXCEPT ![o].status = s]

\* The two writers that record a capture also record the gateway's payment id.
Capture(o) ==
    pay' = [pay EXCEPT ![o] = [@ EXCEPT !.status = "CAPTURED", !.txnRef = TRUE]]

-----------------------------------------------------------------------------
(* createCustomerCheckout and the gateway half of createPayment.           *)

\* sumCapturedForBooking: the rows of status CAPTURED, desk rows included.
CapturedSum ==
    deskPaid + MapThenSumSet(LAMBDA o : pay[o].amount, WithStatus("CAPTURED"))

\* getBookingOutstanding; a booking with nothing outstanding is refused.
ReadOutstanding(k) ==
    /\ shop[k].stage = "idle"
    /\ \E outstanding \in 1..Due :
         /\ outstanding = Due - CapturedSum
         /\ shop' = [shop EXCEPT ![k] =
              [stage |-> "due", amount |-> outstanding, order |-> None]]
    /\ UNCHANGED <<gateway, emitted, pay, deskPaid, seen, hook, rec>>

\* Wrong variant: the lookup of a pending order is forgotten.
LookupPendingNever(k) ==
    /\ shop[k].stage = "due"
    /\ shop' = [shop EXCEPT ![k] = [@ EXCEPT !.stage = "clear"]]
    /\ UNCHANGED <<gateway, emitted, pay, deskPaid, seen, hook, rec>>

\* A pending order is handed out again or, if its amount is another, the
\* call is refused; either way nothing is written.
LookupPending(k) ==
    /\ shop[k].stage = "due"
    /\ shop' = [shop EXCEPT ![k] =
         IF WithStatus("PENDING") # {} THEN NoCheckout
         ELSE [@ EXCEPT !.stage = "clear"]]
    /\ UNCHANGED <<gateway, emitted, pay, deskPaid, seen, hook, rec>>

\* RazorpayPaymentProvider.charge: an order exists before its row does.
CreateOrder(k, o) ==
    /\ shop[k].stage = "clear"
    /\ gateway[o] = "none"
    /\ \A older \in Orders : older < o => gateway[older] # "none"
    /\ gateway' = [gateway EXCEPT ![o] = "created"]
    /\ shop' = [shop EXCEPT ![k] = [@ EXCEPT !.stage = "ordered", !.order = o]]
    /\ UNCHANGED <<emitted, pay, deskPaid, seen, hook, rec>>

\* createPayment's transaction; rank stands for createdAt.
InsertPayment(k) ==
    /\ shop[k].stage = "ordered"
    /\ pay' = [pay EXCEPT ![shop[k].order] =
         [NoPayment EXCEPT !.status = "PENDING", !.amount = shop[k].amount,
            !.rank = Cardinality(Orders \ WithStatus("ABSENT")) + 1]]
    /\ shop' = [shop EXCEPT ![k] = NoCheckout]
    /\ UNCHANGED <<gateway, emitted, deskPaid, seen, hook, rec>>

\* The gateway refuses or times out, or the invocation is killed.
CheckoutFails(k) ==
    /\ shop[k].stage # "idle"
    /\ shop' = [shop EXCEPT ![k] = NoCheckout]
    /\ UNCHANGED <<gateway, emitted, pay, deskPaid, seen, hook, rec>>

\* createPayment in desk mode: captured at once, whatever is outstanding.
DeskPayment(amount) ==
    /\ deskPaid + amount <= MaxDesk
    /\ deskPaid' = deskPaid + amount
    /\ UNCHANGED <<gateway, emitted, pay, seen, shop, hook, rec>>

-----------------------------------------------------------------------------
(* The gateway.  The browser learns an order from its row, so an order is  *)
(* paid only after its row exists; a failed attempt may be tried again on  *)
(* the same order.  One failed attempt per order is modelled.              *)

AttemptFails(o) ==
    /\ pay[o].status # "ABSENT"
    /\ gateway[o] = "created"
    /\ gateway' = [gateway EXCEPT ![o] = "failed"]
    /\ emitted' = emitted \cup {<<"failed", o>>}
    /\ UNCHANGED <<pay, deskPaid, seen, shop, hook, rec>>

AttemptSucceeds(o) ==
    /\ pay[o].status # "ABSENT"
    /\ gateway[o] \in {"created", "failed"}
    /\ gateway' = [gateway EXCEPT ![o] = "captured"]
    /\ emitted' = emitted \cup {<<"captured", o>>}
    /\ UNCHANGED <<pay, deskPaid, seen, shop, hook, rec>>

\* The money has been given back, on request of this program or at the
\* gateway's own dashboard.
RefundCompletes(o) ==
    /\ gateway[o] = "captured"
    /\ gateway' = [gateway EXCEPT ![o] = "refunded"]
    /\ UNCHANGED <<emitted, pay, deskPaid, seen, shop, hook, rec>>

-----------------------------------------------------------------------------
(* withIdempotency and recordPaymentFromWebhook.                           *)

\* Wrong variant: the unique (provider, eventId) is not enforced.
DeliverTwice(h, e) ==
    /\ hook[h].stage = "idle"
    /\ e \in emitted
    /\ seen' = seen \cup {e}
    /\ hook' = [hook EXCEPT ![h] = [stage |-> "inserted", event |-> e]]
    /\ UNCHANGED <<gateway, emitted, pay, deskPaid, shop, rec>>

\* The insert of the WebhookEvent row.  An event seen before is answered as a
\* duplicate, even while its first delivery is still being processed.
Deliver(h, e) ==
    /\ hook[h].stage = "idle"
    /\ e \in emitted \ seen
    /\ seen' = seen \cup {e}
    /\ hook' = [hook EXCEPT ![h] = [stage |-> "inserted", event |-> e]]
    /\ UNCHANGED <<gateway, emitted, pay, deskPaid, shop, rec>>

\* The statuses that applyCaptured and applyFailed do not answer with a noop.
Actionable(kind) ==
    IF kind = "captured" THEN {"PENDING", "FAILED"} ELSE {"PENDING"}

ReadPayment(h) ==
    LET kind == hook[h].event[1]
        o == hook[h].event[2]
    IN  /\ hook[h].stage = "inserted"
        /\ hook' = [hook EXCEPT ![h] =
             IF pay[o].status \in Actionable(kind)
             THEN [@ EXCEPT !.stage = "read"] ELSE NoDelivery]
        /\ UNCHANGED <<gateway, emitted, pay, deskPaid, seen, shop, rec>>

\* UPDATE ... WHERE id = ? AND status IN (PENDING, FAILED)
ApplyCaptured(h) ==
    LET o == hook[h].event[2] IN
    /\ hook[h].stage = "read"
    /\ hook[h].event[1] = "captured"
    /\ IF pay[o].status \in {"PENDING", "FAILED"} THEN Capture(o)
       ELSE UNCHANGED pay
    /\ hook' = [hook EXCEPT ![h] = NoDelivery]
    /\ UNCHANGED <<gateway, emitted, deskPaid, seen, shop, rec>>

\* Wrong variant: a failed attempt is recorded as a capture.
ApplyFailedAsCaptured(h) ==
    /\ hook[h].stage = "read"
    /\ hook[h].event[1] = "failed"
    /\ Capture(hook[h].event[2])
    /\ hook' = [hook EXCEPT ![h] = NoDelivery]
    /\ UNCHANGED <<gateway, emitted, deskPaid, seen, shop, rec>>

\* UPDATE ... SET status = FAILED WHERE id = ?: the status read before is not
\* part of the condition.
ApplyFailed(h) ==
    /\ hook[h].stage = "read"
    /\ hook[h].event[1] = "failed"
    /\ SetStatus(hook[h].event[2], "FAILED")
    /\ hook' = [hook EXCEPT ![h] = NoDelivery]
    /\ UNCHANGED <<gateway, emitted, deskPaid, seen, shop, rec>>

\* fn throws: the WebhookEvent row is deleted, the answer is 500 and the
\* gateway sends the event again.
ProcessingThrows(h) ==
    /\ hook[h].stage # "idle"
    /\ seen' = seen \ {hook[h].event}
    /\ hook' = [hook EXCEPT ![h] = NoDelivery]
    /\ UNCHANGED <<gateway, emitted, pay, deskPaid, shop, rec>>

\* The invocation is killed: the WebhookEvent row stays, and every later
\* delivery of the event is a duplicate.
HookDies(h) ==
    /\ hook[h].stage # "idle"
    /\ hook' = [hook EXCEPT ![h] = NoDelivery]
    /\ UNCHANGED <<gateway, emitted, pay, deskPaid, seen, shop, rec>>

\* applyRefunded marks a payment whose refunds cover it, found by its txnRef.
MarkRefunded(o) ==
    /\ gateway[o] = "refunded"
    /\ pay[o].txnRef
    /\ pay[o].status # "REFUNDED"
    /\ SetStatus(o, "REFUNDED")
    /\ UNCHANGED <<gateway, emitted, deskPaid, seen, shop, hook, rec>>

-----------------------------------------------------------------------------
(* The reconciliation cron: every 15 minutes, the BATCH_SIZE oldest rows   *)
(* that are PENDING or FAILED and more than 30 minutes old.                *)

\* A row gets older than 30 minutes, then older than 72 hours.
Age(o) ==
    /\ pay[o].status # "ABSENT"
    /\ pay[o].age # "old"
    /\ pay' = [pay EXCEPT ![o].age = IF @ = "fresh" THEN "stuck" ELSE "old"]
    /\ UNCHANGED <<gateway, emitted, deskPaid, seen, shop, hook, rec>>

\* Wrong variant: FAILED rows are not fetched again.
StuckPendingOnly == {o \in WithStatus("PENDING") : pay[o].age # "fresh"}

Stuck ==
    {o \in WithStatus("PENDING") \cup WithStatus("FAILED") :
        pay[o].age # "fresh"}

ListStuck(c, o) ==
    /\ rec[c].stage = "idle"
    /\ o \in Stuck
    /\ Cardinality({p \in Stuck : pay[p].rank < pay[o].rank}) < BatchSize
    /\ rec' = [rec EXCEPT ![c] =
         [stage |-> "listed", order |-> o, verdict |-> "none",
          abandon |-> pay[o].status = "PENDING" /\ pay[o].age = "old"]]
    /\ UNCHANGED <<gateway, emitted, pay, deskPaid, seen, shop, hook>>

\* An attempt on the order has failed, whatever became of the order afterwards.
HasFailed(o) == <<"failed", o>> \in emitted

\* Wrong variant: the status of an undecided order is passed on as it is.
VerdictVerbatim(c) ==
    CASE gateway[rec[c].order] = "captured" -> "CAPTURED"
      [] gateway[rec[c].order] # "captured" /\ HasFailed(rec[c].order) -> "FAILED"
      [] OTHER -> "PENDING"

\* fetchStatus, and what the cron makes of it: a captured attempt wins over a
\* failed one, a refunded attempt is neither; an order with neither is
\* abandoned after 72 hours, else left.
Verdict(c) ==
    CASE gateway[rec[c].order] = "captured" -> "CAPTURED"
      [] gateway[rec[c].order] # "captured" /\ HasFailed(rec[c].order) -> "FAILED"
      [] OTHER -> IF rec[c].abandon THEN "FAILED" ELSE "none"

FetchStatus(c) ==
    /\ rec[c].stage = "listed"
    /\ rec' = [rec EXCEPT ![c] =
         IF Verdict(c) = "none" THEN NoReconciliation
         ELSE [@ EXCEPT !.stage = "fetched", !.verdict = Verdict(c)]]
    /\ UNCHANGED <<gateway, emitted, pay, deskPaid, seen, shop, hook>>

\* UPDATE ... WHERE id = ?: the listed status is not part of the condition.
RecordVerdict(c) ==
    /\ rec[c].stage = "fetched"
    /\ IF rec[c].verdict = "CAPTURED" THEN Capture(rec[c].order)
       ELSE SetStatus(rec[c].order, "FAILED")
    /\ rec' = [rec EXCEPT ![c] = NoReconciliation]
    /\ UNCHANGED <<gateway, emitted, deskPaid, seen, shop, hook>>

\* The gateway does not answer, or the invocation is killed.
ReconcileFails(c) ==
    /\ rec[c].stage # "idle"
    /\ rec' = [rec EXCEPT ![c] = NoReconciliation]
    /\ UNCHANGED <<gateway, emitted, pay, deskPaid, seen, shop, hook>>

-----------------------------------------------------------------------------
CheckoutStep(k) ==
    \/ ReadOutstanding(k)
    \/ LookupPending(k)
    \/ \E o \in Orders : CreateOrder(k, o)
    \/ InsertPayment(k)
    \/ CheckoutFails(k)

HookStep(h) ==
    \/ \E e \in Events : Deliver(h, e)
    \/ ReadPayment(h)
    \/ ApplyCaptured(h)
    \/ ApplyFailed(h)
    \/ ProcessingThrows(h)
    \/ HookDies(h)

ReconcileStep(c) ==
    \/ \E o \in Orders : ListStuck(c, o)
    \/ FetchStatus(c)
    \/ RecordVerdict(c)
    \/ ReconcileFails(c)

OrderStep(o) ==
    \/ AttemptFails(o)
    \/ AttemptSucceeds(o)
    \/ RefundCompletes(o)
    \/ MarkRefunded(o)
    \/ Age(o)

Next ==
    \/ \E k \in Customers : CheckoutStep(k)
    \/ \E amount \in 1..MaxDesk : DeskPayment(amount)
    \/ \E h \in Hooks : HookStep(h)
    \/ \E c \in Reconcilers : ReconcileStep(c)
    \/ \E o \in Orders : OrderStep(o)

Spec == Init /\ [][Next]_vars

(***************************************************************************)
(* Fairness.  Time passes; a handler that started runs to an end; the cron *)
(* fires every 15 minutes and goes through its whole batch, so a row that  *)
(* is eligible again and again is listed, fetched and written again and    *)
(* again: the gateway is not down for ever, nor is the cron killed each    *)
(* time.  Nothing obliges the gateway to deliver an event.                 *)
(***************************************************************************)
Fairness ==
    /\ \A o \in Orders : WF_vars(Age(o))
    /\ \A h \in Hooks :
         /\ WF_vars(ReadPayment(h))
         /\ WF_vars(ApplyCaptured(h))
         /\ WF_vars(ApplyFailed(h))
    /\ \A c \in Reconcilers, o \in Orders :
         /\ SF_vars(ListStuck(c, o))
         /\ SF_vars(rec[c].order = o /\ FetchStatus(c))
         /\ SF_vars(rec[c].order = o /\ RecordVerdict(c))

FairSpec == Spec /\ Fairness

-----------------------------------------------------------------------------
(* Properties *)

\* Every table and every handler keeps its shape.
PaymentsTypeOK ==
    /\ gateway \in [Orders ->
                     {"none", "created", "failed", "captured", "refunded"}]
    /\ emitted \subseteq Events
    /\ pay \in [Orders -> PaymentRow]
    /\ deskPaid \in 0..MaxDesk
    /\ seen \subseteq emitted
    /\ shop \in [Customers -> CheckoutCall]
    /\ hook \in [Hooks -> Delivery]
    /\ rec \in [Reconcilers -> Reconciliation]

\* A gateway payment is recorded as captured, or carries a gateway payment id,
\* only if the gateway captured money on its order, although the two writers
\* act on verdicts that are out of date (applyCaptured, reconcile-payments).
CapturedMeansPaid ==
    \A o \in Orders :
        pay[o].status \in {"CAPTURED", "REFUNDED"} \/ pay[o].txnRef
            => gateway[o] \in {"captured", "refunded"}

\* createCustomerCheckout looks for a pending order before it creates one, in
\* separate steps: a booking may have several pending orders at once, but never
\* more than there were checkouts under way together.
PendingOrdersBounded ==
    Cardinality(WithStatus("PENDING")) <= Cardinality(Customers)

\* "Run fn exactly once per (provider, eventId)", the safety half: no two
\* deliveries of one event are processed at the same time (withIdempotency).
OneRunPerEvent ==
    \A g, h \in Hooks :
        /\ hook[g].stage # "idle"
        /\ hook[h].stage # "idle"
        /\ hook[g].event = hook[h].event
        => g = h

\* "Webhooks can be lost. This cron is the safety net": whatever is lost,
\* duplicated, reordered or killed, a captured order ends up recorded and
\* stays recorded unless the money goes back, provided the cron's batch has
\* room for every order.
CapturesAreRecorded ==
    \A o \in Orders :
        gateway[o] = "captured"
            ~> [](\/ pay[o].status \in {"CAPTURED", "REFUNDED"}
                 \/ gateway[o] = "refunded")

-----------------------------------------------------------------------------
(* What the code or its documents say, and the code does not do. *)

\* A recorded capture is never taken back except by a refund, and a refund
\* never: applyFailed moves PENDING only, the cron PENDING and FAILED only.
RecordedCapturesStay ==
    [][\A o \in Orders :
         /\ pay[o].status = "CAPTURED" =>
                pay'[o].status \in {"CAPTURED", "REFUNDED"}
         /\ pay[o].status = "REFUNDED" => pay'[o].status = "REFUNDED"]_vars
=============================================================================
