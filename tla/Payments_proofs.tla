-------------------------- MODULE Payments_proofs --------------------------
(***************************************************************************)
(* Proofs about Payments, for every number of orders, checkouts,           *)
(* deliveries and reconcilers: its type invariant, and that the program    *)
(* records a capture only for money the gateway took, processes an event   *)
(* once at a time, and bounds the orders pending on a booking.             *)
(***************************************************************************)
EXTENDS Payments, FiniteSetTheorems, TLAPS

Paid(o) == gateway[o] \in {"captured", "refunded"}

\* What a handler holds in its memory is backed by the gateway, although the
\* row it was read from may have moved on.
HandlersBacked ==
    /\ \A o \in Orders : <<"captured", o>> \in emitted => Paid(o)
    /\ \A k \in Customers : shop[k].stage = "ordered" => shop[k].order \in Orders
    /\ \A h \in Hooks : hook[h].stage # "idle" => hook[h].event \in emitted
    /\ \A c \in Reconcilers :
         /\ rec[c].stage # "idle" => rec[c].order \in Orders
         /\ rec[c].stage = "fetched" => rec[c].verdict \in {"CAPTURED", "FAILED"}
         /\ rec[c].stage = "fetched" /\ rec[c].verdict = "CAPTURED"
              => Paid(rec[c].order)

PInv == PaymentsTypeOK /\ HandlersBacked /\ CapturedMeansPaid

-----------------------------------------------------------------------------
(* What the two writers of a status do to the table. *)

\* Writing a status changes one row.
LEMMA SetStatusEffect ==
    ASSUME pay \in [Orders -> PaymentRow], NEW o \in Orders,
           NEW s \in {"PENDING", "CAPTURED", "FAILED", "REFUNDED"},
           SetStatus(o, s)
    PROVE  /\ pay' \in [Orders -> PaymentRow]
           /\ \A p \in Orders : p # o => pay'[p] = pay[p]
           /\ pay'[o].status = s
           /\ pay'[o].txnRef = pay[o].txnRef
  BY DEF SetStatus, PaymentRow

\* So does a capture, which leaves it CAPTURED with its reference.
LEMMA CaptureEffect ==
    ASSUME pay \in [Orders -> PaymentRow], NEW o \in Orders, Capture(o)
    PROVE  /\ pay' \in [Orders -> PaymentRow]
           /\ \A p \in Orders : p # o => pay'[p] = pay[p]
           /\ pay'[o].status = "CAPTURED"
           /\ pay'[o].txnRef
<1> DEFINE new == [pay[o] EXCEPT !.status = "CAPTURED", !.txnRef = TRUE]
<1>1. pay' = [pay EXCEPT ![o] = new]
  BY DEF Capture
<1>2. pay[o] \in PaymentRow
  OBVIOUS
<1>3. /\ new \in PaymentRow
      /\ new.status = "CAPTURED"
      /\ new.txnRef
  BY <1>2 DEF PaymentRow
<1> HIDE DEF new
<1> QED
  BY <1>1, <1>3

\* The orders are finitely many.
LEMMA OrdersFinite == IsFiniteSet(Orders) /\ \A S \in SUBSET Orders : IsFiniteSet(S)
<1>1. IsFiniteSet(Orders)
  BY PaymentsAssumption, FS_Interval DEF Orders
<1> QED
  BY <1>1, FS_Subset

\* A checkout's insert makes the row of its own order PENDING.
LEMMA InsertEffect ==
    ASSUME PaymentsTypeOK, HandlersBacked, NEW k \in Customers, InsertPayment(k)
    PROVE  LET o == shop[k].order IN
           /\ o \in Orders
           /\ pay' \in [Orders -> PaymentRow]
           /\ \A p \in Orders : p # o => pay'[p] = pay[p]
           /\ pay'[o].status = "PENDING"
           /\ pay'[o].txnRef = FALSE
<1> DEFINE o == shop[k].order
           n == Cardinality(Orders \ WithStatus("ABSENT")) + 1
           new == [NoPayment EXCEPT !.status = "PENDING",
                     !.amount = shop[k].amount, !.rank = n]
<1>1. o \in Orders /\ shop[k].amount \in Nat
  BY DEF InsertPayment, HandlersBacked, PaymentsTypeOK, CheckoutCall
<1>2. n \in Nat
  <2>1. Cardinality(Orders \ WithStatus("ABSENT")) \in Nat
    BY OrdersFinite, FS_CardinalityType
  <2> HIDE DEF WithStatus
  <2> QED  BY <2>1
<1>3. pay' = [pay EXCEPT ![o] = new]
  BY DEF InsertPayment
<1> HIDE DEF n
<1>4. new \in PaymentRow /\ new.status = "PENDING" /\ new.txnRef = FALSE
  BY <1>1, <1>2 DEF NoPayment, PaymentRow
<1> HIDE DEF new
<1> QED
  BY <1>1, <1>3, <1>4 DEF PaymentsTypeOK

-----------------------------------------------------------------------------
(* Type correctness and the backing of every verdict. *)

\* No order, no row.
LEMMA InitPInv == Init => PInv
<1> SUFFICES ASSUME Init PROVE PInv
  OBVIOUS
<1> USE PaymentsAssumption
<1>1. PaymentsTypeOK
  BY DEF Init, PaymentsTypeOK, PaymentRow, NoPayment, CheckoutCall, NoCheckout,
         Delivery, NoDelivery, Reconciliation, NoReconciliation
<1>2. HandlersBacked /\ CapturedMeansPaid
  BY DEF Init, HandlersBacked, CapturedMeansPaid, NoPayment, NoCheckout,
         NoDelivery, NoReconciliation
<1> QED  BY <1>1, <1>2 DEF PInv

\* A step that leaves the table and the gateway alone keeps what is recorded.
LEMMA CapturesKept ==
    ASSUME CapturedMeansPaid, UNCHANGED <<gateway, pay>>
    PROVE  CapturedMeansPaid'
  BY DEF CapturedMeansPaid

\* The steps of a checkout.
LEMMA CheckoutPInv ==
    ASSUME PInv, NEW k \in Customers, CheckoutStep(k)
    PROVE  PInv'
<1> USE PaymentsAssumption DEF PInv
<1>1. CASE ReadOutstanding(k)
  <2>1. PICK outstanding \in 1..Due : shop' = [shop EXCEPT ![k] =
              [stage |-> "due", amount |-> outstanding, order |-> None]]
    BY <1>1 DEF ReadOutstanding
  <2>2. outstanding \in Nat
    OBVIOUS
  <2>3. PaymentsTypeOK'
    BY <1>1, <2>1, <2>2 DEF ReadOutstanding, PaymentsTypeOK, CheckoutCall
  <2>4. HandlersBacked'
    BY <1>1, <2>1 DEF ReadOutstanding, PaymentsTypeOK, HandlersBacked, Paid
  <2> QED  BY <1>1, <2>3, <2>4, CapturesKept DEF ReadOutstanding
<1>2. CASE LookupPending(k)
  <2>1. PaymentsTypeOK'
    BY <1>2 DEF LookupPending, PaymentsTypeOK, CheckoutCall, NoCheckout
  <2>2. HandlersBacked'
    BY <1>2 DEF LookupPending, PaymentsTypeOK, CheckoutCall, NoCheckout,
                HandlersBacked, Paid
  <2> QED  BY <1>2, <2>1, <2>2, CapturesKept DEF LookupPending
<1>3. ASSUME NEW o \in Orders, CreateOrder(k, o) PROVE PInv'
  <2> DEFINE call == [shop[k] EXCEPT !.stage = "ordered", !.order = o]
  <2>1. shop' = [shop EXCEPT ![k] = call]
    BY <1>3 DEF CreateOrder
  <2>2. shop[k] \in CheckoutCall
    BY DEF PaymentsTypeOK
  <2>3. call \in CheckoutCall /\ call.order = o
    BY <2>2 DEF CheckoutCall
  <2> HIDE DEF call
  <2>4. PaymentsTypeOK'
    BY <1>3, <2>1, <2>3 DEF CreateOrder, PaymentsTypeOK
  <2>5. \A p \in Orders : Paid(p) => Paid(p)'
    BY <1>3 DEF CreateOrder, Paid, PaymentsTypeOK
  <2>6. HandlersBacked'
    BY <1>3, <2>1, <2>3, <2>5
       DEF CreateOrder, PaymentsTypeOK, HandlersBacked
  <2>7. CapturedMeansPaid'
    BY <1>3, <2>5 DEF CreateOrder, CapturedMeansPaid, Paid
  <2> QED  BY <2>4, <2>6, <2>7
<1>4. CASE InsertPayment(k)
  <2> DEFINE o == shop[k].order
  <2>1. /\ o \in Orders
        /\ pay' \in [Orders -> PaymentRow]
        /\ \A p \in Orders : p # o => pay'[p] = pay[p]
        /\ pay'[o].status = "PENDING"
        /\ pay'[o].txnRef = FALSE
    BY <1>4, InsertEffect
  <2> HIDE DEF o
  <2>2. /\ shop' = [shop EXCEPT ![k] = NoCheckout]
        /\ UNCHANGED <<gateway, emitted, deskPaid, seen, hook, rec>>
    BY <1>4 DEF InsertPayment
  <2>3. PaymentsTypeOK'
    BY <2>1, <2>2 DEF PaymentsTypeOK, CheckoutCall, NoCheckout
  <2>4. HandlersBacked'
    BY <2>1, <2>2 DEF HandlersBacked, PaymentsTypeOK, NoCheckout, Paid
  <2>5. CapturedMeansPaid'
    BY <2>1, <2>2 DEF CapturedMeansPaid
  <2> QED  BY <2>3, <2>4, <2>5
<1>5. CASE CheckoutFails(k)
  <2>1. PaymentsTypeOK'
    BY <1>5 DEF CheckoutFails, PaymentsTypeOK, CheckoutCall, NoCheckout
  <2>2. HandlersBacked'
    BY <1>5 DEF CheckoutFails, PaymentsTypeOK, NoCheckout, HandlersBacked, Paid
  <2> QED  BY <1>5, <2>1, <2>2, CapturesKept DEF CheckoutFails
<1> QED  BY <1>1, <1>2, <1>3, <1>4, <1>5 DEF CheckoutStep

\* The steps of a webhook delivery.
LEMMA HookPInv ==
    ASSUME PInv, NEW h \in Hooks, HookStep(h)
    PROVE  PInv'
<1> USE PaymentsAssumption DEF PInv
<1>0. hook[h].stage # "idle" =>
          \E kind \in {"failed", "captured"}, o \in Orders :
              /\ hook[h].event = <<kind, o>>
              /\ hook[h].event[1] = kind
              /\ hook[h].event[2] = o
              /\ kind = "captured" => Paid(o)
  <2> SUFFICES ASSUME hook[h].stage # "idle"
               PROVE  \E kind \in {"failed", "captured"}, o \in Orders :
                          /\ hook[h].event = <<kind, o>>
                          /\ hook[h].event[1] = kind
                          /\ hook[h].event[2] = o
                          /\ kind = "captured" => Paid(o)
    OBVIOUS
  <2>1. hook[h].event \in Events /\ hook[h].event \in emitted
    BY DEF HandlersBacked, PaymentsTypeOK
  <2>2. PICK kind \in {"failed", "captured"}, o \in Orders :
            hook[h].event = <<kind, o>>
    BY <2>1 DEF Events
  <2> QED  BY <2>1, <2>2 DEF HandlersBacked
<1>1. ASSUME NEW e \in Events, Deliver(h, e) PROVE PInv'
  <2>1. PaymentsTypeOK'
    BY <1>1 DEF Deliver, PaymentsTypeOK, Delivery
  <2>2. HandlersBacked'
    BY <1>1 DEF Deliver, PaymentsTypeOK, HandlersBacked, Paid
  <2> QED  BY <1>1, <2>1, <2>2, CapturesKept DEF Deliver
<1>2. CASE ReadPayment(h)
  <2>1. PaymentsTypeOK'
    BY <1>2 DEF ReadPayment, PaymentsTypeOK, Delivery, NoDelivery
  <2>2. HandlersBacked'
    BY <1>2 DEF ReadPayment, PaymentsTypeOK, Delivery, NoDelivery,
                HandlersBacked, Paid
  <2> QED  BY <1>2, <2>1, <2>2, CapturesKept DEF ReadPayment
<1>3. CASE ApplyCaptured(h)
  <2>1. PICK o \in Orders : hook[h].event[2] = o /\ Paid(o)
    BY <1>0, <1>3 DEF ApplyCaptured
  <2>2. /\ pay' \in [Orders -> PaymentRow]
        /\ \A p \in Orders : p # o => pay'[p] = pay[p]
        /\ pay' = pay \/ (pay'[o].status = "CAPTURED" /\ pay'[o].txnRef)
    <3>1. CASE Capture(o)
      BY <3>1, CaptureEffect DEF PaymentsTypeOK
    <3>2. CASE UNCHANGED pay
      BY <3>2 DEF PaymentsTypeOK
    <3> QED  BY <1>3, <2>1, <3>1, <3>2 DEF ApplyCaptured
  <2>3. /\ hook' = [hook EXCEPT ![h] = NoDelivery]
        /\ UNCHANGED <<gateway, emitted, deskPaid, seen, shop, rec>>
    BY <1>3 DEF ApplyCaptured
  <2>4. PaymentsTypeOK'
    BY <2>2, <2>3 DEF PaymentsTypeOK, Delivery, NoDelivery
  <2>5. HandlersBacked'
    BY <2>2, <2>3 DEF HandlersBacked, PaymentsTypeOK, NoDelivery, Paid
  <2>6. CapturedMeansPaid'
    BY <2>1, <2>2, <2>3 DEF CapturedMeansPaid, Paid
  <2> QED  BY <2>4, <2>5, <2>6
<1>4. CASE ApplyFailed(h)
  <2>1. PICK o \in Orders : hook[h].event[2] = o
    BY <1>0, <1>4 DEF ApplyFailed
  <2>2. /\ pay' \in [Orders -> PaymentRow]
        /\ \A p \in Orders : p # o => pay'[p] = pay[p]
        /\ pay'[o].status = "FAILED"
        /\ pay'[o].txnRef = pay[o].txnRef
    BY <1>4, <2>1, SetStatusEffect DEF ApplyFailed, PaymentsTypeOK
  <2>3. /\ hook' = [hook EXCEPT ![h] = NoDelivery]
        /\ UNCHANGED <<gateway, emitted, deskPaid, seen, shop, rec>>
    BY <1>4 DEF ApplyFailed
  <2>4. PaymentsTypeOK'
    BY <2>2, <2>3 DEF PaymentsTypeOK, Delivery, NoDelivery
  <2>5. HandlersBacked'
    BY <2>2, <2>3 DEF HandlersBacked, PaymentsTypeOK, NoDelivery, Paid
  <2>6. CapturedMeansPaid'
    BY <2>1, <2>2, <2>3 DEF CapturedMeansPaid
  <2> QED  BY <2>4, <2>5, <2>6
<1>5. CASE ProcessingThrows(h) \/ HookDies(h)
  <2>1. /\ hook' = [hook EXCEPT ![h] = NoDelivery]
        /\ seen' \subseteq seen
        /\ UNCHANGED <<gateway, emitted, pay, deskPaid, shop, rec>>
    BY <1>5 DEF ProcessingThrows, HookDies
  <2>2. PaymentsTypeOK'
    BY <2>1 DEF PaymentsTypeOK, Delivery, NoDelivery
  <2>3. HandlersBacked'
    BY <2>1 DEF HandlersBacked, PaymentsTypeOK, NoDelivery, Paid
  <2> QED  BY <2>1, <2>2, <2>3, CapturesKept
<1> QED  BY <1>1, <1>2, <1>3, <1>4, <1>5 DEF HookStep

\* The steps of the cron, for an order of its batch.
LEMMA ReconcilePInv ==
    ASSUME PInv, NEW c \in Reconcilers, ReconcileStep(c)
    PROVE  PInv'
<1> USE PaymentsAssumption DEF PInv
<1>1. ASSUME NEW o \in Orders, ListStuck(c, o) PROVE PInv'
  <2>1. PaymentsTypeOK'
    BY <1>1 DEF ListStuck, PaymentsTypeOK, Reconciliation
  <2>2. HandlersBacked'
    BY <1>1 DEF ListStuck, PaymentsTypeOK, HandlersBacked, Paid
  <2> QED  BY <1>1, <2>1, <2>2, CapturesKept DEF ListStuck
<1>2. CASE FetchStatus(c)
  <2> DEFINE v == Verdict(c)
             o == rec[c].order
             call == [rec[c] EXCEPT !.stage = "fetched", !.verdict = v]
  <2>1. /\ o \in Orders
        /\ v \in {"none", "CAPTURED", "FAILED"}
        /\ v = "CAPTURED" => Paid(o)
    <3>1. o \in Orders /\ rec[c].abandon \in BOOLEAN
      BY <1>2 DEF FetchStatus, HandlersBacked, PaymentsTypeOK, Reconciliation
    <3>2. CASE gateway[o] = "captured"
      BY <3>1, <3>2 DEF Verdict, Paid
    <3>3. CASE gateway[o] # "captured" /\ HasFailed(o)
      BY <3>1, <3>3 DEF Verdict
    <3>4. CASE gateway[o] # "captured" /\ ~HasFailed(o)
      BY <3>1, <3>4 DEF Verdict
    <3> QED  BY <3>1, <3>2, <3>3, <3>4
  <2>2. /\ v = "none" => rec' = [rec EXCEPT ![c] = NoReconciliation]
        /\ v # "none" => rec' = [rec EXCEPT ![c] = call]
        /\ UNCHANGED <<gateway, emitted, pay, deskPaid, seen, shop, hook>>
    BY <1>2 DEF FetchStatus
  <2>3. rec[c] \in Reconciliation
    BY DEF PaymentsTypeOK
  <2> HIDE DEF v
  <2>4. /\ call \in Reconciliation
        /\ call.stage = "fetched" /\ call.verdict = v /\ call.order = o
    BY <2>1, <2>3 DEF Reconciliation
  <2> HIDE DEF call
  <2>5. PaymentsTypeOK'
    <3>1. NoReconciliation \in Reconciliation
      BY DEF Reconciliation, NoReconciliation
    <3>2. rec' \in [Reconcilers -> Reconciliation]
      BY <2>2, <2>4, <3>1 DEF PaymentsTypeOK
    <3> QED  BY <2>2, <3>2 DEF PaymentsTypeOK
  <2>6. HandlersBacked'
    BY <2>1, <2>2, <2>4
       DEF HandlersBacked, PaymentsTypeOK, NoReconciliation, Paid
  <2> QED  BY <2>2, <2>5, <2>6, CapturesKept
<1>3. CASE RecordVerdict(c)
  <2> DEFINE o == rec[c].order
  <2>1. /\ o \in Orders
        /\ rec[c].verdict \in {"CAPTURED", "FAILED"}
        /\ rec[c].verdict = "CAPTURED" => Paid(o)
    BY <1>3 DEF RecordVerdict, HandlersBacked
  <2>2. /\ pay' \in [Orders -> PaymentRow]
        /\ \A p \in Orders : p # o => pay'[p] = pay[p]
        /\ \/ Paid(o)
           \/ pay'[o].status = "FAILED" /\ pay'[o].txnRef = pay[o].txnRef
    <3>1. CASE rec[c].verdict = "CAPTURED"
      BY <1>3, <2>1, <3>1, CaptureEffect DEF RecordVerdict, PaymentsTypeOK
    <3>2. CASE rec[c].verdict = "FAILED"
      BY <1>3, <2>1, <3>2, SetStatusEffect DEF RecordVerdict, PaymentsTypeOK
    <3> QED  BY <2>1, <3>1, <3>2
  <2> HIDE DEF o
  <2>3. /\ rec' = [rec EXCEPT ![c] = NoReconciliation]
        /\ UNCHANGED <<gateway, emitted, deskPaid, seen, shop, hook>>
    BY <1>3 DEF RecordVerdict
  <2>4. PaymentsTypeOK'
    BY <2>2, <2>3 DEF PaymentsTypeOK, Reconciliation, NoReconciliation
  <2>5. HandlersBacked'
    BY <2>3 DEF HandlersBacked, PaymentsTypeOK, NoReconciliation, Paid
  <2>6. CapturedMeansPaid'
    BY <2>2, <2>3 DEF CapturedMeansPaid, Paid
  <2> QED  BY <2>4, <2>5, <2>6
<1>4. CASE ReconcileFails(c)
  <2>1. PaymentsTypeOK'
    BY <1>4 DEF ReconcileFails, PaymentsTypeOK, Reconciliation, NoReconciliation
  <2>2. HandlersBacked'
    BY <1>4 DEF ReconcileFails, PaymentsTypeOK, NoReconciliation,
                HandlersBacked, Paid
  <2> QED  BY <1>4, <2>1, <2>2, CapturesKept DEF ReconcileFails
<1> QED  BY <1>1, <1>2, <1>3, <1>4 DEF ReconcileStep

\* What the gateway, the desk and the clock do to an order.
LEMMA OrderPInv ==
    ASSUME PInv, NEW o \in Orders, OrderStep(o)
    PROVE  PInv'
<1> USE PaymentsAssumption DEF PInv
<1>1. CASE AttemptFails(o) \/ AttemptSucceeds(o) \/ RefundCompletes(o)
  <2>1. \A p \in Orders : Paid(p) => Paid(p)'
    BY <1>1 DEF AttemptFails, AttemptSucceeds, RefundCompletes, Paid,
                PaymentsTypeOK
  <2>2. PaymentsTypeOK'
    BY <1>1 DEF AttemptFails, AttemptSucceeds, RefundCompletes, PaymentsTypeOK,
                Events
  <2>3. HandlersBacked'
    <3>1. \A p \in Orders : <<"captured", p>> \in emitted' => Paid(p)'
      BY <1>1, <2>1 DEF AttemptFails, AttemptSucceeds, RefundCompletes, Paid,
                        PaymentsTypeOK, HandlersBacked
    <3>2. emitted \subseteq emitted' /\ UNCHANGED <<shop, hook, rec>>
      BY <1>1 DEF AttemptFails, AttemptSucceeds, RefundCompletes
    <3> QED  BY <2>1, <3>1, <3>2 DEF HandlersBacked
  <2>4. UNCHANGED pay
    BY <1>1 DEF AttemptFails, AttemptSucceeds, RefundCompletes
  <2>5. CapturedMeansPaid'
    BY <2>1, <2>4 DEF CapturedMeansPaid, Paid
  <2> QED  BY <2>2, <2>3, <2>5
<1>2. CASE MarkRefunded(o) \/ Age(o)
  <2>1. /\ pay' \in [Orders -> PaymentRow]
        /\ \A p \in Orders : p # o => pay'[p] = pay[p]
        /\ \/ Paid(o)
           \/ pay'[o].status = pay[o].status /\ pay'[o].txnRef = pay[o].txnRef
    <3>1. CASE MarkRefunded(o)
      BY <3>1, SetStatusEffect DEF MarkRefunded, PaymentsTypeOK, Paid
    <3>2. CASE Age(o)
      BY <3>2 DEF Age, PaymentsTypeOK, PaymentRow
    <3> QED  BY <1>2, <3>1, <3>2
  <2>2. UNCHANGED <<gateway, emitted, deskPaid, seen, shop, hook, rec>>
    BY <1>2 DEF MarkRefunded, Age
  <2>3. PaymentsTypeOK'
    BY <2>1, <2>2 DEF PaymentsTypeOK
  <2>4. HandlersBacked'
    BY <2>2 DEF HandlersBacked, Paid
  <2>5. CapturedMeansPaid'
    BY <2>1, <2>2 DEF CapturedMeansPaid, Paid
  <2> QED  BY <2>3, <2>4, <2>5
<1> QED  BY <1>1, <1>2 DEF OrderStep

\* One lemma per kind of step above.
LEMMA NextPInv ==
    ASSUME PInv, [Next]_vars
    PROVE  PInv'
<1>1. ASSUME NEW amount \in 1..MaxDesk, DeskPayment(amount) PROVE PInv'
  <2>1. PaymentsTypeOK'
    BY <1>1, PaymentsAssumption DEF DeskPayment, PInv, PaymentsTypeOK
  <2>2. HandlersBacked'
    BY <1>1 DEF DeskPayment, PInv, HandlersBacked, Paid
  <2> QED  BY <1>1, <2>1, <2>2, CapturesKept DEF DeskPayment, PInv
<1>2. CASE UNCHANGED vars
  BY <1>2 DEF vars, PInv, PaymentsTypeOK, HandlersBacked, CapturedMeansPaid, Paid
<1> QED
  BY <1>1, <1>2, CheckoutPInv, HookPInv, ReconcilePInv, OrderPInv DEF Next

\* Every table and every handler keeps its shape, whatever the constants.
THEOREM PaymentsTypeCorrect == Spec => []PaymentsTypeOK
<1>1. PInv => PaymentsTypeOK
  BY DEF PInv
<1> QED
  BY InitPInv, NextPInv, <1>1, PTL DEF Spec

\* Stale reads, repeated deliveries and overlapping crons never record money
\* that the gateway did not take (applyCaptured, reconcile-payments).
THEOREM CapturesAreBacked == Spec => []CapturedMeansPaid
<1>1. PInv => CapturedMeansPaid
  BY DEF PInv
<1> QED
  BY InitPInv, NextPInv, <1>1, PTL DEF Spec

-----------------------------------------------------------------------------
(* One processing of an event at a time. *)

\* An event being processed is in the table of seen events.
ProcessedAreSeen ==
    \A h \in Hooks : hook[h].stage # "idle" => hook[h].event \in seen

\* Only a delivery that inserts the event's row processes it.
LEMMA HookOneRun ==
    ASSUME PaymentsTypeOK, OneRunPerEvent, ProcessedAreSeen, [Next]_vars
    PROVE  OneRunPerEvent' /\ ProcessedAreSeen'
<1> USE DEF PaymentsTypeOK, OneRunPerEvent, ProcessedAreSeen
<1>1. ASSUME NEW h \in Hooks, NEW e \in Events, Deliver(h, e)
      PROVE  OneRunPerEvent' /\ ProcessedAreSeen'
  BY <1>1 DEF Deliver
<1>2. ASSUME NEW h \in Hooks, ReadPayment(h)
      PROVE  OneRunPerEvent' /\ ProcessedAreSeen'
  BY <1>2 DEF ReadPayment, Delivery, NoDelivery
<1>3. ASSUME NEW h \in Hooks,
             ApplyCaptured(h) \/ ApplyFailed(h) \/ HookDies(h)
      PROVE  OneRunPerEvent' /\ ProcessedAreSeen'
  <2>1. hook' = [hook EXCEPT ![h] = NoDelivery] /\ UNCHANGED seen
    BY <1>3 DEF ApplyCaptured, ApplyFailed, HookDies
  <2> QED  BY <2>1 DEF NoDelivery
<1>4. ASSUME NEW h \in Hooks, ProcessingThrows(h)
      PROVE  OneRunPerEvent' /\ ProcessedAreSeen'
  BY <1>4 DEF ProcessingThrows, NoDelivery
<1>5. CASE UNCHANGED <<hook, seen>>
  BY <1>5
<1>6. ASSUME NEW k \in Customers, CheckoutStep(k) PROVE UNCHANGED <<hook, seen>>
  BY <1>6 DEF CheckoutStep, ReadOutstanding, LookupPending, CreateOrder,
              InsertPayment, CheckoutFails
<1>7. ASSUME NEW c \in Reconcilers, ReconcileStep(c)
      PROVE  UNCHANGED <<hook, seen>>
  BY <1>7 DEF ReconcileStep, ListStuck, FetchStatus, RecordVerdict,
              ReconcileFails
<1>8. ASSUME NEW o \in Orders, OrderStep(o) PROVE UNCHANGED <<hook, seen>>
  BY <1>8 DEF OrderStep, AttemptFails, AttemptSucceeds, RefundCompletes,
              MarkRefunded, Age
<1>9. ASSUME NEW amount \in 1..MaxDesk, DeskPayment(amount)
      PROVE  UNCHANGED <<hook, seen>>
  BY <1>9 DEF DeskPayment
<1>10. ASSUME NEW h \in Hooks, HookStep(h)
       PROVE  OneRunPerEvent' /\ ProcessedAreSeen'
  BY <1>1, <1>2, <1>3, <1>4, <1>10 DEF HookStep
<1>11. CASE UNCHANGED vars
  BY <1>11, <1>5 DEF vars
<1> QED
  BY <1>5, <1>6, <1>7, <1>8, <1>9, <1>10, <1>11 DEF Next

\* "Run fn exactly once per (provider, eventId)", the safety half: the unique
\* row makes two deliveries of one event exclude each other (withIdempotency).
THEOREM DeliveriesExclude == Spec => []OneRunPerEvent
<1>1. Init => OneRunPerEvent /\ ProcessedAreSeen
  BY DEF Init, OneRunPerEvent, ProcessedAreSeen, NoDelivery
<1>2. OneRunPerEvent /\ ProcessedAreSeen /\ PaymentsTypeOK /\ [Next]_vars
        => (OneRunPerEvent /\ ProcessedAreSeen)'
  BY HookOneRun
<1> QED
  BY <1>1, <1>2, PaymentsTypeCorrect, PTL DEF Spec

-----------------------------------------------------------------------------
(* The orders pending on a booking. *)

\* The checkouts that found no pending order and may still insert one.
Ready == {k \in Customers : shop[k].stage \in {"clear", "ordered"}}

\* Pending orders and checkouts about to add one, together: the sum is what a
\* stale lookup cannot exceed, as each checkout adds at most one per lookup.
PendingBudget ==
    Cardinality(WithStatus("PENDING")) + Cardinality(Ready)
        <= Cardinality(Customers)

\* The sets the budget counts are finite.
LEMMA Sizes ==
    /\ IsFiniteSet(WithStatus("PENDING")) /\ IsFiniteSet(Ready)
    /\ Cardinality(WithStatus("PENDING")) \in Nat
    /\ Cardinality(Ready) \in Nat
    /\ Cardinality(Customers) \in Nat
    /\ Cardinality(Ready) <= Cardinality(Customers)
<1>1. IsFiniteSet(WithStatus("PENDING"))
  BY OrdersFinite DEF WithStatus
<1>2. Ready \in SUBSET Customers /\ IsFiniteSet(Customers)
  BY PaymentsAssumption DEF Ready
<1>3. IsFiniteSet(Ready) /\ Cardinality(Ready) <= Cardinality(Customers)
  BY <1>2, FS_Subset
<1> QED
  BY <1>1, <1>2, <1>3, FS_CardinalityType

\* Fewer pending orders and fewer ready checkouts keep the budget.
LEMMA BudgetShrinks ==
    ASSUME PendingBudget, WithStatus("PENDING")' \subseteq WithStatus("PENDING"),
           Ready' \subseteq Ready
    PROVE  PendingBudget'
<1> DEFINE P == WithStatus("PENDING")
           Q == WithStatus("PENDING")'
           R == Ready
           T == Ready'
<1>1. /\ IsFiniteSet(P) /\ IsFiniteSet(R)
      /\ Cardinality(P) \in Nat /\ Cardinality(R) \in Nat
      /\ Cardinality(Customers) \in Nat
      /\ Cardinality(P) + Cardinality(R) <= Cardinality(Customers)
  BY Sizes DEF PendingBudget
<1>2. Q \in SUBSET P /\ T \in SUBSET R
  OBVIOUS
<1>3. Cardinality(Q) + Cardinality(T) <= Cardinality(Customers)
  <2> HIDE DEF P, Q, R, T
  <2>1. IsFiniteSet(Q) /\ Cardinality(Q) <= Cardinality(P)
    BY <1>1, <1>2, FS_Subset
  <2>2. IsFiniteSet(T) /\ Cardinality(T) <= Cardinality(R)
    BY <1>1, <1>2, FS_Subset
  <2>3. Cardinality(Q) \in Nat /\ Cardinality(T) \in Nat
    BY <2>1, <2>2, FS_CardinalityType
  <2> QED  BY <1>1, <2>1, <2>2, <2>3
<1> QED  BY <1>3 DEF PendingBudget

\* Only a checkout's insert adds a pending order.
LEMMA NobodyElsePends ==
    ASSUME PInv, [Next]_vars, \A k \in Customers : ~InsertPayment(k)
    PROVE  WithStatus("PENDING")' \subseteq WithStatus("PENDING")
<1> SUFFICES \A o \in Orders :
                 pay'[o].status = "PENDING" => pay[o].status = "PENDING"
  BY DEF WithStatus
<1> USE DEF PInv
<1>1. ASSUME NEW o \in Orders, NEW s \in {"FAILED", "REFUNDED"}, SetStatus(o, s)
      PROVE  \A p \in Orders :
                 pay'[p].status = "PENDING" => pay[p].status = "PENDING"
  BY <1>1, SetStatusEffect DEF PaymentsTypeOK
<1>2. ASSUME NEW o \in Orders, Capture(o)
      PROVE  \A p \in Orders :
                 pay'[p].status = "PENDING" => pay[p].status = "PENDING"
  BY <1>2, CaptureEffect DEF PaymentsTypeOK
<1>3. ASSUME NEW h \in Hooks, HookStep(h)
      PROVE  \A p \in Orders :
                 pay'[p].status = "PENDING" => pay[p].status = "PENDING"
  <2>1. hook[h].stage # "idle" => hook[h].event[2] \in Orders
    <3>1. hook[h].stage # "idle" => hook[h].event \in Events
      BY DEF HandlersBacked, PaymentsTypeOK
    <3> QED  BY <3>1 DEF Events
  <2>2. CASE ApplyCaptured(h)
    BY <1>2, <2>1, <2>2 DEF ApplyCaptured
  <2>3. CASE ApplyFailed(h)
    BY <1>1, <2>1, <2>3 DEF ApplyFailed
  <2> QED
    BY <1>3, <2>2, <2>3 DEF HookStep, Deliver, ReadPayment, ProcessingThrows,
                            HookDies
<1>4. ASSUME NEW c \in Reconcilers, ReconcileStep(c)
      PROVE  \A p \in Orders :
                 pay'[p].status = "PENDING" => pay[p].status = "PENDING"
  <2>1. CASE RecordVerdict(c)
    <3>1. rec[c].order \in Orders
      BY <2>1 DEF RecordVerdict, HandlersBacked
    <3> QED  BY <1>1, <1>2, <2>1, <3>1 DEF RecordVerdict
  <2> QED
    BY <1>4, <2>1 DEF ReconcileStep, ListStuck, FetchStatus, ReconcileFails
<1>5. ASSUME NEW o \in Orders, OrderStep(o)
      PROVE  \A p \in Orders :
                 pay'[p].status = "PENDING" => pay[p].status = "PENDING"
  <2>1. CASE MarkRefunded(o)
    BY <1>1, <2>1 DEF MarkRefunded
  <2>2. CASE Age(o)
    BY <2>2 DEF Age, PaymentsTypeOK, PaymentRow
  <2> QED
    BY <1>5, <2>1, <2>2 DEF OrderStep, AttemptFails, AttemptSucceeds,
                            RefundCompletes
<1>6. ASSUME NEW k \in Customers, CheckoutStep(k) PROVE UNCHANGED pay
  BY <1>6 DEF CheckoutStep, ReadOutstanding, LookupPending, CreateOrder,
              CheckoutFails
<1>7. ASSUME NEW amount \in 1..MaxDesk, DeskPayment(amount)
      PROVE  UNCHANGED pay
  BY <1>7 DEF DeskPayment
<1>8. CASE UNCHANGED vars
  BY <1>8 DEF vars
<1> QED  BY <1>3, <1>4, <1>5, <1>6, <1>7, <1>8 DEF Next

\* A lookup that passes found nothing pending; an insert turns one into the other.
LEMMA BudgetKept ==
    ASSUME PInv, PendingBudget, [Next]_vars
    PROVE  PendingBudget'
<1> USE DEF PInv
<1>1. ASSUME NEW k \in Customers, LookupPending(k), WithStatus("PENDING") = {}
      PROVE  PendingBudget'
  <2>1. WithStatus("PENDING")' = {}
    BY <1>1 DEF LookupPending, WithStatus
  <2>2. Ready' \in SUBSET Customers /\ IsFiniteSet(Customers)
    BY PaymentsAssumption DEF Ready
  <2>3. /\ Cardinality(Ready') <= Cardinality(Customers)
        /\ IsFiniteSet(Ready')
    BY <2>2, FS_Subset
  <2>4. Cardinality(Ready') \in Nat
    BY <2>3, FS_CardinalityType
  <2> QED  BY <2>1, <2>3, <2>4, FS_EmptySet DEF PendingBudget
<1>2. ASSUME NEW k \in Customers, InsertPayment(k) PROVE PendingBudget'
  <2> DEFINE o == shop[k].order
             P == WithStatus("PENDING")
             Q == WithStatus("PENDING")'
             R == Ready
             T == Ready'
  <2>1. /\ IsFiniteSet(P) /\ IsFiniteSet(R)
        /\ Cardinality(P) \in Nat /\ Cardinality(R) \in Nat
        /\ Cardinality(Customers) \in Nat
        /\ Cardinality(P) + Cardinality(R) <= Cardinality(Customers)
    BY Sizes DEF PendingBudget
  <2>2. Q \subseteq P \cup {o}
    BY <1>2, InsertEffect DEF WithStatus
  <2>3. k \in R /\ T \subseteq R \ {k}
    BY <1>2 DEF InsertPayment, Ready, NoCheckout, PaymentsTypeOK
  <2>4. Cardinality(Q) + Cardinality(T) <= Cardinality(Customers)
    <3> HIDE DEF P, Q, R, T, o
    <3>1. /\ IsFiniteSet(P \cup {o})
          /\ Cardinality(P \cup {o}) \in {Cardinality(P), Cardinality(P) + 1}
      BY <2>1, FS_AddElement
    <3>2. IsFiniteSet(Q) /\ Cardinality(Q) <= Cardinality(P \cup {o})
      BY <2>2, <3>1, FS_Subset
    <3>3. /\ IsFiniteSet(R \ {k})
          /\ Cardinality(R \ {k}) = Cardinality(R) - 1
      BY <2>1, <2>3, FS_RemoveElement
    <3>4. IsFiniteSet(T) /\ Cardinality(T) <= Cardinality(R \ {k})
      BY <2>3, <3>3, FS_Subset
    <3>5. Cardinality(Q) \in Nat /\ Cardinality(T) \in Nat
      BY <3>2, <3>4, FS_CardinalityType
    <3> QED  BY <2>1, <3>1, <3>2, <3>3, <3>4, <3>5
  <2> QED  BY <2>4 DEF PendingBudget
<1>3. ASSUME \A k \in Customers : ~InsertPayment(k),
             \A k \in Customers : ~(LookupPending(k) /\ WithStatus("PENDING") = {})
      PROVE  PendingBudget'
  <2>1. WithStatus("PENDING")' \subseteq WithStatus("PENDING")
    BY <1>3, NobodyElsePends
  <2>2. Ready' \subseteq Ready
    <3>1. ASSUME NEW k \in Customers, CheckoutStep(k)
          PROVE  Ready' \subseteq Ready
      <4>1. CASE ReadOutstanding(k)
        BY <4>1 DEF ReadOutstanding, Ready, PaymentsTypeOK
      <4>2. CASE LookupPending(k)
        BY <1>3, <4>2 DEF LookupPending, NoCheckout, Ready, PaymentsTypeOK
      <4>3. ASSUME NEW o \in Orders, CreateOrder(k, o)
            PROVE  Ready' \subseteq Ready
        BY <4>3 DEF CreateOrder, Ready, PaymentsTypeOK
      <4>4. CASE CheckoutFails(k)
        BY <4>4 DEF CheckoutFails, NoCheckout, Ready, PaymentsTypeOK
      <4> QED  BY <1>3, <3>1, <4>1, <4>2, <4>3, <4>4 DEF CheckoutStep
    <3>2. ASSUME NEW h \in Hooks, HookStep(h) PROVE UNCHANGED shop
      BY <3>2 DEF HookStep, Deliver, ReadPayment, ApplyCaptured, ApplyFailed,
                  ProcessingThrows, HookDies
    <3>3. ASSUME NEW c \in Reconcilers, ReconcileStep(c) PROVE UNCHANGED shop
      BY <3>3 DEF ReconcileStep, ListStuck, FetchStatus, RecordVerdict,
                  ReconcileFails
    <3>4. ASSUME NEW o \in Orders, OrderStep(o) PROVE UNCHANGED shop
      BY <3>4 DEF OrderStep, AttemptFails, AttemptSucceeds, RefundCompletes,
                  MarkRefunded, Age
    <3>5. ASSUME NEW amount \in 1..MaxDesk, DeskPayment(amount)
          PROVE  UNCHANGED shop
      BY <3>5 DEF DeskPayment
    <3>6. CASE UNCHANGED shop
      BY <3>6 DEF Ready
    <3>7. CASE UNCHANGED vars
      BY <3>7 DEF vars, Ready
    <3> QED  BY <3>1, <3>2, <3>3, <3>4, <3>5, <3>6, <3>7 DEF Next
  <2> QED  BY <2>1, <2>2, BudgetShrinks
<1> QED  BY <1>1, <1>2, <1>3

\* However many checkouts of a booking race, and whatever the webhooks and the
\* cron do meanwhile, each leaves at most one order pending: the lookup that
\* was out of date costs one order, never more (createCustomerCheckout).
THEOREM PendingOrdersStayBounded == Spec => []PendingOrdersBounded
<1>1. Init => PendingBudget
  <2> SUFFICES ASSUME Init PROVE PendingBudget
    OBVIOUS
  <2>1. WithStatus("PENDING") = {} /\ Ready = {}
    BY DEF Init, WithStatus, NoPayment, Ready, NoCheckout
  <2> QED  BY <2>1, Sizes, FS_EmptySet DEF PendingBudget
<1>2. PInv /\ PendingBudget /\ [Next]_vars => PendingBudget'
  BY BudgetKept
<1>3. PendingBudget => PendingOrdersBounded
  BY Sizes DEF PendingBudget, PendingOrdersBounded
<1> QED
  BY InitPInv, NextPInv, <1>1, <1>2, <1>3, PTL DEF Spec
=============================================================================
