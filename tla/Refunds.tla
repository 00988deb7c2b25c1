------------------------------ MODULE Refunds ------------------------------
(***************************************************************************)
(* The refunds of one captured gateway payment: requested by one admin,    *)
(* approved or rejected by another, paid by the gateway, settled by the    *)
(* webhook refund.processed, which also brings refunds made at the         *)
(* gateway's own dashboard.                                                *)
(*                                                                         *)
(*   approve: idle --(claim)--> called --(gateway)--> answered             *)
(*            --(store the id)--> idle;  threw --(give back)--> idle       *)
(*   reject:  idle --(check)--> rejecting --(transaction)--> idle          *)
(*   webhook: idle --(event row, payment)--> read --(refund row)-->        *)
(*            settled --(sum, commit)--> idle                              *)
(*                                                                         *)
(* The approval calls the gateway between two transactions.  The webhook's *)
(* transaction is two steps, since what it sums is what other transactions *)
(* have committed by then; the row it has written is locked and unseen     *)
(* until it commits.                                                       *)
(***************************************************************************)
EXTENDS Naturals, FiniteSets, FiniteSetsExt

CONSTANTS
    MaxRefunds,   \* bound: the rows of table Refund
    MaxRefs,      \* bound: the refunds the gateway makes
    Admins,       \* profiles of role ADMIN or SUPER_ADMIN
    Deciders,     \* handlers of approveRefund and rejectRefund
    Hooks,        \* handlers of refund.processed
    Amount,       \* the payment's amount
    None

ASSUME RefundsAssumption ==
    /\ MaxRefunds \in Nat
    /\ MaxRefs \in Nat
    /\ Amount \in Nat \ {0}
    /\ None \notin Admins \cup Nat

VARIABLES
    payment,  \* Payment.status
    refund,   \* table Refund
    gateway,  \* external: the refunds Razorpay has made
    call,     \* the deciders
    seen,     \* table WebhookEvent, the refund.processed events
    hook,     \* the webhook handlers
    lateRejections  \* history: rows rejected when no longer REQUESTED

vars == <<payment, refund, gateway, call, seen, hook, lateRejections>>

Rows == 1..MaxRefunds
Refs == 1..MaxRefs

RefundRow ==
    [status : {"ABSENT", "REQUESTED", "PROCESSING", "SUCCEEDED", "REJECTED"},
     amount : 0..Amount, requestedBy : Admins \cup {None},
     approvedBy : Admins \cup {None}, ref : Refs \cup {None}]
NoRefund ==
    [status |-> "ABSENT", amount |-> 0, requestedBy |-> None,
     approvedBy |-> None, ref |-> None]

\* What the gateway keeps of a refund; row is None for one of the dashboard.
GatewayRefund ==
    [state : {"none", "processed", "failed"}, amount : 0..Amount,
     row : Rows \cup {None}, by : Admins \cup {None}]
NoGatewayRefund ==
    [state |-> "none", amount |-> 0, row |-> None, by |-> None]

Decision ==
    [stage : {"idle", "called", "answered", "threw", "rejecting"},
     row : Rows \cup {None}, by : Admins \cup {None}, ref : Refs \cup {None}]
NoDecision == [stage |-> "idle", row |-> None, by |-> None, ref |-> None]

Settlement ==
    [stage : {"idle", "read", "settled"}, ref : Refs \cup {None},
     row : Rows \cup {None}, paymentStatus : {"CAPTURED", "REFUNDED"}]
NoSettlement ==
    [stage |-> "idle", ref |-> None, row |-> None, paymentStatus |-> "CAPTURED"]

Init ==
    /\ payment = "CAPTURED"
    /\ refund = [r \in Rows |-> NoRefund]
    /\ gateway = [g \in Refs |-> NoGatewayRefund]
    /\ call = [d \in Deciders |-> NoDecision]
    /\ seen = {}
    /\ hook = [h \in Hooks |-> NoSettlement]
    /\ lateRejections = {}

AmountOf(rows) == MapThenSumSet(LAMBDA r : refund[r].amount, rows)

OpenRefundStatuses == {"REQUESTED", "PROCESSING", "SUCCEEDED"}
OpenRefunds == {r \in Rows : refund[r].status \in OpenRefundStatuses}

\* Rows and ids that a webhook transaction has written and not committed.
LockedRows == {hook[h].row : h \in {k \in Hooks : hook[k].stage = "settled"}}
LockedRefs == {hook[h].ref : h \in {k \in Hooks : hook[k].stage = "settled"}}

\* The row the next INSERT creates.
IsNextRow(r) ==
    /\ r \notin LockedRows
    /\ refund[r].status = "ABSENT"
    /\ \A s \in Rows : s < r => refund[s].status # "ABSENT" \/ s \in LockedRows

-----------------------------------------------------------------------------
(* refund.service.ts                                                       *)

\* Wrong variant: only settled refunds count against the payment.
FitsSettled(amount, others) ==
    AmountOf({r \in others : refund[r].status = "SUCCEEDED"}) + amount <= Amount

\* A refund must fit what other refunds leave of the payment.
Fits(amount, others) == AmountOf(others) + amount <= Amount

\* requestRefund holds the payment's row lock from its first read on.
RequestRefund(admin, r, amount) ==
    /\ payment = "CAPTURED"
    /\ IsNextRow(r)
    /\ Fits(amount, OpenRefunds)
    /\ refund' = [refund EXCEPT ![r] =
         [NoRefund EXCEPT !.status = "REQUESTED", !.amount = amount,
                          !.requestedBy = admin]]
    /\ UNCHANGED <<payment, gateway, call, seen, hook, lateRejections>>

\* Wrong variant: the four-eyes rule is forgotten.
MayDecideOwn(admin, r) == refund[r].status = "REQUESTED"

\* assertStatus and assertDifferentActor
MayDecide(admin, r) ==
    /\ refund[r].status = "REQUESTED"
    /\ refund[r].requestedBy # admin

\* approveRefund's transaction: locks, the sum of the others, the claim.
ClaimRefund(d, admin, r) ==
    /\ call[d].stage = "idle"
    /\ r \notin LockedRows
    /\ MayDecide(admin, r)
    /\ Fits(refund[r].amount, OpenRefunds \ {r})
    /\ refund' = [refund EXCEPT ![r] =
         [@ EXCEPT !.status = "PROCESSING", !.approvedBy = admin]]
    /\ call' = [call EXCEPT ![d] =
         IF refund[r].ref = None
         THEN [stage |-> "called", row |-> r, by |-> admin, ref |-> None]
         ELSE NoDecision]
    /\ UNCHANGED <<payment, gateway, seen, hook, lateRejections>>

\* The id the gateway gave is stored whatever the row's status is by now; a
\* row that has the id already makes the update fail.
StoreRefundId(d) ==
    LET r == call[d].row IN
    /\ call[d].stage = "answered"
    /\ r \notin LockedRows
    /\ call[d].ref \notin LockedRefs
    /\ IF \E s \in Rows \ {r} : refund[s].ref = call[d].ref
       THEN /\ call' = [call EXCEPT ![d].stage = "threw"]
            /\ UNCHANGED refund
       ELSE /\ call' = [call EXCEPT ![d] = NoDecision]
            /\ refund' = [refund EXCEPT ![r].ref = call[d].ref]
    /\ UNCHANGED <<payment, gateway, seen, hook, lateRejections>>

\* Wrong variant: the row is handed back before the gateway has answered.
GiveBackEarly(d) ==
    LET r == call[d].row IN
    /\ call[d].stage \in {"called", "threw"}
    /\ refund' = [refund EXCEPT ![r] =
         [@ EXCEPT !.status = "REQUESTED", !.approvedBy = None]]
    /\ call' = IF call[d].stage = "threw"
               THEN [call EXCEPT ![d] = NoDecision] ELSE call
    /\ UNCHANGED <<payment, gateway, seen, hook, lateRejections>>

\* The catch of approveRefund: WHERE status = PROCESSING.
GiveBack(d) ==
    LET r == call[d].row IN
    /\ call[d].stage = "threw"
    /\ r \notin LockedRows
    /\ refund' = IF refund[r].status = "PROCESSING"
                 THEN [refund EXCEPT ![r] =
                        [@ EXCEPT !.status = "REQUESTED", !.approvedBy = None]]
                 ELSE refund
    /\ call' = [call EXCEPT ![d] = NoDecision]
    /\ UNCHANGED <<payment, gateway, seen, hook, lateRejections>>

\* rejectRefund checks outside its transaction ...
CheckRejection(d, admin, r) ==
    /\ call[d].stage = "idle"
    /\ MayDecide(admin, r)
    /\ call' = [call EXCEPT ![d] =
         [stage |-> "rejecting", row |-> r, by |-> admin, ref |-> None]]
    /\ UNCHANGED <<payment, refund, gateway, seen, hook, lateRejections>>

\* ... and updates WHERE id alone.
RejectRefund(d) ==
    LET r == call[d].row IN
    /\ call[d].stage = "rejecting"
    /\ r \notin LockedRows
    /\ refund' = [refund EXCEPT ![r] =
         [@ EXCEPT !.status = "REJECTED", !.approvedBy = call[d].by]]
    /\ lateRejections' = IF refund[r].status = "REQUESTED" THEN lateRejections
                         ELSE lateRejections \cup {r}
    /\ call' = [call EXCEPT ![d] = NoDecision]
    /\ UNCHANGED <<payment, gateway, seen, hook>>

\* The invocation is killed between two round trips.
DecisionDies(d) ==
    /\ call[d].stage # "idle"
    /\ call' = [call EXCEPT ![d] = NoDecision]
    /\ UNCHANGED <<payment, refund, gateway, seen, hook, lateRejections>>

-----------------------------------------------------------------------------
(* The gateway: it never gives back more than was paid.                    *)

GivenBack == MapThenSumSet(LAMBDA g : gateway[g].amount,
                           {g \in Refs : gateway[g].state = "processed"})

GatewayAccepts(g, amount) ==
    /\ gateway[g].state = "none"
    /\ \A older \in Refs : older < g => gateway[older].state # "none"
    /\ GivenBack + amount <= Amount

\* The answer of a refund that was made may be lost on its way.
GatewayRefunds(d, g) ==
    LET r == call[d].row IN
    /\ call[d].stage = "called"
    /\ GatewayAccepts(g, refund[r].amount)
    /\ gateway' = [gateway EXCEPT ![g] =
         [state |-> "processed", amount |-> refund[r].amount, row |-> r,
          by |-> call[d].by]]
    /\ \/ call' = [call EXCEPT ![d] = [@ EXCEPT !.stage = "answered", !.ref = g]]
       \/ call' = [call EXCEPT ![d] = [@ EXCEPT !.stage = "threw"]]
    /\ UNCHANGED <<payment, refund, seen, hook, lateRejections>>

\* The refund is accepted and fails later; of that the program hears
\* nothing, for it handles no event refund.failed.
GatewayRefundFails(d, g) ==
    LET r == call[d].row IN
    /\ call[d].stage = "called"
    /\ GatewayAccepts(g, refund[r].amount)
    /\ gateway' = [gateway EXCEPT ![g] =
         [state |-> "failed", amount |-> refund[r].amount, row |-> r,
          by |-> call[d].by]]
    /\ call' = [call EXCEPT ![d] = [@ EXCEPT !.stage = "answered", !.ref = g]]
    /\ UNCHANGED <<payment, refund, seen, hook, lateRejections>>

GatewayRefuses(d) ==
    /\ call[d].stage = "called"
    /\ call' = [call EXCEPT ![d].stage = "threw"]
    /\ UNCHANGED <<payment, refund, gateway, seen, hook, lateRejections>>

DashboardRefund(g, amount) ==
    /\ GatewayAccepts(g, amount)
    /\ gateway' = [gateway EXCEPT ![g] =
         [NoGatewayRefund EXCEPT !.state = "processed", !.amount = amount]]
    /\ UNCHANGED <<payment, refund, call, seen, hook, lateRejections>>

-----------------------------------------------------------------------------
(* withIdempotency around applyRefunded                                    *)

\* The WebhookEvent row, then the payment's status, outside the transaction.
ReceiveProcessed(h, g) ==
    /\ hook[h].stage = "idle"
    /\ gateway[g].state = "processed"
    /\ g \notin seen
    /\ seen' = seen \cup {g}
    /\ hook' = [hook EXCEPT ![h] =
         [stage |-> "read", ref |-> g, row |-> None, paymentStatus |-> payment]]
    /\ UNCHANGED <<payment, refund, gateway, call, lateRejections>>

\* The row of this refund, or the one to insert for it.
RowOfRef(g) ==
    {r \in Rows : \/ refund[r].ref = g
                  \/ IsNextRow(r) /\ \A s \in Rows : refund[s].ref # g}

SettleRefund(h, r) ==
    /\ hook[h].stage = "read"
    /\ r \in RowOfRef(hook[h].ref) \ LockedRows
    /\ hook' = [hook EXCEPT ![h] = [@ EXCEPT !.stage = "settled", !.row = r]]
    /\ UNCHANGED <<payment, refund, gateway, call, seen, lateRejections>>

\* Wrong variant: a row that exists gets the refund's amount on top of its own.
SettledRowAddsUp(h) ==
    LET r == hook[h].row IN
    [refund[r] EXCEPT !.status = "SUCCEEDED", !.ref = hook[h].ref,
                      !.amount = @ + gateway[hook[h].ref].amount]

\* What the transaction makes of the refund's row.
SettledRow(h) ==
    LET r == hook[h].row IN
    IF refund[r].status = "ABSENT"
    THEN [NoRefund EXCEPT !.status = "SUCCEEDED", !.ref = hook[h].ref,
                          !.amount = gateway[hook[h].ref].amount]
    ELSE [refund[r] EXCEPT !.status = "SUCCEEDED"]

\* Wrong variant: refunds that are only in process count as well.
CoveredByOpen(h) ==
    AmountOf(OpenRefunds \ {hook[h].row}) + SettledRow(h).amount >= Amount

\* The SUCCEEDED rows that are committed by now, and its own, cover the payment.
Covered(h) ==
    LET others == {r \in Rows \ {hook[h].row} : refund[r].status = "SUCCEEDED"}
    IN  AmountOf(others) + SettledRow(h).amount = Amount

CommitSettlement(h) ==
    /\ hook[h].stage = "settled"
    /\ refund' = [refund EXCEPT ![hook[h].row] = SettledRow(h)]
    /\ payment' = IF Covered(h) /\ hook[h].paymentStatus # "REFUNDED"
                  THEN "REFUNDED" ELSE payment
    /\ hook' = [hook EXCEPT ![h] = NoSettlement]
    /\ UNCHANGED <<gateway, call, seen, lateRejections>>

\* An exception rolls back, deletes the WebhookEvent row and is answered 500.
SettlementThrows(h) ==
    /\ hook[h].stage # "idle"
    /\ seen' = seen \ {hook[h].ref}
    /\ hook' = [hook EXCEPT ![h] = NoSettlement]
    /\ UNCHANGED <<payment, refund, gateway, call, lateRejections>>

\* A killed invocation rolls back and leaves the WebhookEvent row.
SettlementDies(h) ==
    /\ hook[h].stage # "idle"
    /\ hook' = [hook EXCEPT ![h] = NoSettlement]
    /\ UNCHANGED <<payment, refund, gateway, call, seen, lateRejections>>

-----------------------------------------------------------------------------
Decide(d) ==
    \/ \E admin \in Admins, r \in Rows : ClaimRefund(d, admin, r)
    \/ \E admin \in Admins, r \in Rows : CheckRejection(d, admin, r)
    \/ StoreRefundId(d)
    \/ GiveBack(d)
    \/ RejectRefund(d)
    \/ DecisionDies(d)
    \/ \E g \in Refs : GatewayRefunds(d, g)
    \/ \E g \in Refs : GatewayRefundFails(d, g)
    \/ GatewayRefuses(d)

Settle(h) ==
    \/ \E g \in Refs : ReceiveProcessed(h, g)
    \/ \E r \in Rows : SettleRefund(h, r)
    \/ CommitSettlement(h)
    \/ SettlementThrows(h)
    \/ SettlementDies(h)

Next ==
    \/ \E admin \in Admins, r \in Rows, amount \in 1..Amount :
         RequestRefund(admin, r, amount)
    \/ \E d \in Deciders : Decide(d)
    \/ \E g \in Refs, amount \in 1..Amount : DashboardRefund(g, amount)
    \/ \E h \in Hooks : Settle(h)

Spec == Init /\ [][Next]_vars

-----------------------------------------------------------------------------
\* The type invariant.
RefundsTypeOK ==
    /\ payment \in {"CAPTURED", "REFUNDED"}
    /\ refund \in [Rows -> RefundRow]
    /\ gateway \in [Refs -> GatewayRefund]
    /\ call \in [Deciders -> Decision]
    /\ seen \subseteq Refs
    /\ hook \in [Hooks -> Settlement]
    /\ lateRejections \subseteq Rows

\* Whatever the gateway pays for the program was approved by another admin
\* than the one who asked for it, even if rows are decided again afterwards.
FourEyes ==
    \A g \in Refs : gateway[g].row # None =>
        gateway[g].by # refund[gateway[g].row].requestedBy

\* Two approvals never talk to the gateway about one refund at a time: the
\* conditional claim, and a catch that gives back only what is PROCESSING.
OneCallPerRefund ==
    \A d, e \in Deciders :
        /\ d # e
        /\ call[d].stage \in {"called", "answered", "threw"}
        /\ call[e].stage \in {"called", "answered", "threw"}
        => call[d].row # call[e].row

\* The refunds asked for here never exceed the payment, whatever the order of
\* requests, approvals and settlements, unless a rejection has overwritten a
\* row that was no longer REQUESTED (and that settles later all the same).
OpenRefundsFitThePayment ==
    lateRejections = {} =>
        AmountOf({r \in OpenRefunds : refund[r].requestedBy # None}) <= Amount

\* A payment is marked REFUNDED only when the gateway has given all of it
\* back: no refund is counted twice, none that is merely under way.
RefundedMeansAllGivenBack == payment = "REFUNDED" => GivenBack = Amount
=============================================================================
