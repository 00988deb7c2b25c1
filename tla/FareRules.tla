----------------------------- MODULE FareRules ------------------------------
(***************************************************************************)
(* One booking's money, from the pricing rules to the bill.  The fare is    *)
(* estimated when the booking is made, final when the trip is completed;    *)
(* what is due is computed from the row at every reading, with the tax rate *)
(* the organisation has then, an invoice once, when it is issued.           *)
(*                                                                         *)
(* Amounts are hundredths.  Numbers, PDFs and concurrent generations of     *)
(* invoices are in Invoices, payments at the gateway in Payments.           *)
(***************************************************************************)
EXTENDS FiniteSets, Naturals

CONSTANTS Fares,       \* base fares of rules and fares quoted by the desk
          Extras,      \* tolls and parking together, zero among them
          TaxRates,    \* percentages an organisation may set
          MaxRules,    \* bound: pricing rules ever made
          MaxPaid,     \* bound: the sum captured
          NoAmount     \* null

ASSUME FareRulesAssumption ==
    /\ Fares \subseteq Nat \ {0} /\ Extras \subseteq Nat /\ 0 \in Extras
    /\ TaxRates \subseteq 0..100
    /\ MaxRules \in Nat /\ MaxPaid \in Nat
    /\ NoAmount \notin Nat

VARIABLES pricing,    \* the live pricing rules that apply to the trip
          rulesMade,  \* rules ever made; a rule's number orders validFrom
          taxRate,    \* Organization.gstRate
          fare,       \* the booking: status, estimate, extras, final
          edit,       \* an edit of the desk between its read and its write
          draft,      \* the bill in an invoice being generated
          bill,       \* the total of the issued invoice
          captured,   \* sum of the captured payments
          moved,      \* history: tax or row changed since the invoice's data were read
          editedLate  \* history: an edit was written when the booking was not PENDING

fareRulesVars ==
    <<pricing, rulesMade, taxRate, fare, edit, draft, bill, captured, moved, editedLate>>

Scopes == {"branch", "every branch"}
Rule == [scope : Scopes, base : Fares, number : 1..MaxRules]

-----------------------------------------------------------------------------
(* The estimate.                                                           *)

Newest(set) == {r \in set : \A s \in set : s.number <= r.number}

\* ORDER BY "branchId" DESC, "validFrom" DESC LIMIT 1: nulls come first.
RuleThatApplies ==
    LET everywhere == {r \in pricing : r.scope = "every branch"}
    IN  IF everywhere # {} THEN Newest(everywhere) ELSE Newest(pricing)

\* The part of the fare that does not depend on the route.
EstimateFare == {r.base : r \in RuleThatApplies}

\* No rule, or a failure: the booking goes on without an estimate.
Estimates(quoted) == IF quoted # NoAmount THEN {quoted} ELSE EstimateFare \cup {NoAmount}

-----------------------------------------------------------------------------
(* What is owed.                                                           *)

OrZero(amount) == IF amount = NoAmount THEN 0 ELSE amount

Less(a, b) == IF a > b THEN a - b ELSE 0

\* Mutant: the extras are left to be added by every reader.
FinalWithoutExtras(row) == OrZero(row.estimate)

\* fareFinal of a completed trip.
FinalFare(row) == OrZero(row.estimate) + row.extras

Transport(row) ==
    IF row.final # NoAmount THEN Less(row.final, row.extras) ELSE OrZero(row.estimate)

\* roundMoney of the tax on transport
Gst(row) == (Transport(row) * taxRate + 50) \div 100

\* gstBreakdown
GstTotal(row) == Transport(row) + row.extras + Gst(row)

\* getBookingOutstanding
Outstanding == Less(GstTotal(fare), captured)

\* The desk's queue of unpaid trips.
BilledTotal == IF fare.final # NoAmount THEN fare.final ELSE OrZero(fare.estimate) + fare.extras
IsUnpaid == BilledTotal > captured

-----------------------------------------------------------------------------
NoBookingYet == [status |-> "none", estimate |-> NoAmount, extras |-> 0, final |-> NoAmount]

FareRulesInit ==
    /\ pricing = {} /\ rulesMade = 0
    /\ taxRate \in TaxRates
    /\ fare = NoBookingYet
    /\ edit = {} /\ draft = NoAmount /\ bill = NoAmount
    /\ captured = 0
    /\ moved = FALSE /\ editedLate = FALSE

CreatePricingRule(scope, base) ==
    /\ rulesMade < MaxRules
    /\ rulesMade' = rulesMade + 1
    /\ pricing' = pricing \cup {[scope |-> scope, base |-> base, number |-> rulesMade + 1]}
    /\ UNCHANGED <<taxRate, fare, edit, draft, bill, captured, moved, editedLate>>

\* Deleted, or no longer valid.
DropPricingRule(r) ==
    /\ pricing' = pricing \ {r}
    /\ UNCHANGED <<rulesMade, taxRate, fare, edit, draft, bill, captured, moved, editedLate>>

UpdateOrgGst(rate) ==
    /\ rate # taxRate
    /\ taxRate' = rate
    /\ moved' = TRUE
    /\ UNCHANGED <<pricing, rulesMade, fare, edit, draft, bill, captured, editedLate>>

CreateFare(quoted, extras) ==
    /\ fare.status = "none"
    /\ \E estimate \in Estimates(quoted) :
         fare' = [status |-> "PENDING", estimate |-> estimate, extras |-> extras, final |-> NoAmount]
    /\ UNCHANGED <<pricing, rulesMade, taxRate, edit, draft, bill, captured, moved, editedLate>>

\* updatePendingBooking: the status is read here alone.
ReadFareForEdit(quoted, extras) ==
    /\ fare.status = "PENDING" /\ edit = {}
    /\ edit' = {[estimate |-> estimate, extras |-> extras] : estimate \in Estimates(quoted)}
    /\ UNCHANGED <<pricing, rulesMade, taxRate, fare, draft, bill, captured, moved, editedLate>>

WriteFareEdit ==
    /\ \E e \in edit : fare' = [fare EXCEPT !.estimate = e.estimate, !.extras = e.extras]
    /\ edit' = {}
    /\ moved' = TRUE
    /\ editedLate' = (editedLate \/ fare.status # "PENDING")
    /\ UNCHANGED <<pricing, rulesMade, taxRate, draft, bill, captured>>

StartTrip ==
    /\ fare.status = "PENDING"
    /\ fare' = [fare EXCEPT !.status = "IN_PROGRESS"]
    /\ UNCHANGED <<pricing, rulesMade, taxRate, edit, draft, bill, captured, moved, editedLate>>

CompleteTrip ==
    /\ fare.status = "IN_PROGRESS"
    /\ fare' = [fare EXCEPT !.status = "COMPLETED", !.final = FinalFare(fare)]
    /\ UNCHANGED <<pricing, rulesMade, taxRate, edit, draft, bill, captured, moved, editedLate>>

\* generateInvoice reads the booking and the rate before its transaction.
DraftInvoice ==
    /\ fare.status # "none" /\ bill = NoAmount /\ draft = NoAmount
    /\ draft' = GstTotal(fare)
    /\ moved' = FALSE
    /\ UNCHANGED <<pricing, rulesMade, taxRate, fare, edit, bill, captured, editedLate>>

IssueInvoice ==
    /\ draft # NoAmount
    /\ bill' = draft /\ draft' = NoAmount
    /\ UNCHANGED <<pricing, rulesMade, taxRate, fare, edit, captured, moved, editedLate>>

DropInvoice ==
    /\ bill # NoAmount
    /\ bill' = NoAmount
    /\ UNCHANGED <<pricing, rulesMade, taxRate, fare, edit, draft, captured, moved, editedLate>>

\* Cash for what the page says is due, or for the fare the driver knows.
TakePayment(amount) ==
    /\ fare.status # "none"
    /\ amount > 0 /\ captured + amount <= MaxPaid
    /\ captured' = captured + amount
    /\ UNCHANGED <<pricing, rulesMade, taxRate, fare, edit, draft, bill, moved, editedLate>>

FareRulesNext ==
    \/ \E scope \in Scopes, base \in Fares : CreatePricingRule(scope, base)
    \/ \E r \in pricing : DropPricingRule(r)
    \/ \E rate \in TaxRates : UpdateOrgGst(rate)
    \/ \E quoted \in Fares \cup {NoAmount}, extras \in Extras :
         CreateFare(quoted, extras) \/ ReadFareForEdit(quoted, extras)
    \/ WriteFareEdit \/ StartTrip \/ CompleteTrip
    \/ DraftInvoice \/ IssueInvoice \/ DropInvoice
    \/ \E amount \in {Outstanding, BilledTotal} : TakePayment(amount)

FareRulesSpec == FareRulesInit /\ [][FareRulesNext]_fareRulesVars

-----------------------------------------------------------------------------
\* Rules, rows and sums have their shapes.
FareRulesTypeOK ==
    /\ pricing \subseteq Rule /\ rulesMade \in 0..MaxRules
    /\ taxRate \in TaxRates
    /\ fare \in [status : {"none", "PENDING", "IN_PROGRESS", "COMPLETED"},
                 estimate : Fares \cup {NoAmount}, extras : Extras, final : Nat \cup {NoAmount}]
    /\ draft \in Nat \cup {NoAmount} /\ bill \in Nat \cup {NoAmount}
    /\ captured \in 0..MaxPaid
    /\ moved \in BOOLEAN /\ editedLate \in BOOLEAN

\* The invoice, the balance on the booking's pages and the desk's queue compute
\* what is owed each in its own way.  The invoice says what the pages say unless
\* the rate or the row was changed since; the queue lists what the pages call
\* unpaid unless there is tax, which it leaves out, or an edit that outran the trip.
BillsAgree ==
    /\ bill # NoAmount /\ ~moved => bill = GstTotal(fare)
    /\ fare.status = "COMPLETED" /\ Gst(fare) = 0 /\ ~editedLate =>
         (IsUnpaid <=> Outstanding > 0)

\* VIOLATED, claimed by fareCalculator.ts:4 and :46: a booking is priced by the
\* branch's own rule where there is one.
BranchRulesComeFirst ==
    (\E r \in pricing : r.scope = "branch") => \A r \in RuleThatApplies : r.scope = "branch"
=============================================================================
