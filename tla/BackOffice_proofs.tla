------------------------- MODULE BackOffice_proofs --------------------------
(***************************************************************************)
(* Proofs about components of the back office, over the specification that *)
(* runs them: OfficeSpec takes one of ten components and lets it step.     *)
(***************************************************************************)
EXTENDS MCBackOffice, Invoices_proofs, FiniteSetTheorems, SequenceTheorems,
        WellFoundedInduction, TLAPS

-----------------------------------------------------------------------------
(* What is owed. *)

FareRow ==
    [status : {"none", "PENDING", "IN_PROGRESS", "COMPLETED"},
     estimate : Fares \cup {NoAmount}, extras : Extras, final : Nat \cup {NoAmount}]

FareEdit == [estimate : Fares \cup {NoAmount}, extras : Extras]

\* A bill, drafted or issued, is the fare's as long as nothing moved; a trip has
\* a final fare when it is completed, the one of its row unless an edit outran it.
FInv ==
    /\ FareRulesTypeOK
    /\ edit \subseteq FareEdit
    /\ fare.final # NoAmount <=> fare.status = "COMPLETED"
    /\ fare.status = "none" => draft = NoAmount /\ bill = NoAmount
    /\ \A amount \in {draft, bill} :
         amount # NoAmount /\ ~moved => amount = GstTotal(fare)
    /\ fare.status = "COMPLETED" /\ ~editedLate => fare.final = FinalFare(fare)

\* The money of a row is a number of hundredths.
LEMMA AmountsAreNumbers ==
    ASSUME NEW r \in FareRow, taxRate \in TaxRates
    PROVE  /\ OrZero(r.estimate) \in Nat /\ r.extras \in Nat
           /\ FinalFare(r) \in Nat /\ Transport(r) \in Nat
           /\ Gst(r) \in Nat /\ GstTotal(r) \in Nat
<1> USE FareRulesAssumption
<1>1. OrZero(r.estimate) \in Nat /\ r.extras \in Nat
  BY DEF OrZero, FareRow
<1>2. FinalFare(r) \in Nat
  BY <1>1 DEF FinalFare
<1>3. Transport(r) \in Nat
  BY <1>1 DEF Transport, Less, FareRow
<1>4. Transport(r) * taxRate \in Nat
  BY <1>3
<1>5. Gst(r) \in Nat
  <2> DEFINE n == Transport(r) * taxRate + 50
  <2>1. n \in Nat
    BY <1>4
  <2> HIDE DEF n
  <2>2. n \div 100 \in Nat
    BY <2>1
  <2> QED  BY <2>2 DEF Gst, n
<1>6. GstTotal(r) \in Nat
  BY <1>1, <1>3, <1>5 DEF GstTotal
<1> QED  BY <1>1, <1>2, <1>3, <1>5, <1>6

\* Completing a trip takes the extras in and every reader takes them out again.
LEMMA CompletionKeepsTheBill ==
    ASSUME NEW r \in FareRow, NEW done \in FareRow, taxRate \in TaxRates,
           r.final = NoAmount, done.final = FinalFare(r), done.extras = r.extras
    PROVE  Gst(done) = Gst(r) /\ GstTotal(done) = GstTotal(r)
<1> USE FareRulesAssumption
<1>1. OrZero(r.estimate) \in Nat /\ r.extras \in Nat /\ FinalFare(r) \in Nat
  BY AmountsAreNumbers
<1>2. Transport(done) = Transport(r)
  BY <1>1 DEF Transport, Less, FinalFare
<1> QED
  BY <1>2 DEF Gst, GstTotal

\* The rule that applies is a rule, so the estimate is one of the base fares.
LEMMA EstimatesAreFares ==
    ASSUME pricing \subseteq Rule, NEW quoted \in Fares \cup {NoAmount}
    PROVE  Estimates(quoted) \subseteq Fares \cup {NoAmount}
<1>1. RuleThatApplies \subseteq Rule
  BY DEF RuleThatApplies, Newest
<1> QED
  BY <1>1 DEF Estimates, EstimateFare, Rule

\* An office that has not opened owes nothing.
LEMMA FareInitEstablishes ==
    ASSUME FareRulesInit
    PROVE  FInv
<1> USE FareRulesAssumption
<1>1. fare \in FareRow /\ fare.final = NoAmount /\ fare.status = "none"
  BY DEF FareRulesInit, NoBookingYet, FareRow
<1>2. /\ pricing = {} /\ rulesMade = 0 /\ taxRate \in TaxRates
      /\ edit = {} /\ draft = NoAmount /\ bill = NoAmount
      /\ captured = 0 /\ moved = FALSE /\ editedLate = FALSE
  BY DEF FareRulesInit
<1>3. FareRulesTypeOK
  <2>1. rulesMade \in 0..MaxRules /\ captured \in 0..MaxPaid
    BY <1>2
  <2>2. moved \in BOOLEAN /\ editedLate \in BOOLEAN /\ pricing \subseteq Rule
    BY <1>2
  <2> QED
    BY <1>1, <1>2, <2>1, <2>2 DEF FareRulesTypeOK, FareRow
<1> QED
  BY <1>1, <1>2, <1>3 DEF FInv

\* The rest of the invariant after a step that leaves the row, the rate and the
\* bills alone.
LEMMA FareStandsStill ==
    ASSUME FInv, FareRulesTypeOK', UNCHANGED <<fare, taxRate, draft, bill, moved, editedLate>>,
           edit' \subseteq FareEdit
    PROVE  FInv'
<1>1. GstTotal(fare)' = GstTotal(fare) /\ FinalFare(fare)' = FinalFare(fare)
  BY DEF GstTotal, Gst, Transport, FinalFare
<1> QED
  BY <1>1 DEF FInv

\* One step per action; the row, the rate and the bills move in six of them.
LEMMA FareNextPreserves ==
    ASSUME FInv, [FareRulesNext]_fareRulesVars
    PROVE  FInv'
<1> USE FareRulesAssumption
<1>1. /\ pricing \subseteq Rule /\ rulesMade \in 0..MaxRules
      /\ taxRate \in TaxRates /\ fare \in FareRow
      /\ draft \in Nat \cup {NoAmount} /\ bill \in Nat \cup {NoAmount}
      /\ captured \in 0..MaxPaid
      /\ moved \in BOOLEAN /\ editedLate \in BOOLEAN
      /\ edit \subseteq FareEdit
  BY DEF FInv, FareRulesTypeOK, FareRow
<1>2. /\ fare.final # NoAmount <=> fare.status = "COMPLETED"
      /\ fare.status = "none" => draft = NoAmount /\ bill = NoAmount
      /\ draft # NoAmount /\ ~moved => draft = GstTotal(fare)
      /\ bill # NoAmount /\ ~moved => bill = GstTotal(fare)
      /\ fare.status = "COMPLETED" /\ ~editedLate => fare.final = FinalFare(fare)
  BY DEF FInv
<1>3. ASSUME NEW scope \in Scopes, NEW base \in Fares,
             CreatePricingRule(scope, base)
      PROVE  FInv'
  <2>1. [scope |-> scope, base |-> base, number |-> rulesMade + 1] \in Rule
        /\ rulesMade + 1 \in 0..MaxRules
    BY <1>1, <1>3 DEF CreatePricingRule, Rule
  <2>2. FareRulesTypeOK'
    BY <1>1, <1>3, <2>1 DEF CreatePricingRule, FareRulesTypeOK, FareRow
  <2> QED
    BY <1>1, <1>3, <2>2, FareStandsStill DEF CreatePricingRule
<1>4. ASSUME NEW r \in pricing, DropPricingRule(r)
      PROVE  FInv'
  <2>1. FareRulesTypeOK'
    BY <1>1, <1>4 DEF DropPricingRule, FareRulesTypeOK, FareRow
  <2> QED
    BY <1>1, <1>4, <2>1, FareStandsStill DEF DropPricingRule
<1>5. ASSUME NEW rate \in TaxRates, UpdateOrgGst(rate)
      PROVE  FInv'
  <2>1. FareRulesTypeOK'
    BY <1>1, <1>5 DEF UpdateOrgGst, FareRulesTypeOK, FareRow
  <2> QED
    BY <1>1, <1>2, <1>5, <2>1 DEF UpdateOrgGst, FInv, FinalFare
<1>6. ASSUME NEW quoted \in Fares \cup {NoAmount}, NEW extras \in Extras,
             CreateFare(quoted, extras)
      PROVE  FInv'
  <2>1. PICK estimate \in Estimates(quoted) :
          fare' = [status |-> "PENDING", estimate |-> estimate,
                   extras |-> extras, final |-> NoAmount]
    BY <1>6 DEF CreateFare
  <2>2. fare' \in FareRow /\ fare'.status = "PENDING" /\ fare'.final = NoAmount
    BY <1>1, <2>1, EstimatesAreFares DEF FareRow
  <2>3. FareRulesTypeOK'
    BY <1>1, <1>6, <2>2 DEF CreateFare, FareRulesTypeOK, FareRow
  <2> QED
    BY <1>1, <1>2, <1>6, <2>2, <2>3 DEF CreateFare, FInv
<1>7. ASSUME NEW quoted \in Fares \cup {NoAmount}, NEW extras \in Extras,
             ReadFareForEdit(quoted, extras)
      PROVE  FInv'
  <2>1. edit' \subseteq FareEdit
    BY <1>1, <1>7, EstimatesAreFares DEF ReadFareForEdit, FareEdit
  <2>2. FareRulesTypeOK'
    BY <1>1, <1>7 DEF ReadFareForEdit, FareRulesTypeOK, FareRow
  <2> QED
    BY <1>7, <2>1, <2>2, FareStandsStill DEF ReadFareForEdit
<1>8. CASE WriteFareEdit
  <2>1. PICK e \in edit :
          fare' = [fare EXCEPT !.estimate = e.estimate, !.extras = e.extras]
    BY <1>8 DEF WriteFareEdit
  <2>2. /\ fare' \in FareRow
        /\ fare'.status = fare.status /\ fare'.final = fare.final
    BY <1>1, <2>1 DEF FareRow, FareEdit
  <2>3. FareRulesTypeOK'
    BY <1>1, <1>8, <2>2 DEF WriteFareEdit, FareRulesTypeOK, FareRow
  <2>4. /\ moved' /\ draft' = draft /\ bill' = bill /\ edit' = {}
        /\ fare.status = "COMPLETED" => editedLate'
    BY <1>8 DEF WriteFareEdit
  <2> QED
    BY <1>2, <2>2, <2>3, <2>4 DEF FInv
<1>9. CASE StartTrip
  <2>1. /\ fare' \in FareRow /\ fare.status = "PENDING"
        /\ fare'.status = "IN_PROGRESS" /\ fare'.final = fare.final
        /\ fare'.estimate = fare.estimate /\ fare'.extras = fare.extras
        /\ UNCHANGED <<pricing, rulesMade, taxRate, edit, draft, bill,
                       captured, moved, editedLate>>
    BY <1>1, <1>9 DEF StartTrip, FareRow
  <2>2. FareRulesTypeOK'
    BY <1>1, <2>1 DEF FareRulesTypeOK, FareRow
  <2>3. GstTotal(fare)' = GstTotal(fare)
    BY <2>1 DEF GstTotal, Gst, Transport
  <2> QED
    BY <1>1, <1>2, <2>1, <2>2, <2>3 DEF FInv
<1>10. CASE CompleteTrip
  <2>1. FinalFare(fare) \in Nat
    BY <1>1, AmountsAreNumbers
  <2>2. /\ fare' \in FareRow /\ fare.status = "IN_PROGRESS"
        /\ fare'.status = "COMPLETED" /\ fare'.final = FinalFare(fare)
        /\ fare'.estimate = fare.estimate /\ fare'.extras = fare.extras
        /\ UNCHANGED <<pricing, rulesMade, taxRate, edit, draft, bill,
                       captured, moved, editedLate>>
    BY <1>1, <1>10, <2>1 DEF CompleteTrip, FareRow
  <2>3. FareRulesTypeOK'
    BY <1>1, <2>2 DEF FareRulesTypeOK, FareRow
  <2>4. PICK done \in FareRow : done = fare'
    BY <2>2
  <2>5. GstTotal(done) = GstTotal(fare)
    BY <1>1, <1>2, <2>2, <2>4, CompletionKeepsTheBill
  <2>6. GstTotal(fare)' = GstTotal(done) /\ FinalFare(fare)' = FinalFare(fare)
    BY <2>2, <2>4 DEF GstTotal, Gst, Transport, FinalFare
  <2> QED
    BY <1>1, <1>2, <2>1, <2>2, <2>3, <2>5, <2>6 DEF FInv
<1>11. CASE DraftInvoice \/ IssueInvoice \/ DropInvoice
  <2>1. UNCHANGED <<pricing, rulesMade, taxRate, fare, edit, captured, editedLate>>
    BY <1>11 DEF DraftInvoice, IssueInvoice, DropInvoice
  <2>2. /\ draft' \in {draft, GstTotal(fare), NoAmount}
        /\ bill' \in {bill, draft, NoAmount}
        /\ moved' \in {moved, FALSE}
        /\ GstTotal(fare) \in Nat
    BY <1>1, <1>11, AmountsAreNumbers DEF DraftInvoice, IssueInvoice,
       DropInvoice
  <2>3. FareRulesTypeOK'
    BY <1>1, <2>1, <2>2 DEF FareRulesTypeOK, FareRow
  <2>4. /\ draft' # NoAmount /\ ~moved' => draft' = GstTotal(fare)
        /\ bill' # NoAmount /\ ~moved' => bill' = GstTotal(fare)
    BY <1>2, <1>11 DEF DraftInvoice, IssueInvoice, DropInvoice
  <2>5. GstTotal(fare)' = GstTotal(fare) /\ FinalFare(fare)' = FinalFare(fare)
    BY <2>1 DEF GstTotal, Gst, Transport, FinalFare
  <2>6. fare.status = "none" => draft' = NoAmount /\ bill' = NoAmount
    BY <1>2, <1>11 DEF DraftInvoice, IssueInvoice, DropInvoice
  <2> QED
    BY <1>1, <1>2, <2>1, <2>3, <2>4, <2>5, <2>6 DEF FInv
<1>12. ASSUME NEW amount \in {Outstanding, BilledTotal}, TakePayment(amount)
       PROVE  FInv'
  <2>1. amount \in Nat
    <3>1. OrZero(fare.estimate) \in Nat /\ fare.extras \in Nat
          /\ GstTotal(fare) \in Nat
      BY <1>1, AmountsAreNumbers
    <3> QED
      BY <1>1, <3>1 DEF Outstanding, BilledTotal, Less, FareRow
  <2>2. FareRulesTypeOK'
    BY <1>1, <1>12, <2>1 DEF TakePayment, FareRulesTypeOK, FareRow
  <2> QED
    BY <1>1, <1>12, <2>2, FareStandsStill DEF TakePayment
<1>13. CASE UNCHANGED fareRulesVars
  <2>1. FareRulesTypeOK'
    BY <1>13 DEF fareRulesVars, FInv, FareRulesTypeOK
  <2> QED
    BY <1>1, <1>13, <2>1, FareStandsStill DEF fareRulesVars
<1> QED
  BY <1>3, <1>4, <1>5, <1>6, <1>7, <1>8, <1>9, <1>10, <1>11, <1>12, <1>13 DEF
     FareRulesNext

\* The three ways of computing what is owed agree whenever the row is its own.
LEMMA FInvBillsAgree ==
    ASSUME FInv
    PROVE  BillsAgree
<1> USE FareRulesAssumption
<1>1. fare \in FareRow /\ taxRate \in TaxRates /\ captured \in Nat
  BY DEF FInv, FareRulesTypeOK, FareRow
<1>2. ASSUME fare.status = "COMPLETED", Gst(fare) = 0, ~editedLate
      PROVE  IsUnpaid <=> Outstanding > 0
  <2>1. fare.final # NoAmount /\ fare.final = OrZero(fare.estimate) + fare.extras
    BY <1>2 DEF FInv, FinalFare
  <2>2. OrZero(fare.estimate) \in Nat /\ fare.extras \in Nat
    BY <1>1, AmountsAreNumbers
  <2>3. GstTotal(fare) = fare.final /\ fare.final \in Nat
    BY <1>2, <2>1, <2>2 DEF GstTotal, Transport, Less
  <2> QED
    BY <1>1, <2>1, <2>3 DEF IsUnpaid, BilledTotal, Outstanding, Less
<1> QED
  BY <1>2 DEF FInv, BillsAgree

\* Only the fares' own steps move the fares.
LEMMA OfficeStepOfFares ==
    ASSUME [OfficeNext]_officeVars
    PROVE  [FareRulesNext]_fareRulesVars
BY DEF OfficeNext, officeVars

\* The bills are the fares' as long as nothing moved.
THEOREM FaresInvariance == OfficeSpec => []FInv
<1>1. OfficeInit => FInv
  BY FareInitEstablishes DEF OfficeInit
<1>2. FInv /\ [OfficeNext]_officeVars => FInv'
  BY OfficeStepOfFares, FareNextPreserves
<1> QED
  BY <1>1, <1>2, PTL DEF OfficeSpec

\* The invoice says what the booking's pages say unless the rate or the row was
\* changed since, and the desk's queue of unpaid trips lists what the pages call
\* unpaid, tax and late edits apart.
THEOREM BillsAgreeAlways == OfficeSpec => []BillsAgree
<1>1. FInv => BillsAgree
  BY FInvBillsAgree
<1> QED  BY <1>1, FaresInvariance, PTL
-----------------------------------------------------------------------------
(* The registers. *)

\* What a clerk is at.
ClerkCall ==
    [at : {"list", "form", "sent", "checked"},
     operation : {"none", "create", "edit", "delete"},
     id : RegisterIds \cup {Nothing}, code : Codes \cup {Nothing},
     was : Codes \cup {Nothing} \cup Tombstones, open : SUBSET RegisterIds]

RegisterShapes ==
    /\ kind \in Kinds
    /\ staffing \in [Clerks -> Who]
    /\ rows \in [RegisterIds -> RegisterRow \cup {Nothing}]
    /\ clerk \in [Clerks -> ClerkCall]
    /\ since \in [Clerks -> SUBSET RegisterIds]
    /\ overtaken \subseteq RegisterIds

\* A row of a coded register has a code somebody typed or its own tombstone,
\* which only a deleted row has.
CodesFit ==
    Coded => \A id \in RegisterIds : rows[id] # Nothing =>
        /\ \/ rows[id].code \in Codes
           \/ \E code \in Codes : rows[id].code = Tombstone(code, id)
        /\ ~rows[id].gone => rows[id].code \in Codes
        /\ rows[id].gone /\ id \notin overtaken => rows[id].code \notin Codes

\* A row of another register has none.
OthersHaveNone ==
    ~Coded => \A id \in RegisterIds : rows[id] # Nothing => rows[id].code = Nothing

\* The unique index.
CodesAreUnique ==
    Coded => \A i, j \in RegisterIds :
        rows[i] # Nothing /\ rows[j] # Nothing /\ i # j => rows[i].code # rows[j].code

\* What a clerk is about to write fits the register, and the row it is about was
\* there and live when the checks passed, or somebody wrote it since.
CallFits(q, written) ==
    /\ q.at # "list" =>
         /\ q.operation \in Does.operations
         /\ q.operation = "create" => q.id = Nothing
    /\ q.open # {} => kind = "pairings"
    /\ \A id \in q.open : rows[id] # Nothing
    /\ q.at \in {"sent", "checked"} =>
         /\ Coded /\ q.operation \in {"create", "edit"} => q.code \in Codes
         /\ ~Coded => q.code = Nothing
    /\ q.at = "checked" =>
         /\ q.operation \in {"edit", "delete"} =>
              q.id \in RegisterIds /\ rows[q.id] # Nothing
         /\ q.operation = "edit" => (rows[q.id].gone => q.id \in written)
         /\ Coded /\ q.operation = "delete" => q.was \in Codes

CallsFit == \A c \in Clerks : CallFits(clerk[c], since[c])

\* f names for every open pairing a clerk who made it, each clerk once: a clerk
\* who is about to make another has seen the own one and will close it.
MadeBy(f) ==
    \A id \in RegisterIds : rows[id] # Nothing /\ ~rows[id].gone =>
        /\ f[id] \in Clerks
        /\ staffing[f[id]].tenant = rows[id].tenant
        /\ Checked(f[id]) /\ clerk[f[id]].operation = "create" => id \in clerk[f[id]].open
        /\ \A other \in RegisterIds \ {id} :
             rows[other] # Nothing /\ ~rows[other].gone => f[other] # f[id]

PairingsHaveMakers ==
    kind = "pairings" =>
        \E f \in [RegisterIds -> Clerks \cup {Nothing}] : MadeBy(f)

RInv ==
    /\ RegisterShapes
    /\ CodesFit
    /\ OthersHaveNone
    /\ CodesAreUnique
    /\ CallsFit
    /\ ChecksForeseeTheIndex
    /\ PairingsHaveMakers

\* What the services offer: the pages ask for nothing else, and whatever writes
\* a code is on a page; deletions leave something to tell them by.
LEMMA ServiceFacts ==
    ASSUME kind \in Kinds
    PROVE  /\ Does.operations \subseteq {"create", "edit", "delete"}
           /\ "delete" \in Does.operations =>
                Does.leaves \in {"tombstone", "stamp", "no row"}
           /\ Coded <=> Does.leaves = "tombstone"
           /\ Coded => /\ Does.compares \in {"all", "live"}
                       /\ kind # "pairings"
           /\ kind = "pairings" => "edit" \notin Does.operations
           /\ \A operation \in {"create", "edit", "delete"} :
                /\ <<kind, operation>> \in OnPages => operation \in Does.operations
                /\ /\ Coded /\ operation # "delete"
                   /\ operation \in Does.operations
                   => <<kind, operation>> \in OnPages
<1>1. kind \in {"vehicles", "drivers", "branches", "orgs", "bookingTypes",
                "pricingRules", "dispatchRules", "pairings", "shifts", "fuel",
                "expenses", "maintenance"}
  BY DEF Kinds, Services
<1> USE DEF Does, Coded, Services, Service, OnPages, VehicleAddPage, VehiclePage,
      DriverAddPage, DriverPage, BranchAddPage, BranchPage, OrgAddPage, OrgPage,
      BookingTypesPage, PricingPage, DispatchPage, ShiftsPage, ExpensesPage,
      VehicleService, DriverService, BranchService, OrgService,
      BookingTypeService, PricingRuleService, DispatchRuleService,
      PairingService, ShiftService, FuelService, ExpenseService,
      MaintenanceService
<1>2. CASE kind = "vehicles"  BY <1>2
<1>3. CASE kind = "drivers"  BY <1>3
<1>4. CASE kind = "branches"  BY <1>4
<1>5. CASE kind = "orgs"  BY <1>5
<1>6. CASE kind = "bookingTypes"  BY <1>6
<1>7. CASE kind = "pricingRules"  BY <1>7
<1>8. CASE kind = "dispatchRules"  BY <1>8
<1>9. CASE kind = "pairings"  BY <1>9
<1>10. CASE kind = "shifts"  BY <1>10
<1>11. CASE kind = "fuel"  BY <1>11
<1>12. CASE kind = "expenses"  BY <1>12
<1>13. CASE kind = "maintenance"  BY <1>13
<1> HIDE DEF Does, Coded, Services, OnPages
<1> QED
  BY <1>1, <1>2, <1>3, <1>4, <1>5, <1>6, <1>7, <1>8, <1>9, <1>10, <1>11, <1>12,
     <1>13

\* A step of clerk c that writes no row.
LEMMA QuietSteps ==
    ASSUME RInv, NEW c \in Clerks, NEW q \in ClerkCall,
           UNCHANGED <<kind, staffing, rows, overtaken>>,
           clerk' = [clerk EXCEPT ![c] = q],
           since' = since \/ since' = [since EXCEPT ![c] = {}],
           CallFits(q, since'[c]),
           q.at = "checked" =>
             /\ q.operation # "delete" =>
                  \A id \in HeldBy(q.code, q.id) :
                     /\ Does.compares = "live"
                     /\ ~Within(c, rows[id].tenant) \/ id \in overtaken
             /\ kind = "pairings" /\ q.operation = "create" =>
                  \A id \in RegisterIds :
                     /\ rows[id] # Nothing /\ ~rows[id].gone
                     /\ staffing[c].tenant = rows[id].tenant
                     => id \in q.open
    PROVE  RInv'
<1>1. /\ kind \in Kinds
      /\ staffing \in [Clerks -> Who]
      /\ rows \in [RegisterIds -> RegisterRow \cup {Nothing}]
      /\ clerk \in [Clerks -> ClerkCall]
      /\ since \in [Clerks -> SUBSET RegisterIds]
      /\ overtaken \subseteq RegisterIds
  BY DEF RInv, RegisterShapes
<1>2. /\ RegisterIds' = RegisterIds
      /\ Does' = Does /\ (Coded' <=> Coded)
      /\ ClerkCall' = ClerkCall
      /\ \A d, t : Within(d, t)' <=> Within(d, t)
      /\ \A code, except : HeldBy(code, except)' = HeldBy(code, except)
  BY DEF RegisterIds, Does, Coded, ClerkCall, Within, HeldBy
<1>3. /\ clerk'[c] = q
      /\ \A d \in Clerks : d # c => clerk'[d] = clerk[d] /\ since'[d] = since[d]
      /\ since' \in [Clerks -> SUBSET RegisterIds]
      /\ since'[c] \subseteq since[c]
  BY <1>1
<1>4. RegisterShapes'
  BY <1>1, <1>2, <1>3 DEF RegisterShapes
<1>5. CodesFit' /\ OthersHaveNone' /\ CodesAreUnique'
  BY <1>2 DEF RInv, CodesFit, OthersHaveNone, CodesAreUnique
<1>6. CallsFit'
  <2> SUFFICES ASSUME NEW d \in Clerks
               PROVE  CallFits(clerk[d], since[d])'
    BY DEF CallsFit
  <2>1. CASE d = c
    BY <1>2, <1>3, <2>1 DEF CallFits
  <2>2. CASE d # c
    <3>1. CallFits(clerk[d], since[d])
      BY DEF RInv, CallsFit
    <3> QED
      BY <1>2, <1>3, <2>2, <3>1 DEF CallFits
  <2> QED  BY <2>1, <2>2
<1>7. ChecksForeseeTheIndex'
  <2> SUFFICES ASSUME NEW d \in Clerks, clerk'[d].at = "checked",
                      clerk'[d].operation # "delete",
                      NEW id \in HeldBy(clerk'[d].code, clerk'[d].id)
               PROVE  \/ id \in since'[d]
                      \/ Does.compares = "live"
                         /\ (~Within(d, rows[id].tenant) \/ id \in overtaken)
    BY <1>2 DEF ChecksForeseeTheIndex, Checked
  <2>1. CASE d = c
    BY <1>3, <2>1
  <2>2. CASE d # c
    BY <1>3, <2>2 DEF RInv, ChecksForeseeTheIndex, Checked
  <2> QED  BY <2>1, <2>2
<1>8. PairingsHaveMakers'
  <2> SUFFICES ASSUME kind = "pairings"
               PROVE  \E f \in [RegisterIds -> Clerks \cup {Nothing}] : MadeBy(f)'
    BY <1>2 DEF PairingsHaveMakers
  <2>1. PICK f \in [RegisterIds -> Clerks \cup {Nothing}] : MadeBy(f)
    BY DEF RInv, PairingsHaveMakers
  <2>2. ASSUME NEW id \in RegisterIds, rows[id] # Nothing, ~rows[id].gone
        PROVE  /\ f[id] \in Clerks
               /\ staffing[f[id]].tenant = rows[id].tenant
               /\ clerk'[f[id]].at = "checked" /\ clerk'[f[id]].operation = "create" =>
                    id \in clerk'[f[id]].open
               /\ \A other \in RegisterIds \ {id} :
                    rows[other] # Nothing /\ ~rows[other].gone => f[other] # f[id]
    BY <1>3, <2>1, <2>2 DEF MadeBy, Checked
  <2>3. MadeBy(f)'
    BY <1>2, <2>2 DEF MadeBy, Checked
  <2> QED  BY <2>3
<1> QED
  BY <1>4, <1>5, <1>6, <1>7, <1>8 DEF RInv

\* Opening a page, calling an action, leaving, posting, and a refusal.
LEMMA QuietActions ==
    ASSUME RInv, NEW c \in Clerks,
           \/ \E operation \in {"create", "edit", "delete"},
                 id \in RegisterIds \cup {Nothing} :
                Open(c, operation, id) \/ Call(c, operation, id)
           \/ Close(c) \/ RefuseSave(c)
           \/ \E code \in Codes \cup {Nothing} : Post(c, code)
    PROVE  RInv'
<1>1. /\ kind \in Kinds /\ since \in [Clerks -> SUBSET RegisterIds]
      /\ clerk[c] \in ClerkCall /\ clerk \in [Clerks -> ClerkCall]
      /\ CallFits(clerk[c], since[c])
  BY DEF RInv, RegisterShapes, CallsFit
<1> DEFINE On(at, operation, id) ==
             [AtList EXCEPT !.at = at, !.operation = operation, !.id = id]
<1>2. ASSUME NEW at \in {"list", "form", "sent"},
             NEW operation \in {"none", "create", "edit", "delete"},
             NEW id \in RegisterIds \cup {Nothing}
      PROVE  /\ On(at, operation, id) \in ClerkCall
             /\ On(at, operation, id).at = at
             /\ On(at, operation, id).operation = operation
             /\ On(at, operation, id).id = id
             /\ On(at, operation, id).open = {}
             /\ On(at, operation, id).code = Nothing
  BY <1>2 DEF AtList, ClerkCall
<1>3. \A at, operation, id : At(c, at, operation, id) =>
         clerk' = [clerk EXCEPT ![c] = On(at, operation, id)]
  BY DEF At
<1> HIDE DEF On
<1>4. /\ AtList \in ClerkCall /\ AtList.at = "list" /\ AtList.open = {}
  BY DEF AtList, ClerkCall
<1>5. ASSUME NEW operation \in {"create", "edit", "delete"},
             NEW id \in RegisterIds \cup {Nothing},
             Open(c, operation, id) \/ Call(c, operation, id)
      PROVE  RInv'
  <2>1. CASE Open(c, operation, id)
    <3> DEFINE q == On("form", operation, id)
    <3>1. q \in ClerkCall /\ q.at = "form" /\ q.operation = operation /\ q.open = {}
          /\ q.id = id
      BY <1>2
    <3>2. clerk' = [clerk EXCEPT ![c] = q] /\ <<kind, operation>> \in OnPages
          /\ UNCHANGED <<kind, staffing, rows, since, overtaken>>
      BY <1>3, <2>1 DEF Open
    <3>3. operation \in Does.operations /\ (operation = "create" => id = Nothing)
      BY <1>1, <2>1, <3>2, ServiceFacts DEF Open, Names
    <3> HIDE DEF q
    <3> QED
      BY <3>1, <3>2, <3>3, QuietSteps DEF CallFits
  <2>2. CASE Call(c, operation, id)
    <3> DEFINE q == On("sent", operation, id)
    <3>1. q \in ClerkCall /\ q.at = "sent" /\ q.operation = operation /\ q.open = {}
          /\ q.id = id /\ q.code = Nothing
      BY <1>2
    <3>2. clerk' = [clerk EXCEPT ![c] = q] /\ <<kind, operation>> \notin OnPages
          /\ operation \in Does.operations
          /\ UNCHANGED <<kind, staffing, rows, since, overtaken>>
      BY <1>3, <2>2 DEF Call
    <3>3. (Coded => operation = "delete") /\ (operation = "create" => id = Nothing)
      BY <1>1, <2>2, <3>2, ServiceFacts DEF Call, Names
    <3> HIDE DEF q
    <3> QED
      BY <3>1, <3>2, <3>3, QuietSteps DEF CallFits
  <2> QED  BY <1>5, <2>1, <2>2
<1>6. CASE Close(c)
  BY <1>4, <1>6, QuietSteps DEF Close, CallFits
<1>7. CASE RefuseSave(c)
  <2> DEFINE q == IF clerk[c].operation = "delete" THEN AtList
                  ELSE On("form", clerk[c].operation, clerk[c].id)
  <2>1. /\ clerk[c].operation \in {"none", "create", "edit", "delete"}
        /\ clerk[c].id \in RegisterIds \cup {Nothing}
        /\ clerk[c].operation \in Does.operations
        /\ clerk[c].operation = "create" => clerk[c].id = Nothing
    BY <1>1, <1>7 DEF ClerkCall, CallFits, RefuseSave
  <2>2. /\ q \in ClerkCall /\ q.at \in {"list", "form"} /\ q.open = {}
        /\ q.at = "form" => q.operation = clerk[c].operation /\ q.id = clerk[c].id
    BY <1>2, <1>4, <2>1
  <2>3. clerk' = [clerk EXCEPT ![c] = q]
        /\ since' = [since EXCEPT ![c] = {}]
        /\ UNCHANGED <<kind, staffing, rows, overtaken>>
    BY <1>7, <1>3 DEF RefuseSave, Moves
  <2> HIDE DEF q
  <2> QED
    BY <2>1, <2>2, <2>3, QuietSteps DEF CallFits
<1>8. ASSUME NEW code \in Codes \cup {Nothing}, Post(c, code)
      PROVE  RInv'
  <2> DEFINE q == [clerk[c] EXCEPT !.at = "sent", !.code = code]
  <2>1. /\ q \in ClerkCall /\ q.at = "sent" /\ q.code = code
        /\ q.operation = clerk[c].operation /\ q.open = clerk[c].open
        /\ q.id = clerk[c].id
    BY <1>1 DEF ClerkCall
  <2>2. /\ clerk' = [clerk EXCEPT ![c] = q]
        /\ clerk[c].at = "form"
        /\ Coded /\ clerk[c].operation # "delete" => code \in Codes
        /\ ~Coded => code = Nothing
        /\ UNCHANGED <<kind, staffing, rows, since, overtaken>>
    BY <1>1, <1>8 DEF Post
  <2> HIDE DEF q
  <2> QED
    BY <1>1, <2>1, <2>2, QuietSteps DEF CallFits
<1> QED
  BY <1>5, <1>6, <1>7, <1>8

\* The checks: what they find free is free, tenants and old edits apart.
LEMMA ChecksPreserve ==
    ASSUME RInv, NEW c \in Clerks, Check(c)
    PROVE  RInv'
<1>1. /\ kind \in Kinds /\ since \in [Clerks -> SUBSET RegisterIds]
      /\ clerk[c] \in ClerkCall /\ clerk \in [Clerks -> ClerkCall]
      /\ rows \in [RegisterIds -> RegisterRow \cup {Nothing}]
      /\ CallFits(clerk[c], since[c])
      /\ CodesFit /\ CodesAreUnique
  BY DEF RInv, RegisterShapes, CallsFit
<1> DEFINE op == clerk[c].operation
           own == clerk[c].id
           code == clerk[c].code
           was == IF op = "create" THEN Nothing ELSE rows[own].code
           q == [clerk[c] EXCEPT !.at = "checked", !.open = OpenPairings(c), !.was = was]
<1>2. /\ clerk[c].at = "sent" /\ Allowed(c)
      /\ clerk' = [clerk EXCEPT ![c] = q]
      /\ UNCHANGED <<kind, staffing, rows, since, overtaken>>
  BY <1>1 DEF Check
<1>3. op \in Does.operations /\ op \in {"create", "edit", "delete"}
  BY <1>1, <1>2, ServiceFacts DEF CallFits
<1>4. op # "create" => own \in Seen(c)
  BY <1>2, <1>3 DEF Allowed, Live
<1>5. op # "create" => own \in RegisterIds /\ rows[own] # Nothing
  BY <1>4 DEF Seen
<1>6. was \in Codes \cup {Nothing} \cup Tombstones
  BY <1>1, <1>5 DEF RegisterRow
<1>7. OpenPairings(c) \subseteq RegisterIds
      /\ (\A id \in OpenPairings(c) : rows[id] # Nothing)
      /\ (OpenPairings(c) # {} => kind = "pairings")
  BY DEF OpenPairings, Live, Seen
<1>8. /\ q \in ClerkCall /\ q.at = "checked" /\ q.operation = op
      /\ q.id = own /\ q.code = code /\ q.was = was
      /\ q.open = OpenPairings(c)
  BY <1>1, <1>6, <1>7 DEF ClerkCall
<1> HIDE DEF q
<1>9. op = "edit" => ~rows[own].gone
  BY <1>2 DEF Allowed, Live
<1>10. Coded /\ op = "delete" => rows[own].code \in Codes
  <2> SUFFICES ASSUME Coded, op = "delete"
               PROVE  rows[own].code \in Codes
    OBVIOUS
  <2>1. Does.leaves = "tombstone"
    BY <1>1, ServiceFacts
  <2>2. own \in Live(c)
    BY <1>2, <2>1 DEF Allowed
  <2> QED
    BY <1>1, <2>2 DEF CodesFit, Live, Seen
<1>11. CallFits(q, since'[c])
  <2>1. op = "create" => own = Nothing
    BY <1>1, <1>2 DEF CallFits
  <2> QED
    BY <1>1, <1>2, <1>3, <1>5, <1>7, <1>8, <1>9, <1>10, <2>1 DEF CallFits
<1>12. ASSUME op # "delete", NEW id \in HeldBy(code, own)
       PROVE  /\ Does.compares = "live"
              /\ ~Within(c, rows[id].tenant) \/ id \in overtaken
  <2>1. /\ Coded /\ id \in RegisterIds /\ id # own
        /\ rows[id] # Nothing /\ rows[id].code = code
    BY <1>12 DEF HeldBy
  <2>2. Does.compares \in {"all", "live"} /\ Does.leaves = "tombstone"
    BY <1>1, <2>1, ServiceFacts
  <2>3. ~Taken(c, code)
    <3>1. CASE op = "create"
      BY <1>2, <3>1 DEF Allowed
    <3>2. CASE op = "edit"
      <4>1. own \in RegisterIds /\ rows[own] # Nothing
        BY <1>5, <3>2
      <4>2. rows[own].code # code
        BY <1>1, <2>1, <4>1 DEF CodesAreUnique
      <4> QED
        BY <1>2, <3>2, <4>2 DEF Allowed
    <3> QED  BY <1>3, <1>12, <3>1, <3>2
  <2>4. id \notin ComparedWith(c)
    BY <2>1, <2>3 DEF Taken
  <2>5. Does.compares = "live" /\ id \notin Live(c)
    BY <2>1, <2>2, <2>4 DEF ComparedWith
  <2>6. Within(c, rows[id].tenant) => rows[id].gone
    BY <2>1, <2>2, <2>5 DEF Live, Seen
  <2>7. code \in Codes
    BY <1>1, <1>2, <1>3, <1>12, <2>1 DEF CallFits
  <2> QED
    BY <1>1, <2>1, <2>5, <2>6, <2>7 DEF CodesFit
<1>13. ASSUME kind = "pairings", NEW id \in RegisterIds,
              rows[id] # Nothing, ~rows[id].gone,
              staffing[c].tenant = rows[id].tenant
       PROVE  id \in OpenPairings(c)
  BY <1>13 DEF OpenPairings, Live, Seen, Within
<1> QED
  BY <1>2, <1>8, <1>11, <1>12, <1>13, QuietSteps

\* A pairing as it is left when another one closes it.
Ended(i) == [rows[i] EXCEPT !.gone = TRUE]

\* Clerk c writes the row id, and closes others only when it makes a pairing.
WriteStep(c, id, new, closed, q) ==
    /\ Checked(c)
    /\ UNCHANGED <<kind, staffing>>
    /\ new \in RegisterRow
    /\ closed \subseteq RegisterIds
    /\ closed # {} => kind = "pairings"
    /\ id \notin closed
    /\ \A i \in closed : rows[i] # Nothing
    /\ rows' \in [RegisterIds -> RegisterRow \cup {Nothing}]
    /\ rows'[id] = new
    /\ \A i \in closed : rows'[i] = Ended(i)
    /\ \A i \in RegisterIds \ closed : i # id => rows'[i] = rows[i]
    /\ q \in ClerkCall
    /\ clerk' = [clerk EXCEPT ![c] = q]
    /\ q.at \in {"list", "form"} /\ q.open = {}
    /\ q.at = "form" => /\ q.operation \in Does.operations
                        /\ q.operation = "create" => q.id = Nothing
    /\ Writes(c, id)
    /\ overtaken' \subseteq RegisterIds
    /\ overtaken \subseteq overtaken'
    /\ Coded => /\ \/ new.code \in Codes
                   \/ \E code \in Codes : new.code = Tombstone(code, id)
                /\ ~new.gone => new.code \in Codes
                /\ new.gone /\ id \notin overtaken' => new.code \notin Codes
                /\ HeldBy(new.code, id) = {}
    /\ ~Coded => new.code = Nothing
    /\ kind = "pairings" =>
         \/ new.gone
         \/ /\ clerk[c].operation = "create" /\ closed = clerk[c].open
            /\ new.tenant = staffing[c].tenant

\* Such a step keeps every part of the invariant.
LEMMA WriteSteps ==
    ASSUME RInv, NEW c \in Clerks, NEW id \in RegisterIds, NEW new, NEW closed,
           NEW q, WriteStep(c, id, new, closed, q)
    PROVE  RInv'
<1> USE DEF WriteStep
<1>1. /\ kind \in Kinds
      /\ staffing \in [Clerks -> Who]
      /\ rows \in [RegisterIds -> RegisterRow \cup {Nothing}]
      /\ clerk \in [Clerks -> ClerkCall]
      /\ since \in [Clerks -> SUBSET RegisterIds]
      /\ overtaken \subseteq RegisterIds
  BY DEF RInv, RegisterShapes
<1>2. /\ RegisterIds' = RegisterIds
      /\ Does' = Does /\ (Coded' <=> Coded)
      /\ ClerkCall' = ClerkCall
      /\ \A d, t : Within(d, t)' <=> Within(d, t)
  BY DEF RegisterIds, Does, Coded, ClerkCall, Within
<1>3. new # Nothing
  BY RegistersAssumption
<1>4. /\ rows'[id] = new
      /\ \A i \in closed : i # id => rows'[i] = Ended(i)
      /\ \A i \in RegisterIds \ closed : i # id => rows'[i] = rows[i]
  OBVIOUS
<1>5. \A i \in closed : /\ Ended(i) \in RegisterRow
                        /\ Ended(i).gone
  BY <1>1 DEF RegisterRow, Ended
<1>6. /\ rows' \in [RegisterIds -> RegisterRow \cup {Nothing}]
      /\ \A i \in RegisterIds : rows[i] # Nothing => rows'[i] # Nothing
  <2>1. \A i \in RegisterIds : rows[i] # Nothing => rows'[i] # Nothing
    BY <1>3, <1>4, <1>5, RegistersAssumption
  <2> QED  BY <2>1
<1>7. /\ clerk'[c] = q
      /\ since' \in [Clerks -> SUBSET RegisterIds]
      /\ \A d \in Clerks : d # c =>
           /\ clerk'[d] = clerk[d]
           /\ clerk[d].at = "checked" => since'[d] = since[d] \cup {id}
  BY <1>1 DEF Writes, Checked
<1>8. Coded => closed = {}
  BY <1>1, ServiceFacts
<1>9. RegisterShapes'
  BY <1>1, <1>2, <1>6, <1>7 DEF RegisterShapes
<1>10. CodesFit'
  <2> SUFFICES ASSUME Coded, NEW i \in RegisterIds, rows'[i] # Nothing
               PROVE  /\ \/ rows'[i].code \in Codes
                         \/ \E code \in Codes : rows'[i].code = Tombstone(code, i)
                      /\ ~rows'[i].gone => rows'[i].code \in Codes
                      /\ rows'[i].gone /\ i \notin overtaken' =>
                           rows'[i].code \notin Codes
    BY <1>2 DEF CodesFit, Tombstone
  <2>1. CASE i = id
    <3>1. rows'[i] = new
      BY <1>4, <2>1
    <3> QED  BY <2>1, <3>1
  <2>2. CASE i # id
    <3>1. rows'[i] = rows[i]
      BY <1>4, <1>8, <2>2
    <3> QED
      BY <3>1 DEF RInv, CodesFit
  <2> QED  BY <2>1, <2>2
<1>11. OthersHaveNone'
  <2> SUFFICES ASSUME ~Coded, NEW i \in RegisterIds, rows'[i] # Nothing
               PROVE  rows'[i].code = Nothing
    BY <1>2 DEF OthersHaveNone
  <2>1. CASE i = id
    BY <1>4, <2>1
  <2>2. CASE i # id /\ i \in closed
    <3>1. rows'[i] = Ended(i) /\ rows[i] # Nothing /\ rows[i] \in RegisterRow
      BY <1>1, <1>4, <2>2
    <3>2. Ended(i).code = rows[i].code
      BY <3>1 DEF Ended, RegisterRow
    <3> QED  BY <3>1, <3>2 DEF RInv, OthersHaveNone
  <2>3. CASE i # id /\ i \notin closed
    BY <1>4, <2>3 DEF RInv, OthersHaveNone
  <2> QED  BY <2>1, <2>2, <2>3
<1>12. CodesAreUnique'
  <2> SUFFICES ASSUME Coded, NEW i \in RegisterIds, NEW j \in RegisterIds,
                      rows'[i] # Nothing, rows'[j] # Nothing, i # j
               PROVE  rows'[i].code # rows'[j].code
    BY <1>2 DEF CodesAreUnique
  <2>1. \A k \in RegisterIds : k # id => rows'[k] = rows[k]
    BY <1>4, <1>8
  <2>2. \A k \in RegisterIds : k # id /\ rows[k] # Nothing => rows[k].code # new.code
    BY DEF HeldBy
  <2> QED
    BY <1>4, <2>1, <2>2 DEF RInv, CodesAreUnique
<1>13. CallsFit'
  <2> SUFFICES ASSUME NEW d \in Clerks
               PROVE  CallFits(clerk[d], since[d])'
    BY DEF CallsFit
  <2>1. CASE d = c
    BY <1>2, <1>7, <2>1 DEF CallFits
  <2>2. CASE d # c
    <3>1. CallFits(clerk[d], since[d]) /\ clerk[d] \in ClerkCall
      BY <1>1 DEF RInv, CallsFit
    <3>2. clerk[d].at = "checked" /\ clerk[d].operation = "edit" =>
            (rows'[clerk[d].id].gone => clerk[d].id \in since'[d])
      <4> SUFFICES ASSUME clerk[d].at = "checked", clerk[d].operation = "edit",
                          clerk[d].id # id, rows'[clerk[d].id].gone
                   PROVE  clerk[d].id \in since[d]
        BY <1>7, <2>2
      <4>1. clerk[d].id \in RegisterIds /\ kind # "pairings"
        BY <1>1, <3>1, ServiceFacts DEF CallFits
      <4>2. rows'[clerk[d].id] = rows[clerk[d].id]
        BY <1>4, <4>1
      <4> QED
        BY <3>1, <4>2 DEF CallFits
    <3>3. \A i \in clerk[d].open : i \in RegisterIds
      BY <3>1 DEF ClerkCall
    <3> QED
      BY <1>2, <1>6, <1>7, <2>2, <3>1, <3>2, <3>3 DEF CallFits
  <2> QED  BY <2>1, <2>2
<1>14. ChecksForeseeTheIndex'
  <2> SUFFICES ASSUME NEW d \in Clerks, clerk'[d].at = "checked",
                      clerk'[d].operation # "delete",
                      NEW i \in HeldBy(clerk[d].code, clerk[d].id)'
               PROVE  \/ i \in since'[d]
                      \/ Does.compares = "live"
                         /\ (~Within(d, rows'[i].tenant) \/ i \in overtaken')
    BY <1>2 DEF ChecksForeseeTheIndex, Checked
  <2>1. d # c /\ clerk'[d] = clerk[d] /\ since'[d] = since[d] \cup {id}
    BY <1>7
  <2>2. /\ Coded /\ i \in RegisterIds /\ i # clerk[d].id
        /\ rows'[i] # Nothing /\ rows'[i].code = clerk[d].code
    BY <1>2, <2>1 DEF HeldBy
  <2>3. CASE i = id
    BY <2>1, <2>3
  <2>4. CASE i # id
    <3>1. rows'[i] = rows[i]
      BY <1>4, <1>8, <2>2, <2>4
    <3>2. i \in HeldBy(clerk[d].code, clerk[d].id)
      BY <2>2, <3>1 DEF HeldBy
    <3>3. \/ i \in since[d]
          \/ Does.compares = "live"
             /\ (~Within(d, rows[i].tenant) \/ i \in overtaken)
      BY <2>1, <3>2 DEF RInv, ChecksForeseeTheIndex, Checked
    <3> QED
      BY <2>1, <3>1, <3>3
  <2> QED  BY <2>3, <2>4
<1>15. PairingsHaveMakers'
  <2> SUFFICES ASSUME kind = "pairings"
               PROVE  \E f \in [RegisterIds -> Clerks \cup {Nothing}] : MadeBy(f)'
    BY <1>2 DEF PairingsHaveMakers
  <2>1. PICK f \in [RegisterIds -> Clerks \cup {Nothing}] : MadeBy(f)
    BY DEF RInv, PairingsHaveMakers
  <2>2. \A i \in RegisterIds : i # id /\ rows'[i] # Nothing /\ ~rows'[i].gone =>
          /\ i \notin closed /\ rows'[i] = rows[i]
          /\ f[i] \in Clerks /\ staffing[f[i]].tenant = rows[i].tenant
    BY <1>4, <1>5, <2>1 DEF MadeBy
  <2>3. CASE new.gone
    <3>1. ASSUME NEW i \in RegisterIds, rows'[i] # Nothing, ~rows'[i].gone
          PROVE  /\ f[i] \in Clerks
                 /\ staffing[f[i]].tenant = rows'[i].tenant
                 /\ clerk'[f[i]].at = "checked" /\ clerk'[f[i]].operation = "create" =>
                      i \in clerk'[f[i]].open
                 /\ \A other \in RegisterIds \ {i} :
                      rows'[other] # Nothing /\ ~rows'[other].gone => f[other] # f[i]
      <4>1. i # id
        BY <1>4, <2>3, <3>1
      <4>2. \A other \in RegisterIds :
              rows'[other] # Nothing /\ ~rows'[other].gone =>
                rows[other] # Nothing /\ ~rows[other].gone
        BY <1>4, <2>2, <2>3
      <4> QED
        BY <1>7, <2>1, <2>2, <3>1, <4>1, <4>2 DEF MadeBy, Checked
    <3>2. MadeBy(f)'
      BY <1>2, <3>1 DEF MadeBy, Checked
    <3> QED  BY <3>2
  <2>4. CASE /\ clerk[c].operation = "create" /\ closed = clerk[c].open
             /\ new.tenant = staffing[c].tenant
    <3> DEFINE g == [f EXCEPT ![id] = c]
    <3>1. g \in [RegisterIds -> Clerks \cup {Nothing}] /\ g[id] = c
          /\ \A i \in RegisterIds : i # id => g[i] = f[i]
      OBVIOUS
    <3> HIDE DEF g
    <3>2. \A i \in RegisterIds : i # id /\ rows'[i] # Nothing /\ ~rows'[i].gone =>
            f[i] # c
      BY <2>1, <2>2, <2>4 DEF MadeBy
    <3>3. ASSUME NEW i \in RegisterIds, rows'[i] # Nothing, ~rows'[i].gone
          PROVE  /\ g[i] \in Clerks
                 /\ staffing[g[i]].tenant = rows'[i].tenant
                 /\ clerk'[g[i]].at = "checked" /\ clerk'[g[i]].operation = "create" =>
                      i \in clerk'[g[i]].open
                 /\ \A other \in RegisterIds \ {i} :
                      rows'[other] # Nothing /\ ~rows'[other].gone => g[other] # g[i]
      <4>1. CASE i = id
        BY <1>4, <1>7, <2>4, <3>1, <3>2, <4>1
      <4>2. CASE i # id
        <5>1. /\ rows'[i] = rows[i] /\ g[i] = f[i] /\ f[i] # c /\ f[i] \in Clerks
              /\ staffing[f[i]].tenant = rows[i].tenant
          BY <2>2, <3>1, <3>2, <3>3, <4>2
        <5>2. clerk'[f[i]] = clerk[f[i]]
          BY <1>7, <5>1
        <5>3. \A other \in RegisterIds \ {i} :
                rows'[other] # Nothing /\ ~rows'[other].gone => g[other] # g[i]
          BY <2>1, <2>2, <3>1, <3>3, <4>2, <5>1 DEF MadeBy
        <5> QED
          BY <2>1, <3>3, <5>1, <5>2, <5>3 DEF MadeBy, Checked
      <4> QED  BY <4>1, <4>2
    <3>4. MadeBy(g)'
      BY <1>2, <3>3 DEF MadeBy, Checked
    <3> QED  BY <3>1, <3>4
  <2> QED  BY <2>3, <2>4
<1> QED
  BY <1>9, <1>10, <1>12, <1>13, <1>14, <1>15, <1>11 DEF RInv

\* A saved form leaves its clerk on a page, with nothing in hand.
LEMMA MovesOn ==
    ASSUME RInv, NEW c \in Clerks, Checked(c),
           NEW operation \in {"create", "edit", "delete"},
           Moves(c, LeadsTo(operation)) \/ Moves(c, "list")
    PROVE  \E q \in ClerkCall :
             /\ clerk' = [clerk EXCEPT ![c] = q]
             /\ q.at \in {"list", "form"} /\ q.open = {}
             /\ q.at = "form" => /\ q.operation \in Does.operations
                                 /\ q.operation = "create" => q.id = Nothing
<1>1. /\ kind \in Kinds /\ clerk[c] \in ClerkCall /\ clerk[c].at = "checked"
      /\ clerk[c].operation \in Does.operations
      /\ clerk[c].operation = "create" => clerk[c].id = Nothing
  BY DEF RInv, RegisterShapes, CallsFit, CallFits, Checked
<1>2. LeadsTo(operation) \in {"list", "form"}
  <2>1. kind \in {"vehicles", "drivers", "branches", "orgs", "bookingTypes",
                  "pricingRules", "dispatchRules", "pairings", "shifts", "fuel",
                  "expenses", "maintenance"}
    BY <1>1 DEF Kinds, Services
  <2> USE DEF LeadsTo, VehicleForm, BranchForm, OrgForm, DriverEditForm,
        DriverInviteForm, CreateBookingTypeForm, CreatePricingRuleForm,
        CreateDispatchRuleForm, ShiftForm, FuelLogForm, ExpenseForm,
        MaintenanceLogForm, AssignVehicleForm
  <2>2. CASE operation = "delete"
    BY <2>1, <2>2
  <2>3. CASE operation # "delete"
    BY <2>1, <2>3
  <2> QED  BY <2>2, <2>3
<1> DEFINE q == [AtList EXCEPT !.at = "form", !.operation = clerk[c].operation,
                               !.id = clerk[c].id]
<1>3. /\ q \in ClerkCall /\ q.at = "form" /\ q.open = {}
      /\ q.operation = clerk[c].operation /\ q.id = clerk[c].id
      /\ AtList \in ClerkCall /\ AtList.at = "list" /\ AtList.open = {}
  BY <1>1 DEF AtList, ClerkCall
<1>4. clerk' = [clerk EXCEPT ![c] = AtList] \/ clerk' = [clerk EXCEPT ![c] = q]
  BY <1>2 DEF Moves, At
<1> HIDE DEF q
<1> QED
  BY <1>1, <1>3, <1>4

\* A new row takes a free code and closes the pairings its clerk has seen.
LEMMA CreatesPreserve ==
    ASSUME RInv, NEW c \in Clerks, NEW id \in RegisterIds, CommitCreate(c, id)
    PROVE  RInv'
<1> USE RegistersAssumption
<1>1. /\ kind \in Kinds /\ clerk[c] \in ClerkCall
      /\ staffing \in [Clerks -> Who]
      /\ rows \in [RegisterIds -> RegisterRow \cup {Nothing}]
      /\ overtaken \subseteq RegisterIds
      /\ CallFits(clerk[c], since[c]) /\ clerk[c].at = "checked"
      /\ Checked(c) /\ clerk[c].operation = "create"
  BY DEF RInv, RegisterShapes, CallsFit, CommitCreate, Checked
<1> DEFINE new == NewRow(staffing[c].tenant, clerk[c].code)
           closed == clerk[c].open
<1>2. /\ new \in RegisterRow /\ new.tenant = staffing[c].tenant
      /\ new.code = clerk[c].code /\ ~new.gone
  BY <1>1 DEF NewRow, RegisterRow, Who, ClerkCall
<1>3. /\ closed \in SUBSET RegisterIds
      /\ closed # {} => kind = "pairings"
      /\ \A i \in closed : rows[i] # Nothing
      /\ Coded => clerk[c].code \in Codes
      /\ ~Coded => clerk[c].code = Nothing
  BY <1>1 DEF CallFits, ClerkCall
<1>4. rows[id] = Nothing
  <2>1. id = FreshId /\ id # Nothing
    BY DEF CommitCreate, RegisterIds
  <2>2. id \in Fresh
    BY <2>1 DEF FreshId
  <2> QED  BY <2>2 DEF Fresh
<1>5. id \notin closed
  BY <1>3, <1>4
<1>6. /\ rows' = [i \in RegisterIds |-> rows'[i]] /\ rows'[id] = new
      /\ \A i \in closed : rows'[i] = Ended(i)
      /\ \A i \in RegisterIds \ closed : i # id => rows'[i] = rows[i]
  BY <1>3, <1>5 DEF CommitCreate, Ended
<1>7. rows' \in [RegisterIds -> RegisterRow \cup {Nothing}]
  <2>1. \A i \in closed : Ended(i) \in RegisterRow
    BY <1>1, <1>3 DEF RegisterRow, Ended
  <2>2. \A i \in RegisterIds : rows'[i] \in RegisterRow \cup {Nothing}
    BY <1>1, <1>2, <1>6, <2>1
  <2> QED  BY <1>6, <2>2
<1>8. /\ HeldBy(new.code, id) = {} /\ Writes(c, id)
      /\ UNCHANGED <<kind, staffing, overtaken>>
  BY <1>2 DEF CommitCreate
<1>9. PICK q \in ClerkCall :
        /\ clerk' = [clerk EXCEPT ![c] = q]
        /\ q.at \in {"list", "form"} /\ q.open = {}
        /\ q.at = "form" => /\ q.operation \in Does.operations
                            /\ q.operation = "create" => q.id = Nothing
  BY <1>1, MovesOn DEF CommitCreate
<1> HIDE DEF new, closed
<1>10. closed = clerk[c].open
  BY DEF closed
<1>11. WriteStep(c, id, new, closed, q)
  BY <1>1, <1>2, <1>3, <1>5, <1>6, <1>7, <1>8, <1>9, <1>10 DEF WriteStep
<1> QED
  BY <1>1, <1>2, <1>11, WriteSteps

\* An edit written over a deletion is the one that is counted as overtaken.
LEMMA EditsPreserve ==
    ASSUME RInv, NEW c \in Clerks, CommitEdit(c)
    PROVE  RInv'
<1> USE RegistersAssumption
<1> DEFINE id == clerk[c].id
           new == [rows[id] EXCEPT !.code = clerk[c].code]
<1>1. /\ kind \in Kinds /\ clerk[c] \in ClerkCall
      /\ rows \in [RegisterIds -> RegisterRow \cup {Nothing}]
      /\ overtaken \subseteq RegisterIds
      /\ CallFits(clerk[c], since[c]) /\ clerk[c].at = "checked"
      /\ Checked(c) /\ clerk[c].operation = "edit"
  BY DEF RInv, RegisterShapes, CallsFit, CommitEdit, Checked
<1>2. /\ id \in RegisterIds /\ rows[id] # Nothing
      /\ rows[id].gone => id \in since[c]
      /\ Coded => clerk[c].code \in Codes
      /\ ~Coded => clerk[c].code = Nothing
      /\ kind # "pairings"
  BY <1>1, ServiceFacts DEF CallFits
<1>3. /\ new \in RegisterRow /\ new.code = clerk[c].code /\ new.gone = rows[id].gone
  BY <1>1, <1>2 DEF RegisterRow, ClerkCall
<1>4. /\ rows' = [rows EXCEPT ![id] = new]
      /\ overtaken' = IF id \in since[c] THEN overtaken \cup {id} ELSE overtaken
      /\ HeldBy(new.code, id) = {} /\ Writes(c, id)
      /\ UNCHANGED <<kind, staffing>>
  BY <1>3 DEF CommitEdit
<1>5. /\ overtaken' \in SUBSET RegisterIds /\ overtaken \subseteq overtaken'
      /\ new.gone => id \in overtaken'
  BY <1>1, <1>2, <1>3, <1>4
<1>6. PICK q \in ClerkCall :
        /\ clerk' = [clerk EXCEPT ![c] = q]
        /\ q.at \in {"list", "form"} /\ q.open = {}
        /\ q.at = "form" => /\ q.operation \in Does.operations
                            /\ q.operation = "create" => q.id = Nothing
  BY <1>1, MovesOn DEF CommitEdit
<1> DEFINE closed == {}
<1>7. /\ closed \in SUBSET RegisterIds /\ id \notin closed
      /\ rows' \in [RegisterIds -> RegisterRow \cup {Nothing}] /\ rows'[id] = new
      /\ \A i \in RegisterIds \ closed : i # id => rows'[i] = rows[i]
      /\ \A i \in closed : /\ rows[i] # Nothing
                           /\ rows'[i] = Ended(i)
      /\ closed = {}
  BY <1>1, <1>2, <1>3, <1>4
<1> HIDE DEF new, closed
<1>8. WriteStep(c, id, new, closed, q)
  BY <1>1, <1>2, <1>3, <1>4, <1>5, <1>6, <1>7 DEF WriteStep
<1> QED
  BY <1>1, <1>2, <1>8, WriteSteps

\* A tombstone is nobody else's code: it ends in the row's id.
LEMMA DeletionsPreserve ==
    ASSUME RInv, NEW c \in Clerks, CommitDelete(c)
    PROVE  RInv'
<1> USE RegistersAssumption
<1> DEFINE id == clerk[c].id
           new == Deleted(id, clerk[c].was)
<1>1. /\ kind \in Kinds /\ clerk[c] \in ClerkCall
      /\ rows \in [RegisterIds -> RegisterRow \cup {Nothing}]
      /\ overtaken \subseteq RegisterIds
      /\ CallFits(clerk[c], since[c]) /\ clerk[c].at = "checked"
      /\ Checked(c) /\ clerk[c].operation = "delete"
  BY DEF RInv, RegisterShapes, CallsFit, CommitDelete, Checked
<1>2. /\ id \in RegisterIds /\ rows[id] # Nothing /\ rows[id] \in RegisterRow
      /\ Coded => clerk[c].was \in Codes
      /\ Does.leaves \in {"tombstone", "stamp", "no row"}
      /\ Coded <=> Does.leaves = "tombstone"
  BY <1>1, ServiceFacts DEF CallFits
<1>3. \A code \in Codes : /\ Tombstone(code, id) \notin Codes
                          /\ Tombstone(code, id) \in Tombstones
  <2>1. id \in AllIds
    BY <1>1, <1>2 DEF AllIds, RegisterIds
  <2> QED  BY <2>1 DEF Tombstones
<1>4. /\ new \in RegisterRow /\ new.gone
      /\ Coded => new.code = Tombstone(clerk[c].was, id)
      /\ ~Coded => new.code = Nothing
  <2>1. CASE Coded
    BY <1>2, <1>3, <2>1 DEF Deleted, RegisterRow
  <2>2. CASE ~Coded
    BY <1>2, <2>2 DEF Deleted, RegisterRow, RInv, OthersHaveNone
  <2> QED  BY <2>1, <2>2
<1>5. Coded => HeldBy(new.code, id) = {}
  <2> SUFFICES ASSUME Coded, NEW i \in RegisterIds, i # id, rows[i] # Nothing
               PROVE  rows[i].code # Tombstone(clerk[c].was, id)
    BY <1>4 DEF HeldBy
  <2>1. CASE rows[i].code \in Codes
    BY <1>2, <1>3, <2>1
  <2>2. CASE \E code \in Codes : rows[i].code = Tombstone(code, i)
    BY <2>2 DEF Tombstone
  <2> QED
    BY <2>1, <2>2 DEF RInv, CodesFit
<1>6. /\ rows' = [rows EXCEPT ![id] = new]
      /\ overtaken' = overtaken /\ Writes(c, id)
      /\ UNCHANGED <<kind, staffing>>
  BY DEF CommitDelete
<1>7. PICK q \in ClerkCall :
        /\ clerk' = [clerk EXCEPT ![c] = q]
        /\ q.at \in {"list", "form"} /\ q.open = {}
        /\ q.at = "form" => /\ q.operation \in Does.operations
                            /\ q.operation = "create" => q.id = Nothing
  BY <1>1, MovesOn DEF CommitDelete
<1> DEFINE closed == {}
<1>8. /\ closed \in SUBSET RegisterIds /\ id \notin closed
      /\ rows' \in [RegisterIds -> RegisterRow \cup {Nothing}] /\ rows'[id] = new
      /\ \A i \in RegisterIds \ closed : i # id => rows'[i] = rows[i]
      /\ \A i \in closed : /\ rows[i] # Nothing
                           /\ rows'[i] = Ended(i)
      /\ closed = {}
  BY <1>1, <1>2, <1>4, <1>6
<1>9. Coded => /\ \E code \in Codes : new.code = Tombstone(code, id)
               /\ new.code \notin Codes
  BY <1>2, <1>3, <1>4
<1> HIDE DEF new, closed
<1>10. WriteStep(c, id, new, closed, q)
  BY <1>1, <1>2, <1>4, <1>5, <1>6, <1>7, <1>8, <1>9 DEF WriteStep
<1> QED
  BY <1>1, <1>2, <1>10, WriteSteps

\* An empty register.
LEMMA RegistersInitEstablishes ==
    ASSUME RegistersInit
    PROVE  RInv
<1> USE RegistersAssumption
<1>1. /\ kind \in Kinds /\ staffing \in [Clerks -> Who]
      /\ rows = [id \in RegisterIds |-> Nothing]
      /\ \A id \in RegisterIds : rows[id] = Nothing
      /\ \A c \in Clerks : clerk[c] = AtList
      /\ clerk = [c \in Clerks |-> AtList]
      /\ since = [c \in Clerks |-> {}] /\ overtaken = {}
  BY DEF RegistersInit
<1>2. AtList \in ClerkCall /\ AtList.at = "list" /\ AtList.open = {}
  BY DEF AtList, ClerkCall
<1>3. RegisterShapes
  BY <1>1, <1>2 DEF RegisterShapes
<1>4. CodesFit /\ OthersHaveNone /\ CodesAreUnique
  BY <1>1 DEF CodesFit, OthersHaveNone, CodesAreUnique
<1>5. CallsFit /\ ChecksForeseeTheIndex
  BY <1>1, <1>2 DEF CallsFit, CallFits, ChecksForeseeTheIndex, Checked
<1>6. PairingsHaveMakers
  <2>1. rows \in [RegisterIds -> Clerks \cup {Nothing}] /\ MadeBy(rows)
    BY <1>1 DEF MadeBy
  <2> QED  BY <2>1 DEF PairingsHaveMakers
<1> QED
  BY <1>3, <1>4, <1>5, <1>6 DEF RInv

\* One lemma per action above, and a stutter.
LEMMA RegistersNextPreserves ==
    ASSUME RInv, [RegistersNext]_registersVars
    PROVE  RInv'
<1>1. CASE UNCHANGED registersVars
  BY <1>1 DEF registersVars, RInv, RegisterShapes, RegisterIds, ClerkCall,
     CodesFit, OthersHaveNone, Coded, Does, CodesAreUnique, CallsFit, CallFits,
     ChecksForeseeTheIndex, Checked, HeldBy, Within, PairingsHaveMakers, MadeBy
<1>2. CASE RegistersNext
  BY <1>2, QuietActions, ChecksPreserve, CreatesPreserve, EditsPreserve,
     DeletionsPreserve DEF RegistersNext
<1> QED  BY <1>1, <1>2

\* Makers are within the tenant of what they made, and each made one: the open
\* pairings of a tenant fit the clerks who can see it.
LEMMA MakersBoundPairings ==
    ASSUME RInv
    PROVE  PairingsAreFew
<1> SUFFICES ASSUME kind = "pairings", NEW t \in Tenants \cup {Nothing}
             PROVE  Cardinality({id \in RegisterIds : rows[id] # Nothing
                                    /\ rows[id].tenant = t /\ ~rows[id].gone})
                      <= Cardinality({c \in Clerks : Within(c, t)})
  BY DEF PairingsAreFew
<1> DEFINE O == {id \in RegisterIds : rows[id] # Nothing
                   /\ rows[id].tenant = t /\ ~rows[id].gone}
           W == {c \in Clerks : Within(c, t)}
<1>1. PICK f \in [RegisterIds -> Clerks \cup {Nothing}] : MadeBy(f)
  BY DEF RInv, PairingsHaveMakers
<1>2. IsFiniteSet(O)
  <2>1. RoomIn[kind] \in Nat
    BY RegistersAssumption DEF RInv, RegisterShapes
  <2>2. IsFiniteSet(RegisterIds)
    BY <2>1, FS_Interval DEF RegisterIds
  <2> QED  BY <2>2, FS_Subset
<1>3. IsFiniteSet(W)
  BY RegistersAssumption, FS_Subset
<1> DEFINE g == [id \in O |-> f[id]]
<1>4. g \in [O -> W]
  BY <1>1 DEF MadeBy, Within
<1>5. \A i, j \in O : i # j => g[i] # g[j]
  BY <1>1 DEF MadeBy
<1>6. Cardinality(O) \in Nat /\ Cardinality(W) \in Nat
  BY <1>2, <1>3, FS_CardinalityType
<1> HIDE DEF O, W, g
<1>7. ~(Cardinality(W) < Cardinality(O))
  BY <1>2, <1>3, <1>4, <1>5, FS_PigeonHole
<1>8. Cardinality(O) <= Cardinality(W)
  BY <1>6, <1>7
<1> QED  BY <1>8 DEF O, W

\* Only the registers' own steps move the registers.
LEMMA OfficeStepOfRegisters ==
    ASSUME [OfficeNext]_officeVars
    PROVE  [RegistersNext]_registersVars
BY DEF OfficeNext, officeVars

\* Codes, calls and pairings fit one another in every state.
THEOREM RegistersInvariance == OfficeSpec => []RInv
<1>1. OfficeInit => RInv
  BY RegistersInitEstablishes DEF OfficeInit
<1>2. RInv /\ [OfficeNext]_officeVars => RInv'
  BY OfficeStepOfRegisters, RegistersNextPreserves
<1> QED
  BY <1>1, <1>2, PTL DEF OfficeSpec

\* What the invariant says of every row and clerk is more than their types.
LEMMA RInvTypes == ASSUME RInv PROVE RegistersTypeOK
<1>1. \A id \in RegisterIds : rows[id] # Nothing =>
        /\ rows[id] \in RegisterRow
        /\ \/ rows[id].code \in Codes \cup {Nothing}
           \/ \E code \in Codes : rows[id].code = Tombstone(code, id)
  BY DEF RInv, RegisterShapes, CodesFit, OthersHaveNone
<1> QED
  BY <1>1 DEF RInv, RegisterShapes, RegistersTypeOK, RegisterRow, ClerkCall

\* However saves, deletions and pairings of any number of clerks overlap: a
\* deleted row gives its code back, checks that passed foresee the unique index
\* up to what was written since, and a driver has at most a pairing per clerk.
THEOREM RegistersTidy == OfficeSpec => []RegistersAreTidy
<1>1. RInv => DeletedRowsFreeCodes
  BY DEF RInv, CodesFit, DeletedRowsFreeCodes
<1>2. RInv => ChecksForeseeTheIndex
  BY DEF RInv
<1>3. RInv => RegistersAreTidy
  BY <1>1, <1>2, MakersBoundPairings DEF RegistersAreTidy
<1> QED  BY <1>3, RegistersInvariance, PTL

-----------------------------------------------------------------------------
(* The limiter. *)

\* The first requests of windows: a window apart, and as many requests as one
\* lets through have one among them.
FirstOnes(O) ==
    /\ O \subseteq 1..Len(passed)
    /\ \A o, p \in O : o < p => passed[o] + WindowMs <= passed[p]
    /\ \A i \in 1..Len(passed) :
         i + MaxPerKey <= Len(passed) + 1 => \E o \in O : i <= o /\ o < i + MaxPerKey

\* The request that opened the bucket.
Opener == Len(passed) + 1 - bucket.count

OpenedLast(O) ==
    /\ Opener \in O /\ \A p \in O : p <= Opener
    /\ passed[Opener] + WindowMs = bucket.resetAt

Windows(O) ==
    /\ FirstOnes(O)
    /\ bucket # NoBucket => OpenedLast(O)
    /\ bucket = NoBucket => \A o \in O : passed[o] + WindowMs <= now

LimInv ==
    /\ RateLimitTypeOK
    /\ \A i, j \in 1..Len(passed) : i <= j => passed[i] <= passed[j]
    /\ \E O \in SUBSET (1..Len(passed)) : Windows(O)

\* No window has begun, and nothing was let through.
LEMMA LimiterInitEstablishes == RateLimitInit => LimInv
<1> SUFFICES ASSUME RateLimitInit PROVE LimInv
  OBVIOUS
<1>1. now = 0 /\ bucket = NoBucket /\ passed = <<>> /\ Len(passed) = 0
  BY DEF RateLimitInit
<1>2. RateLimitTypeOK
  BY <1>1, RateLimitAssumption DEF RateLimitTypeOK
<1>3. Windows({})
  BY <1>1 DEF Windows, FirstOnes
<1> QED  BY <1>1, <1>2, <1>3 DEF LimInv

\* A request let through comes last; the others stay where they were.
LEMMA OneMore ==
    ASSUME LimInv, LetThrough, now' = now
    PROVE  /\ Len(passed') = Len(passed) + 1 /\ Len(passed) \in Nat
           /\ passed' \in Seq(0..now')
           /\ \A i \in 1..Len(passed) : passed'[i] = passed[i] /\ passed[i] \in 0..now
           /\ passed'[Len(passed) + 1] = now
           /\ \A i, j \in 1..Len(passed') : i <= j => passed'[i] <= passed'[j]
<1>1. passed \in Seq(0..now) /\ now \in Nat /\ passed' = Append(passed, now)
  BY RateLimitAssumption DEF LimInv, RateLimitTypeOK, LetThrough
<1>2. /\ Len(passed') = Len(passed) + 1 /\ Len(passed) \in Nat
      /\ passed' \in Seq(0..now')
      /\ \A i \in 1..Len(passed) : passed'[i] = passed[i] /\ passed[i] \in 0..now
      /\ passed'[Len(passed) + 1] = now
  BY <1>1
<1>3. ASSUME NEW i \in 1..Len(passed'), NEW j \in 1..Len(passed'), i <= j
      PROVE  passed'[i] <= passed'[j]
  <2>1. CASE j = Len(passed) + 1
    <3>1. passed'[i] \in 0..now
      BY <1>1, <1>2, <2>1
    <3> QED  BY <3>1, <2>1, <1>2
  <2>2. CASE j # Len(passed) + 1
    <3>1. i \in 1..Len(passed) /\ j \in 1..Len(passed)
      BY <1>2, <1>3, <2>2
    <3> QED  BY <3>1, <1>2, <1>3 DEF LimInv
  <2> QED  BY <2>1, <2>2
<1> QED  BY <1>2, <1>3

\* When a bucket is over, so are the windows.
LEMMA OverIsOver ==
    ASSUME LimInv, NEW O \in SUBSET (1..Len(passed)), Windows(O),
           bucket # NoBucket, bucket.resetAt <= now
    PROVE  \A o \in O : passed[o] + WindowMs <= now
<1> USE RateLimitAssumption
<1> SUFFICES ASSUME NEW o \in O PROVE passed[o] + WindowMs <= now
  OBVIOUS
<1>1. passed[o] \in Nat /\ passed[Opener] \in Nat /\ bucket.resetAt \in Nat /\ now \in Nat
  <2>1. /\ passed \in Seq(0..now) /\ now \in Nat /\ bucket \in Bucket
        /\ \A i \in 1..Len(passed) : passed[i] \in 0..now
    BY DEF LimInv, RateLimitTypeOK
  <2>2. Opener \in 1..Len(passed) /\ o \in 1..Len(passed)
    BY DEF Windows, OpenedLast
  <2> HIDE DEF Opener
  <2> QED  BY <2>1, <2>2 DEF Bucket
<1>2. passed[Opener] + WindowMs = bucket.resetAt /\ Opener \in O /\ o <= Opener
  BY DEF Windows, OpenedLast
<1>3. CASE o = Opener
  BY <1>1, <1>2, <1>3
<1>4. CASE o # Opener
  <2>1. o \in 1..Len(passed) /\ Opener \in 1..Len(passed)
    BY <1>2
  <2>2. o < Opener
    BY <1>2, <1>4, <2>1
  <2>3. passed[o] + WindowMs <= passed[Opener]
    BY <1>2, <2>2 DEF Windows, FirstOnes
  <2> QED  BY <1>1, <1>2, <2>3
<1> QED  BY <1>3, <1>4

\* A request opens a window or is one more of the last; nothing else counts.
LEMMA LimiterNextPreserves ==
    ASSUME LimInv, [RateLimitNext]_rateLimitVars
    PROVE  LimInv'
<1> USE RateLimitAssumption
<1>0. /\ now \in 0..Horizon /\ now \in Nat /\ passed \in Seq(0..now) /\ Len(passed) \in Nat
      /\ \A i \in 1..Len(passed) : passed[i] \in 0..now
      /\ bucket # NoBucket =>
           bucket \in Bucket /\ bucket.count \in 1..MaxPerKey /\ bucket.resetAt <= now + WindowMs
  BY DEF LimInv, RateLimitTypeOK
<1>1. PICK O \in SUBSET (1..Len(passed)) : Windows(O)
  BY DEF LimInv
<1>2. CASE OpenWindow
  <2>1. /\ now' = now /\ LetThrough /\ Over
        /\ bucket' = [count |-> 1, resetAt |-> now + WindowMs]
    BY <1>2 DEF OpenWindow
  <2>2. bucket' \in Bucket /\ bucket' # NoBucket /\ bucket'.count = 1 /\ bucket'.resetAt = now + WindowMs
    BY <2>1, <1>0 DEF Bucket
  <2>3. RateLimitTypeOK'
    BY <2>1, <2>2, <1>0, OneMore DEF RateLimitTypeOK
  <2>4. \A o \in O : passed[o] + WindowMs <= now
    <3>1. CASE bucket = NoBucket
      BY <3>1, <1>1 DEF Windows
    <3>2. CASE bucket # NoBucket
      <4>1. bucket.resetAt <= now
        BY <3>2, <2>1 DEF Over
      <4> QED  BY <4>1, <3>2, <1>1, OverIsOver
    <3> QED  BY <3>1, <3>2
  <2>50. PICK n : n = Len(passed) + 1
    OBVIOUS
  <2>52. PICK P : P = O \cup {n}
    OBVIOUS
  <2>51. /\ n \in 1..n /\ 1..Len(passed) \subseteq 1..n
         /\ \A o \in O : o \in 1..Len(passed) /\ o < n
    BY <1>0, <2>50
  <2>5. n = Len(passed') /\ passed'[n] = now /\ \A i \in 1..Len(passed) : passed'[i] = passed[i]
    BY <2>1, <2>50, OneMore
  <2>6. FirstOnes(P)'
    <3>1. P \subseteq 1..Len(passed')
      <4> QED  BY <2>5, <2>51, <2>52
    <3>2. ASSUME NEW o \in P, NEW p \in P, o < p PROVE passed'[o] + WindowMs <= passed'[p]
      <4>1. o \in O /\ (p \in O \/ p = n)
        BY <3>2, <2>51, <2>52
      <4>2. CASE p = n
        BY <4>1, <4>2, <2>4, <2>5
      <4>3. CASE p \in O
        BY <4>1, <4>3, <2>5, <1>1, <3>2 DEF Windows, FirstOnes
      <4> QED  BY <4>1, <4>2, <4>3
    <3>3. ASSUME NEW i \in 1..Len(passed'), i + MaxPerKey <= Len(passed') + 1
          PROVE  \E o \in P : i <= o /\ o < i + MaxPerKey
      <4>1. CASE i + MaxPerKey = Len(passed') + 1
        <5>1. i <= n /\ n < i + MaxPerKey
          BY <4>1, <2>5, <2>51
        <5> QED  BY <5>1, <2>52
      <4>2. CASE i + MaxPerKey # Len(passed') + 1
        <5>1. i \in 1..Len(passed) /\ i + MaxPerKey <= Len(passed) + 1
          BY <4>2, <3>3, <2>5, <2>50, <1>0
        <5> QED  BY <5>1, <1>1, <2>52 DEF Windows, FirstOnes
      <4> QED  BY <4>1, <4>2
    <3> QED  BY <3>1, <3>2, <3>3 DEF FirstOnes
  <2>7. OpenedLast(P)'
    <3>1. Opener' = n
      BY <2>2, <2>5, <2>51 DEF Opener
    <3>2. n \in P /\ \A p \in P : p <= n
      BY <2>51, <2>52
    <3> QED  BY <3>1, <3>2, <2>2, <2>5 DEF OpenedLast
  <2>8. Windows(P)'
    BY <2>6, <2>7, <2>2 DEF Windows
  <2>9. P \in SUBSET (1..Len(passed'))
    BY <2>6 DEF FirstOnes
  <2> QED  BY <2>1, <2>3, <2>8, <2>9, OneMore DEF LimInv
<1>3. CASE CountInWindow
  <2>1. /\ now' = now /\ LetThrough /\ bucket # NoBucket /\ bucket.count < MaxPerKey
        /\ bucket' = [bucket EXCEPT !.count = @ + 1]
    BY <1>3 DEF CountInWindow, Over
  <2>2. /\ bucket' \in Bucket /\ bucket' # NoBucket
        /\ bucket'.count = bucket.count + 1 /\ bucket'.resetAt = bucket.resetAt
        /\ bucket.count \in Nat /\ bucket.count > 0
    BY <2>1, <1>0 DEF Bucket
  <2>3. RateLimitTypeOK'
    BY <2>1, <2>2, <1>0, OneMore DEF RateLimitTypeOK
  <2>4. /\ Len(passed') = Len(passed) + 1
        /\ \A i \in 1..Len(passed) : passed'[i] = passed[i]
    BY <2>1, OneMore
  <2>5. Opener' = Opener /\ Opener \in O /\ OpenedLast(O)
    <3>1. OpenedLast(O)
      BY <2>1, <1>1 DEF Windows
    <3>2. Opener' = Opener
      <4>1. ASSUME NEW x \in Nat, NEW y \in Nat PROVE x + 1 + 1 - (y + 1) = x + 1 - y
        OBVIOUS
      <4> QED  BY <2>2, <2>4, <1>0, <4>1 DEF Opener
    <3> QED  BY <3>1, <3>2 DEF OpenedLast
  <2>6. FirstOnes(O)'
    <3>1. O \subseteq 1..Len(passed')
      BY <2>4, <1>0
    <3>2. \A o, p \in O : o < p => passed'[o] + WindowMs <= passed'[p]
      BY <2>4, <1>1 DEF Windows, FirstOnes
    <3>3. ASSUME NEW i \in 1..Len(passed'), i + MaxPerKey <= Len(passed') + 1
          PROVE  \E o \in O : i <= o /\ o < i + MaxPerKey
      <4>1. CASE i + MaxPerKey = Len(passed') + 1
        <5>1. i <= Opener /\ Opener < i + MaxPerKey
          BY <4>1, <2>1, <2>2, <2>4, <1>0 DEF Opener
        <5> QED  BY <5>1, <2>5
      <4>2. CASE i + MaxPerKey # Len(passed') + 1
        <5>1. i \in 1..Len(passed) /\ i + MaxPerKey <= Len(passed) + 1
          BY <4>2, <3>3, <2>4, <1>0
        <5> QED  BY <5>1, <1>1 DEF Windows, FirstOnes
      <4> QED  BY <4>1, <4>2
    <3> QED  BY <3>1, <3>2, <3>3 DEF FirstOnes
  <2>7. OpenedLast(O)'
    BY <2>2, <2>4, <2>5 DEF OpenedLast
  <2>8. Windows(O)'
    BY <2>6, <2>7, <2>2 DEF Windows
  <2>9. O \in SUBSET (1..Len(passed'))
    BY <2>4, <1>0
  <2> QED  BY <2>1, <2>3, <2>8, <2>9, OneMore DEF LimInv
<1>4. CASE Prune
  <2>1. now' = now /\ passed' = passed /\ bucket' = NoBucket /\ bucket # NoBucket /\ bucket.resetAt <= now
    BY <1>4 DEF Prune, Over
  <2>2. \A o \in O : passed[o] + WindowMs <= now
    BY <2>1, <1>1, OverIsOver
  <2>3. Windows(O)'
    BY <2>1, <2>2, <1>1 DEF Windows, FirstOnes
  <2> QED  BY <2>1, <2>3, <1>0 DEF LimInv, RateLimitTypeOK
<1>5. CASE Tick
  <2>1. now' = now + 1 /\ now < Horizon /\ passed' = passed /\ bucket' = bucket
    BY <1>5 DEF Tick
  <2>2. \A o \in O : passed[o] \in 0..now
    BY <1>0
  <2>3. Windows(O)'
    BY <2>1, <2>2, <1>0, <1>1 DEF Windows, FirstOnes, OpenedLast, Opener
  <2>4. passed' \in Seq(0..now')
    BY <2>1, <1>0
  <2>5. RateLimitTypeOK'
    BY <2>1, <2>4, <1>0 DEF RateLimitTypeOK, Bucket
  <2> QED  BY <2>1, <2>3, <2>5 DEF LimInv
<1>6. CASE UNCHANGED rateLimitVars
  BY <1>6 DEF rateLimitVars, LimInv, RateLimitTypeOK, Windows, FirstOnes, OpenedLast, Opener
<1> QED  BY <1>2, <1>3, <1>4, <1>5, <1>6 DEF RateLimitNext

\* Twice the limit of requests, one after the other, take a window at least.
LEMMA TwiceTheLimitTakesAWindow ==
    ASSUME LimInv, NEW i \in 1..Len(passed), i + 2 * MaxPerKey <= Len(passed) + 1
    PROVE  passed[i] + WindowMs <= passed[i + 2 * MaxPerKey - 1]
<1> USE RateLimitAssumption
<1>0. /\ Len(passed) \in Nat /\ MaxPerKey \in Nat \ {0} /\ now \in Nat
      /\ \A k \in 1..Len(passed) : passed[k] \in Nat
  BY DEF LimInv, RateLimitTypeOK
<1>1. PICK O \in SUBSET (1..Len(passed)) : Windows(O)
  BY DEF LimInv
<1>2. PICK o \in O : i <= o /\ o < i + MaxPerKey
  BY <1>0, <1>1 DEF Windows, FirstOnes
<1>3. o + 1 \in 1..Len(passed) /\ o + 1 + MaxPerKey <= Len(passed) + 1
  BY <1>0, <1>2
<1>4. PICK p \in O : o + 1 <= p /\ p < o + 1 + MaxPerKey
  BY <1>1, <1>3 DEF Windows, FirstOnes
<1>5. passed[o] + WindowMs <= passed[p]
  BY <1>1, <1>4, <1>0 DEF Windows, FirstOnes
<1>6. passed[i] <= passed[o]
  BY <1>2 DEF LimInv
<1>7. i + 2 * MaxPerKey - 1 \in 1..Len(passed) /\ p <= i + 2 * MaxPerKey - 1
  BY <1>0, <1>2, <1>4
<1>8. passed[p] <= passed[i + 2 * MaxPerKey - 1]
  BY <1>7 DEF LimInv
<1>9. /\ passed[i] \in Nat /\ passed[o] \in Nat /\ passed[p] \in Nat
      /\ passed[i + 2 * MaxPerKey - 1] \in Nat
  BY <1>0, <1>7
<1> QED  BY <1>5, <1>6, <1>8, <1>9

\* A set of numbers that has one has a smallest.
LEMMA SmallestNumber ==
    ASSUME NEW S \in SUBSET Nat, S # {}
    PROVE  \E m \in S : \A n \in S : m <= n
<1>1. PICK m \in S : \A n \in S : <<n, m>> \notin OpToRel(<, Nat)
  BY NatLessThanWellFounded, WFMin
<1>2. \A n \in S : ~(n < m)
  BY <1>1 DEF OpToRel
<1> QED  BY <1>2

\* A span with twice the limit would hold two beginnings of windows.
LEMMA LimInvBurstsAreBounded ==
    ASSUME LimInv
    PROVE  BurstsAreBounded
<1> USE RateLimitAssumption
<1> SUFFICES ASSUME NEW t \in 0..Horizon
             PROVE  Cardinality({i \in DOMAIN passed : passed[i] \in t..(t + WindowMs - 1)})
                      <= 2 * MaxPerKey - 1
  BY DEF BurstsAreBounded
<1> DEFINE S == {i \in DOMAIN passed : passed[i] \in t..(t + WindowMs - 1)}
<1>1. Len(passed) \in Nat /\ DOMAIN passed = 1..Len(passed) /\ S \subseteq Nat
      /\ \A k \in 1..Len(passed) : passed[k] \in Nat
  BY DEF LimInv, RateLimitTypeOK
<1>2. CASE S = {}
  BY <1>2, FS_EmptySet
<1>3. CASE S # {}
  <2>1. PICK m \in S : \A n \in S : m <= n
    BY <1>1, <1>3, SmallestNumber
  <2>2. m \in 1..Len(passed) /\ passed[m] \in t..(t + WindowMs - 1)
    BY <1>1
  <2>3. ASSUME NEW n \in S, m + 2 * MaxPerKey - 1 <= n PROVE FALSE
    <3>1. n \in 1..Len(passed) /\ passed[n] \in t..(t + WindowMs - 1)
      BY <1>1
    <3>2. m + 2 * MaxPerKey <= Len(passed) + 1 /\ m + 2 * MaxPerKey - 1 \in 1..Len(passed)
      BY <2>2, <2>3, <3>1, <1>1
    <3>3. passed[m] + WindowMs <= passed[m + 2 * MaxPerKey - 1]
      BY <2>2, <3>2, TwiceTheLimitTakesAWindow
    <3>4. passed[m + 2 * MaxPerKey - 1] <= passed[n]
      BY <2>3, <3>1, <3>2 DEF LimInv
    <3>5. passed[m + 2 * MaxPerKey - 1] \in Nat
      BY <1>1, <3>2
    <3> QED  BY <2>2, <3>1, <3>3, <3>4, <3>5
  <2> HIDE DEF S
  <2>4. S \subseteq m..(m + 2 * MaxPerKey - 2)
    BY <1>1, <2>1, <2>2, <2>3
  <2>5. /\ IsFiniteSet(m..(m + 2 * MaxPerKey - 2))
        /\ Cardinality(m..(m + 2 * MaxPerKey - 2)) = 2 * MaxPerKey - 1
    <3>1. m \in Int /\ m + 2 * MaxPerKey - 2 \in Int /\ m <= m + 2 * MaxPerKey - 2
      BY <2>2
    <3>2. m + 2 * MaxPerKey - 2 - m + 1 = 2 * MaxPerKey - 1
      BY <2>2
    <3> HIDE DEF S
    <3> QED  BY <3>1, <3>2, FS_Interval
  <2> QED  BY <2>4, <2>5, FS_Subset DEF S
<1> QED  BY <1>2, <1>3

-----------------------------------------------------------------------------
(* The drivers' API. *)

\* A check-out that has read a row will find one.
ReadsHaveRows ==
    \A w \in ApiWorkers : Serves(w, "read") =>
        /\ serving[w].status \in {"PRESENT", "HALF_DAY"}
        /\ record[serving[w].request.driver] # Never

DayInv == DriverApiTypeOK /\ AttendanceAgrees /\ ReadsHaveRows

Asks(w, k) == serving[w] # Never /\ k \in KeyOf(serving[w].request)

\* Before its answer is lost, k takes effect at w only by a request that has
\* been looked up, or one that will be where no answer is kept.
MayTakeEffect(w, k) ==
    \/ Asks(w, k) /\ serving[w].step \in {"missed", "read"}
    \/ k \notin entries[placement[w]] /\ ~(Asks(w, k) /\ serving[w].step = "done")

Able(k) == {w \in ApiWorkers : MayTakeEffect(w, k)}

\* Effects so far and effects to come are at most one a worker.
Budgeted(k) ==
    IF k \in lost THEN effects[k] = 0
    ELSE effects[k] + Cardinality(Able(k)) <= Cardinality(ApiWorkers)

AInv == DayInv /\ \A k \in IdempotencyKeys : Budgeted(k)

\* The keys of a request.
LEMMA KeysOfRequests ==
    ASSUME NEW r \in Requests
    PROVE  /\ KeyOf(r) \subseteq IdempotencyKeys
           /\ r.header = Never => KeyOf(r) = {}
           /\ r.header # Never => KeyOf(r) = {MakeIdempotencyKey(r)}
           /\ r.driver \in Drivers /\ r.hour \in Hours /\ r.hour # Never
<1>1. r.header # Never => MakeIdempotencyKey(r) \in IdempotencyKeys
  BY DEF Requests, MakeIdempotencyKey, IdempotencyKeys
<1>2. r.driver \in Drivers /\ r.hour \in Hours /\ r.hour # Never
  BY DriverApiAssumption DEF Requests
<1> QED  BY <1>1, <1>2 DEF KeyOf

\* A worker goes one step on with its request.
LEMMA GoesOn ==
    ASSUME DayInv, NEW w \in ApiWorkers, serving[w] # Never,
           NEW step \in {"admitted", "missed", "read", "done"}, Steps(w, step)
    PROVE  /\ serving[w] \in Serving /\ serving[w].request \in Requests
           /\ serving' \in [ApiWorkers -> Serving \cup {Never}]
           /\ serving'[w] = [serving[w] EXCEPT !.step = step]
           /\ serving'[w] # Never /\ serving'[w].step = step
           /\ serving'[w].request = serving[w].request
           /\ serving'[w].status = serving[w].status
           /\ \A v \in ApiWorkers \ {w} : serving'[v] = serving[v]
<1>1. serving \in [ApiWorkers -> Serving \cup {Never}]
  BY DEF DayInv, DriverApiTypeOK
<1>2. serving[w] \in Serving /\ serving[w].request \in Requests
  BY <1>1 DEF Serving
<1>3. serving' = [serving EXCEPT ![w] = [@ EXCEPT !.step = step]]
  BY DEF Steps
<1>4. [serving[w] EXCEPT !.step = step] \in Serving
  BY <1>2 DEF Serving
<1>5. serving'[w] = [serving[w] EXCEPT !.step = step]
  BY <1>1, <1>3
<1> QED  BY <1>1, <1>2, <1>3, <1>4, <1>5, DriverApiAssumption DEF Serving

\* Or is free.
LEMMA IsFree ==
    ASSUME DayInv, NEW w \in ApiWorkers, Answers(w)
    PROVE  /\ serving' \in [ApiWorkers -> Serving \cup {Never}]
           /\ serving'[w] = Never
           /\ \A v \in ApiWorkers \ {w} : serving'[v] = serving[v]
BY DEF DayInv, DriverApiTypeOK, Answers

-----------------------------------------------------------------------------
\* The day's rows.
LEMMA LosesKeys ==
    ASSUME DriverApiTypeOK, NEW keys \in SUBSET IdempotencyKeys, Lose(keys)
    PROVE  /\ lost' \subseteq IdempotencyKeys /\ effects' \in [IdempotencyKeys -> Nat]
           /\ \A k \in IdempotencyKeys :
                IF k \in keys THEN k \in lost' /\ effects'[k] = 0
                ELSE (k \in lost' <=> k \in lost) /\ effects'[k] = effects[k]
BY DEF DriverApiTypeOK, Lose

\* An effect counts for its own key, as long as no answer of it was lost.
LEMMA CountsEffect ==
    ASSUME DriverApiTypeOK, NEW r \in Requests, TookEffect(r)
    PROVE  /\ lost' = lost /\ effects' \in [IdempotencyKeys -> Nat]
           /\ \A k \in IdempotencyKeys :
                effects'[k] = IF k \in KeyOf(r) /\ k \notin lost THEN effects[k] + 1 ELSE effects[k]
<1>1. effects \in [IdempotencyKeys -> Nat] /\ lost' = lost
  BY DEF DriverApiTypeOK, TookEffect
<1>2. CASE Counts(r)
  <2>1. KeyOf(r) = {MakeIdempotencyKey(r)} /\ MakeIdempotencyKey(r) \in IdempotencyKeys
        /\ MakeIdempotencyKey(r) \notin lost
    BY <1>2, KeysOfRequests DEF Counts
  <2>2. effects' = [effects EXCEPT ![MakeIdempotencyKey(r)] = @ + 1]
    BY <1>2 DEF TookEffect
  <2> QED  BY <1>1, <2>1, <2>2
<1>3. CASE ~Counts(r)
  <2>1. \A k \in KeyOf(r) : k \in lost
    BY <1>3, KeysOfRequests DEF Counts
  <2> QED  BY <1>1, <1>3, <2>1 DEF TookEffect
<1> QED  BY <1>2, <1>3

\* What is written into a row.
LEMMA RowsWritten ==
    ASSUME DayInv, NEW r \in Requests
    PROVE  /\ UpsertCheckIn(r.driver, r.hour) =>
                /\ record' \in [Drivers -> AttendanceRow \cup {Never}]
                /\ AttendanceAgrees'
                /\ \A d \in Drivers : record[d] # Never => record'[d] # Never
           /\ \A status \in {"PRESENT", "HALF_DAY"} :
                record[r.driver] # Never /\ UpdateCheckOut(r.driver, r.hour, status) =>
                  /\ record' \in [Drivers -> AttendanceRow \cup {Never}]
                  /\ AttendanceAgrees'
                  /\ \A d \in Drivers : record[d] # Never => record'[d] # Never
<1>1. record \in [Drivers -> AttendanceRow \cup {Never}]
  BY DEF DayInv, DriverApiTypeOK
<1>2. r.driver \in Drivers /\ r.hour \in Hours /\ r.hour # Never
  BY KeysOfRequests
<1>3. ASSUME UpsertCheckIn(r.driver, r.hour)
      PROVE  /\ record' \in [Drivers -> AttendanceRow \cup {Never}]
             /\ AttendanceAgrees'
             /\ \A d \in Drivers : record[d] # Never => record'[d] # Never
  <2>1. PICK out \in Hour : record' = [record EXCEPT ![r.driver] = Attended(r.hour, out, "PRESENT")]
    <3>1. record[r.driver] # Never => record[r.driver].checkOut \in Hour
      BY <1>1, <1>2 DEF AttendanceRow
    <3> QED  BY <1>1, <1>2, <1>3, <3>1 DEF UpsertCheckIn, Hour
  <2>2. Attended(r.hour, out, "PRESENT") \in AttendanceRow
    BY <1>2 DEF Attended, AttendanceRow, Hour
  <2>3. Attended(r.hour, out, "PRESENT") # Never
    BY <2>2, DriverApiAssumption
  <2>4. \A d \in Drivers : record'[d] = IF d = r.driver THEN Attended(r.hour, out, "PRESENT") ELSE record[d]
    BY <1>1, <1>2, <2>1
  <2>5. AttendanceAgrees'
    BY <1>2, <2>4 DEF DayInv, AttendanceAgrees, Attended
  <2> QED  BY <1>1, <1>2, <2>1, <2>2, <2>3, <2>4, <2>5
<1>4. ASSUME NEW status \in {"PRESENT", "HALF_DAY"},
             record[r.driver] # Never, UpdateCheckOut(r.driver, r.hour, status)
      PROVE  /\ record' \in [Drivers -> AttendanceRow \cup {Never}]
             /\ AttendanceAgrees'
             /\ \A d \in Drivers : record[d] # Never => record'[d] # Never
  <2>1. PICK row : row = [record[r.driver] EXCEPT !.checkOut = r.hour, !.status = status]
    OBVIOUS
  <2>2. row \in AttendanceRow /\ row.checkOut = r.hour /\ row.status = status
    BY <1>1, <1>2, <1>4, <2>1 DEF AttendanceRow, Hour
  <2>3. row # Never
    BY <2>2, DriverApiAssumption
  <2>4. record' = [record EXCEPT ![r.driver] = row]
    BY <1>1, <1>2, <1>4, <2>1 DEF UpdateCheckOut
  <2>5. \A d \in Drivers : record'[d] = IF d = r.driver THEN row ELSE record[d]
    BY <1>1, <1>2, <2>4
  <2>6. AttendanceAgrees'
    BY <1>2, <2>2, <2>5 DEF DayInv, AttendanceAgrees
  <2> QED  BY <1>1, <1>2, <2>2, <2>3, <2>4, <2>5, <2>6
<1> QED  BY <1>3, <1>4

\* The rest of the day's invariant when rows only come or are written.
DayStep ==
    /\ record' \in [Drivers -> AttendanceRow \cup {Never}]
    /\ AttendanceAgrees'
    /\ \A d \in Drivers : record[d] # Never => record'[d] # Never
    /\ serving' \in [ApiWorkers -> Serving \cup {Never}]
    /\ placement' = placement
    /\ entries' \in [Stores -> SUBSET IdempotencyKeys]
    /\ effects' \in [IdempotencyKeys -> Nat] /\ lost' \subseteq IdempotencyKeys
    /\ \A w \in ApiWorkers : Serves(w, "read")' =>
         \/ serving'[w] = serving[w]
         \/ /\ serving'[w].status \in {"PRESENT", "HALF_DAY"}
            /\ record[serving'[w].request.driver] # Never

\* A step that writes rows as the services do keeps the days' story.
LEMMA DaySteps ==
    ASSUME DayInv, DayStep
    PROVE  DayInv'
<1>1. DriverApiTypeOK'
  BY DEF DayInv, DriverApiTypeOK, DayStep
<1>2. ASSUME NEW w \in ApiWorkers, Serves(w, "read")'
      PROVE  /\ serving'[w].status \in {"PRESENT", "HALF_DAY"}
             /\ record'[serving'[w].request.driver] # Never
  <2>1. serving'[w] \in Serving /\ serving'[w].request.driver \in Drivers
    BY <1>1, <1>2 DEF DriverApiTypeOK, Serves, Serving, Requests
  <2>2. CASE serving'[w] = serving[w]
    BY <1>2, <2>1, <2>2 DEF DayInv, ReadsHaveRows, Serves, DayStep
  <2>3. CASE serving'[w] # serving[w]
    BY <1>2, <2>1, <2>3 DEF DayStep
  <2> QED  BY <2>2, <2>3
<1> QED  BY <1>1, <1>2 DEF DayInv, ReadsHaveRows, DayStep

\* Nothing of the rows and the counts moves.
LEMMA Standing ==
    ASSUME DayInv
    PROVE  /\ UNCHANGED record =>
                /\ record' \in [Drivers -> AttendanceRow \cup {Never}]
                /\ AttendanceAgrees'
                /\ \A d \in Drivers : record[d] # Never => record'[d] # Never
           /\ UNCHANGED entries => entries' \in [Stores -> SUBSET IdempotencyKeys]
           /\ UNCHANGED keyHistory =>
                /\ effects' \in [IdempotencyKeys -> Nat] /\ lost' \subseteq IdempotencyKeys
                /\ effects' = effects /\ lost' = lost
BY DEF DayInv, DriverApiTypeOK, AttendanceAgrees, keyHistory

-----------------------------------------------------------------------------
\* The counts.
LEMMA FewerAble ==
    ASSUME AInv, NEW k \in IdempotencyKeys,
           effects'[k] = effects[k], k \in lost' <=> k \in lost,
           k \notin lost => \A w \in ApiWorkers : MayTakeEffect(w, k)' => MayTakeEffect(w, k)
    PROVE  Budgeted(k)'
<1>1. CASE k \in lost
  BY <1>1 DEF AInv, Budgeted
<1>2. CASE k \notin lost
  <2>1. Able(k)' \subseteq Able(k) /\ Able(k) \subseteq ApiWorkers
    BY <1>2 DEF Able
  <2>2. /\ IsFiniteSet(ApiWorkers) /\ IsFiniteSet(Able(k)) /\ IsFiniteSet(Able(k)')
        /\ Cardinality(Able(k)') <= Cardinality(Able(k))
    BY <2>1, DriverApiAssumption, FS_Subset
  <2>3. /\ Cardinality(Able(k)) \in Nat /\ Cardinality(Able(k)') \in Nat
        /\ Cardinality(ApiWorkers) \in Nat /\ effects[k] \in Nat
    BY <2>2, FS_CardinalityType DEF AInv, DayInv, DriverApiTypeOK
  <2>4. effects[k] + Cardinality(Able(k)) <= Cardinality(ApiWorkers)
    BY <1>2 DEF AInv, Budgeted
  <2>5. effects'[k] + Cardinality(Able(k)') <= Cardinality(ApiWorkers)
    BY <2>2, <2>3, <2>4
  <2> QED  BY <1>2, <2>5 DEF Budgeted
<1> QED  BY <1>1, <1>2

\* One worker takes effect and is not able to again.
LEMMA OneLess ==
    ASSUME AInv, NEW k \in IdempotencyKeys, NEW w \in ApiWorkers,
           effects'[k] = effects[k] + 1, lost' = lost, k \notin lost,
           MayTakeEffect(w, k), ~MayTakeEffect(w, k)',
           \A v \in ApiWorkers : MayTakeEffect(v, k)' => MayTakeEffect(v, k)
    PROVE  Budgeted(k)'
<1>1. /\ Able(k)' \subseteq Able(k) \ {w} /\ Able(k) \subseteq ApiWorkers
      /\ w \in Able(k)
  BY DEF Able
<1>2. IsFiniteSet(ApiWorkers) /\ IsFiniteSet(Able(k))
  BY <1>1, DriverApiAssumption, FS_Subset
<1>3. IsFiniteSet(Able(k) \ {w}) /\ Cardinality(Able(k) \ {w}) = Cardinality(Able(k)) - 1
  BY <1>1, <1>2, FS_RemoveElement
<1>4. IsFiniteSet(Able(k)') /\ Cardinality(Able(k)') <= Cardinality(Able(k) \ {w})
  BY <1>1, <1>3, FS_Subset
<1>5. /\ Cardinality(Able(k)) \in Nat /\ Cardinality(Able(k)') \in Nat
      /\ Cardinality(ApiWorkers) \in Nat /\ effects[k] \in Nat
  BY <1>2, <1>4, FS_CardinalityType DEF AInv, DayInv, DriverApiTypeOK
<1>6. effects[k] + Cardinality(Able(k)) <= Cardinality(ApiWorkers)
  BY DEF AInv, Budgeted
<1>7. effects'[k] + Cardinality(Able(k)') <= Cardinality(ApiWorkers)
  BY <1>3, <1>4, <1>5, <1>6
<1> QED  BY <1>7 DEF Budgeted

\* Only w moves, and no answer goes.
OnlyMoves(w) ==
    /\ \A v \in ApiWorkers \ {w} : serving'[v] = serving[v]
    /\ placement' = placement
    /\ \A s \in Stores : entries[s] \subseteq entries'[s]

\* What a worker may still do is its own affair: entries are only added.
LEMMA TheOthersStay ==
    ASSUME AInv, NEW w \in ApiWorkers, OnlyMoves(w), NEW k,
           MayTakeEffect(w, k)' => MayTakeEffect(w, k)
    PROVE  \A v \in ApiWorkers : MayTakeEffect(v, k)' => MayTakeEffect(v, k)
<1> SUFFICES ASSUME NEW v \in ApiWorkers, v # w, MayTakeEffect(v, k)'
             PROVE  MayTakeEffect(v, k)
  OBVIOUS
<1>1. serving'[v] = serving[v] /\ placement'[v] = placement[v] /\ placement[v] \in Stores
  BY DEF OnlyMoves, AInv, DayInv, DriverApiTypeOK
<1>2. entries[placement[v]] \subseteq entries'[placement[v]]
  BY <1>1 DEF OnlyMoves
<1> QED  BY <1>1, <1>2 DEF MayTakeEffect, Asks

\* A key of which an answer is lost takes no more effect.
LEMMA LostIsBudgeted ==
    ASSUME NEW k, k \in lost', effects'[k] = 0
    PROVE  Budgeted(k)'
BY DEF Budgeted

\* One worker moves, able to no more than before but for the keys it loses.
LEMMA MovesWithoutEffect ==
    ASSUME AInv, NEW w \in ApiWorkers, OnlyMoves(w),
           NEW keys \in SUBSET IdempotencyKeys, Lose(keys) \/ (keys = {} /\ UNCHANGED keyHistory),
           \A k \in IdempotencyKeys \ keys : MayTakeEffect(w, k)' => MayTakeEffect(w, k)
    PROVE  \A k \in IdempotencyKeys : Budgeted(k)'
<1> SUFFICES ASSUME NEW k \in IdempotencyKeys PROVE Budgeted(k)'
  OBVIOUS
<1>1. IF k \in keys THEN k \in lost' /\ effects'[k] = 0
      ELSE (k \in lost' <=> k \in lost) /\ effects'[k] = effects[k]
  BY LosesKeys DEF AInv, DayInv, keyHistory
<1>2. CASE k \in keys
  BY <1>1, <1>2, LostIsBudgeted
<1>3. CASE k \notin keys
  <2>1. \A v \in ApiWorkers : MayTakeEffect(v, k)' => MayTakeEffect(v, k)
    BY <1>3, TheOthersStay
  <2> QED  BY <1>1, <1>3, <2>1, FewerAble
<1> QED  BY <1>2, <1>3

\* Or loses none.
LEMMA MovesQuietly ==
    ASSUME AInv, NEW w \in ApiWorkers, OnlyMoves(w), UNCHANGED keyHistory,
           \A k \in IdempotencyKeys : MayTakeEffect(w, k)' => MayTakeEffect(w, k)
    PROVE  \A k \in IdempotencyKeys : Budgeted(k)'
<1>1. PICK keys \in SUBSET IdempotencyKeys : keys = {}
  OBVIOUS
<1>2. \A k \in IdempotencyKeys \ keys : MayTakeEffect(w, k)' => MayTakeEffect(w, k)
  OBVIOUS
<1> QED  BY <1>1, <1>2, MovesWithoutEffect

\* A request takes effect.
LEMMA MovesWithEffect ==
    ASSUME AInv, NEW w \in ApiWorkers, serving[w] # Never,
           serving[w].step \in {"missed", "read"}, Steps(w, "done"),
           TookEffect(serving[w].request), UNCHANGED <<placement, entries>>
    PROVE  \A k \in IdempotencyKeys : Budgeted(k)'
<1> SUFFICES ASSUME NEW k \in IdempotencyKeys PROVE Budgeted(k)'
  OBVIOUS
<1>1. /\ serving[w].request \in Requests
      /\ serving'[w] # Never /\ serving'[w].step = "done"
      /\ serving'[w].request = serving[w].request
      /\ \A v \in ApiWorkers \ {w} : serving'[v] = serving[v]
  BY GoesOn DEF AInv
<1>2. OnlyMoves(w)
  BY <1>1 DEF OnlyMoves
<1>3. lost' = lost
      /\ effects'[k] = IF k \in KeyOf(serving[w].request) /\ k \notin lost
                       THEN effects[k] + 1 ELSE effects[k]
  BY <1>1, CountsEffect DEF AInv, DayInv
<1>4. MayTakeEffect(w, k)' => MayTakeEffect(w, k)
  BY <1>1 DEF MayTakeEffect, Asks
<1>5. \A v \in ApiWorkers : MayTakeEffect(v, k)' => MayTakeEffect(v, k)
  BY <1>2, <1>4, TheOthersStay
<1>6. CASE k \in KeyOf(serving[w].request) /\ k \notin lost
  <2>1. MayTakeEffect(w, k) /\ ~MayTakeEffect(w, k)'
    BY <1>1, <1>6 DEF MayTakeEffect, Asks
  <2> QED  BY <1>3, <1>5, <1>6, <2>1, OneLess
<1>7. CASE ~(k \in KeyOf(serving[w].request) /\ k \notin lost)
  BY <1>3, <1>5, <1>7, FewerAble
<1> QED  BY <1>6, <1>7

\* Nobody is served, and nothing took effect.
LEMMA DriverApiInitEstablishes == DriverApiInit => AInv
<1> SUFFICES ASSUME DriverApiInit PROVE AInv
  OBVIOUS
<1>1. DriverApiTypeOK
  BY DEF DriverApiInit, DriverApiTypeOK, Stores
<1>2. DayInv
  BY <1>1 DEF DayInv, AttendanceAgrees, ReadsHaveRows, Serves, DriverApiInit
<1>3. ASSUME NEW k \in IdempotencyKeys PROVE Budgeted(k)
  <2>1. k \notin lost /\ effects[k] = 0
    BY DEF DriverApiInit
  <2>2. /\ IsFiniteSet(Able(k)) /\ IsFiniteSet(ApiWorkers)
        /\ Cardinality(Able(k)) <= Cardinality(ApiWorkers)
    BY DriverApiAssumption, FS_Subset DEF Able
  <2> QED  BY <2>1, <2>2, FS_CardinalityType DEF Budgeted
<1> QED  BY <1>2, <1>3 DEF AInv

\* The steps of one request.
LEMMA ServedPreserves ==
    ASSUME AInv, NEW w \in ApiWorkers, Served(w)
    PROVE  AInv'
<1> USE DEF AInv
<1>0. serving[w] # Never => serving[w] \in Serving /\ serving[w].request \in Requests
  BY DEF DayInv, DriverApiTypeOK, Serving
<1>1. CASE \E r \in Requests : Receive(w, r)
  <2>1. PICK r \in Requests : Receive(w, r)
    BY <1>1
  <2>2. PICK new : new = [request |-> r, step |-> "admitted", status |-> Never]
    OBVIOUS
  <2>3. new \in Serving /\ new # Never /\ new.step = "admitted"
    BY <2>2, DriverApiAssumption DEF Serving
  <2>4. /\ serving' \in [ApiWorkers -> Serving \cup {Never}]
        /\ serving'[w] = new /\ serving[w] = Never
        /\ \A v \in ApiWorkers \ {w} : serving'[v] = serving[v]
        /\ UNCHANGED <<record, placement, entries, keyHistory>>
    BY <2>1, <2>2, <2>3 DEF Receive, DayInv, DriverApiTypeOK
  <2>5. DayStep
    BY <2>3, <2>4, Standing DEF DayStep, Serves
  <2>6. OnlyMoves(w)
    BY <2>4 DEF OnlyMoves
  <2>7. \A k \in IdempotencyKeys : MayTakeEffect(w, k)' => MayTakeEffect(w, k)
    BY <2>3, <2>4 DEF MayTakeEffect, Asks
  <2>8. \A k \in IdempotencyKeys : Budgeted(k)'
    BY <2>4, <2>6, <2>7, MovesQuietly
  <2> QED  BY <2>5, <2>8, DaySteps
<1>2. CASE Replay(w)
  <2>1. /\ serving[w] # Never /\ serving[w].step = "admitted" /\ Answers(w)
        /\ UNCHANGED <<record, placement, entries, keyHistory>>
    BY <1>2 DEF Replay, Serves
  <2>2. DayStep
    BY <2>1, IsFree, Standing DEF DayStep, Serves
  <2>3. OnlyMoves(w) /\ serving'[w] = Never
    BY <2>1, IsFree DEF OnlyMoves
  <2>4. \A k \in IdempotencyKeys : MayTakeEffect(w, k)' => MayTakeEffect(w, k)
    BY <2>1, <2>3 DEF MayTakeEffect, Asks
  <2>5. \A k \in IdempotencyKeys : Budgeted(k)'
    BY <2>1, <2>3, <2>4, MovesQuietly
  <2> QED  BY <2>2, <2>5, DaySteps
<1>3. CASE Miss(w)
  <2> DEFINE r == serving[w].request
  <2>1. /\ serving[w] # Never /\ serving[w].step = "admitted" /\ Steps(w, "missed")
        /\ IF Kept(w, r) THEN Lose(KeyOf(r)) ELSE UNCHANGED keyHistory
        /\ UNCHANGED <<record, placement, entries>>
    BY <1>3 DEF Miss, Serves
  <2>2. /\ serving' \in [ApiWorkers -> Serving \cup {Never}]
        /\ serving'[w] # Never /\ serving'[w].step = "missed" /\ serving'[w].request = r
        /\ \A v \in ApiWorkers \ {w} : serving'[v] = serving[v]
    BY <2>1, GoesOn
  <2>3. KeyOf(r) \subseteq IdempotencyKeys
    BY <1>0, <2>1, KeysOfRequests
  <2>4. DayStep
    BY <2>1, <2>2, <2>3, Standing, LosesKeys DEF DayStep, Serves, DayInv
  <2>5. OnlyMoves(w)
    BY <2>1, <2>2 DEF OnlyMoves
  <2>6. CASE Kept(w, r)
    <3>1. \A k \in IdempotencyKeys \ KeyOf(r) : MayTakeEffect(w, k)' => MayTakeEffect(w, k)
      BY <2>1, <2>2 DEF MayTakeEffect, Asks
    <3>2. \A k \in IdempotencyKeys : Budgeted(k)'
      BY <2>1, <2>3, <2>5, <2>6, <3>1, MovesWithoutEffect
    <3> QED  BY <2>4, <3>2, DaySteps
  <2>7. CASE ~Kept(w, r)
    <3>1. \A k \in KeyOf(r) : k \notin entries[placement[w]]
      BY <2>7 DEF Kept, KeyOf
    <3>2. \A k \in IdempotencyKeys : MayTakeEffect(w, k)' => MayTakeEffect(w, k)
      BY <2>1, <2>2, <3>1 DEF MayTakeEffect, Asks
    <3>3. \A k \in IdempotencyKeys : Budgeted(k)'
      BY <2>1, <2>5, <2>7, <3>2, MovesQuietly
    <3> QED  BY <2>4, <3>3, DaySteps
  <2> QED  BY <2>6, <2>7
<1>4. CASE Refuse(w)
  <2> DEFINE r == serving[w].request
  <2>1. /\ serving[w] # Never /\ Answers(w)
        /\ IF serving[w].step = "done" THEN Lose(KeyOf(r)) ELSE UNCHANGED keyHistory
        /\ UNCHANGED <<record, placement, entries>>
    BY <1>4 DEF Refuse, Serves
  <2>2. OnlyMoves(w) /\ serving'[w] = Never
    BY <2>1, IsFree DEF OnlyMoves
  <2>3. KeyOf(r) \subseteq IdempotencyKeys
    BY <1>0, <2>1, KeysOfRequests
  <2>4. DayStep
    BY <2>1, <2>3, IsFree, Standing, LosesKeys DEF DayStep, Serves, DayInv
  <2>5. CASE serving[w].step = "done"
    <3>1. \A k \in IdempotencyKeys \ KeyOf(r) : MayTakeEffect(w, k)' => MayTakeEffect(w, k)
      BY <2>1, <2>2 DEF MayTakeEffect, Asks
    <3>2. \A k \in IdempotencyKeys : Budgeted(k)'
      BY <2>1, <2>2, <2>3, <2>5, <3>1, MovesWithoutEffect
    <3> QED  BY <2>4, <3>2, DaySteps
  <2>6. CASE serving[w].step # "done"
    <3>1. \A k \in IdempotencyKeys : MayTakeEffect(w, k)' => MayTakeEffect(w, k)
      BY <2>1, <2>2, <2>6 DEF MayTakeEffect, Asks
    <3>2. \A k \in IdempotencyKeys : Budgeted(k)'
      BY <2>1, <2>2, <2>6, <3>1, MovesQuietly
    <3> QED  BY <2>4, <3>2, DaySteps
  <2> QED  BY <2>5, <2>6
<1>5. CASE CheckIn(w)
  <2> DEFINE r == serving[w].request
  <2>1. /\ serving[w] # Never /\ serving[w].step = "missed" /\ Steps(w, "done")
        /\ UpsertCheckIn(r.driver, r.hour) /\ TookEffect(r)
        /\ UNCHANGED <<placement, entries>>
    BY <1>5 DEF CheckIn, Serves
  <2>2. DayStep
    BY <1>0, <2>1, GoesOn, RowsWritten, CountsEffect, Standing DEF DayStep, Serves, DayInv, DriverApiTypeOK
  <2>3. \A k \in IdempotencyKeys : Budgeted(k)'
    BY <2>1, MovesWithEffect
  <2> QED  BY <2>2, <2>3, DaySteps
<1>6. CASE ReadCheckOut(w)
  <2> DEFINE r == serving[w].request
             day == StatusOfDay(record[r.driver].checkIn, r.hour)
             new == [serving[w] EXCEPT !.step = "read", !.status = day]
  <2>1. /\ serving[w] # Never /\ serving[w].step = "missed" /\ record[r.driver] # Never
        /\ serving' = [serving EXCEPT ![w].step = "read", ![w].status = day]
        /\ UNCHANGED <<record, placement, entries, keyHistory>>
    BY <1>6 DEF ReadCheckOut, Serves
  <2>2. day \in {"PRESENT", "HALF_DAY"}
    BY DEF StatusOfDay
  <2>3. /\ serving' = [serving EXCEPT ![w] = new]
        /\ serving \in [ApiWorkers -> Serving \cup {Never}]
    <3> HIDE DEF day
    <3> QED  BY <2>1 DEF DayInv, DriverApiTypeOK
  <2>4. new \in Serving /\ new.step = "read" /\ new.status = day /\ new.request = r
    <3> HIDE DEF day
    <3> QED  BY <1>0, <2>1, <2>2 DEF Serving
  <2>5. new # Never
    BY <2>4, DriverApiAssumption
  <2> HIDE DEF day, new
  <2>6. /\ serving' \in [ApiWorkers -> Serving \cup {Never}] /\ serving'[w] = new
        /\ \A v \in ApiWorkers \ {w} : serving'[v] = serving[v]
    BY <2>3, <2>4
  <2>7. DayStep
    BY <2>1, <2>2, <2>4, <2>6, Standing DEF DayStep, Serves
  <2>8. OnlyMoves(w)
    BY <2>1, <2>6 DEF OnlyMoves
  <2>9. \A k \in IdempotencyKeys : MayTakeEffect(w, k)' => MayTakeEffect(w, k)
    BY <2>1, <2>4, <2>5, <2>6 DEF MayTakeEffect, Asks
  <2>10. \A k \in IdempotencyKeys : Budgeted(k)'
    BY <2>1, <2>8, <2>9, MovesQuietly
  <2> QED  BY <2>7, <2>10, DaySteps
<1>7. CASE CommitCheckOut(w)
  <2> DEFINE r == serving[w].request
  <2>1. /\ serving[w] # Never /\ serving[w].step = "read" /\ Steps(w, "done")
        /\ UpdateCheckOut(r.driver, r.hour, serving[w].status) /\ TookEffect(r)
        /\ UNCHANGED <<placement, entries>>
    BY <1>7 DEF CommitCheckOut, Serves
  <2>2. serving[w].status \in {"PRESENT", "HALF_DAY"} /\ record[r.driver] # Never
    BY <2>1 DEF DayInv, ReadsHaveRows, Serves
  <2>3. DayStep
    BY <1>0, <2>1, <2>2, GoesOn, RowsWritten, CountsEffect, Standing
       DEF DayStep, Serves, DayInv, DriverApiTypeOK
  <2>4. \A k \in IdempotencyKeys : Budgeted(k)'
    BY <2>1, MovesWithEffect
  <2> QED  BY <2>3, <2>4, DaySteps
<1>8. CASE StoreAnswer(w)
  <2> DEFINE r == serving[w].request
  <2>1. /\ serving[w] # Never /\ serving[w].step = "done" /\ Answers(w)
        /\ UNCHANGED <<record, placement>>
    BY <1>8 DEF StoreAnswer, Serves
  <2>2. /\ KeyOf(r) \subseteq IdempotencyKeys
        /\ r.header = Never => KeyOf(r) = {}
        /\ r.header # Never => KeyOf(r) = {MakeIdempotencyKey(r)}
    BY <1>0, <2>1, KeysOfRequests
  <2>3. \/ Lose(KeyOf(r)) /\ UNCHANGED entries
        \/ /\ UNCHANGED keyHistory
           /\ entries' = [entries EXCEPT ![placement[w]] = @ \cup KeyOf(r)]
    <3>1. CASE r.header = Never
      <4>1. entries = [entries EXCEPT ![placement[w]] = @ \cup {}]
        BY DEF DayInv, DriverApiTypeOK
      <4> QED  BY <1>8, <2>2, <3>1, <4>1 DEF StoreAnswer
    <3>2. CASE r.header # Never
      BY <1>8, <2>2, <3>2 DEF StoreAnswer
    <3> QED  BY <3>1, <3>2
  <2>4. /\ serving' \in [ApiWorkers -> Serving \cup {Never}] /\ serving'[w] = Never
        /\ \A v \in ApiWorkers \ {w} : serving'[v] = serving[v]
    BY <2>1, IsFree
  <2>5. /\ entries \in [Stores -> SUBSET IdempotencyKeys] /\ placement[w] \in Stores
        /\ placement' = placement
    BY <2>1 DEF DayInv, DriverApiTypeOK
  <2>6. CASE Lose(KeyOf(r)) /\ UNCHANGED entries
    <3>1. DayStep
      BY <2>1, <2>2, <2>4, <2>5, <2>6, Standing, LosesKeys DEF DayStep, Serves, DayInv
    <3>2. OnlyMoves(w)
      BY <2>1, <2>4, <2>6 DEF OnlyMoves
    <3>3. \A k \in IdempotencyKeys \ KeyOf(r) : MayTakeEffect(w, k)' => MayTakeEffect(w, k)
      BY <2>1, <2>4, <2>6 DEF MayTakeEffect, Asks
    <3>4. \A k \in IdempotencyKeys : Budgeted(k)'
      BY <2>2, <2>6, <3>2, <3>3, MovesWithoutEffect
    <3> QED  BY <3>1, <3>4, DaySteps
  <2>7. CASE /\ UNCHANGED keyHistory
             /\ entries' = [entries EXCEPT ![placement[w]] = @ \cup KeyOf(r)]
    <3>1. /\ entries' \in [Stores -> SUBSET IdempotencyKeys]
          /\ entries'[placement[w]] = entries[placement[w]] \cup KeyOf(r)
          /\ \A s \in Stores : entries[s] \subseteq entries'[s]
      BY <2>2, <2>5, <2>7
    <3>2. DayStep
      BY <2>1, <2>4, <2>7, <3>1, Standing DEF DayStep, Serves
    <3>3. OnlyMoves(w)
      BY <2>1, <2>4, <3>1 DEF OnlyMoves
    <3>4. \A k \in IdempotencyKeys : MayTakeEffect(w, k)' => MayTakeEffect(w, k)
      BY <2>1, <2>4, <2>5, <3>1 DEF MayTakeEffect, Asks
    <3>5. \A k \in IdempotencyKeys : Budgeted(k)'
      BY <2>7, <3>3, <3>4, MovesQuietly
    <3> QED  BY <3>2, <3>5, DaySteps
  <2> QED  BY <2>3, <2>6, <2>7
<1> QED  BY <1>1, <1>2, <1>3, <1>4, <1>5, <1>6, <1>7, <1>8 DEF Served

\* Answers that expire or go with their instance take their keys along.
LEMMA LossesPreserve ==
    ASSUME AInv, NEW keys \in SUBSET IdempotencyKeys, Lose(keys), UNCHANGED <<record, placement>>,
           NEW s \in Stores, entries' \in [Stores -> SUBSET IdempotencyKeys],
           \A v \in Stores : entries[v] \subseteq entries'[v] \cup keys,
           NEW gone \in SUBSET ApiWorkers,
           serving' = [w \in ApiWorkers |-> IF w \in gone THEN Never ELSE serving[w]],
           \A w \in gone : serving[w] # Never => KeyOf(serving[w].request) \subseteq keys
    PROVE  AInv'
<1>1. /\ serving \in [ApiWorkers -> Serving \cup {Never}]
      /\ serving' \in [ApiWorkers -> Serving \cup {Never}]
      /\ \A w \in ApiWorkers : placement'[w] \in Stores /\ placement'[w] = placement[w]
  BY DEF AInv, DayInv, DriverApiTypeOK
<1>2. DayStep
  BY <1>1, Standing, LosesKeys DEF DayStep, Serves, DayInv, AInv
<1>3. ASSUME NEW k \in IdempotencyKeys PROVE Budgeted(k)'
  <2>1. IF k \in keys THEN k \in lost' /\ effects'[k] = 0
        ELSE (k \in lost' <=> k \in lost) /\ effects'[k] = effects[k]
    BY LosesKeys DEF AInv, DayInv
  <2>2. CASE k \in keys
    BY <2>1, <2>2, LostIsBudgeted
  <2>3. CASE k \notin keys
    <3>1. ASSUME NEW w \in ApiWorkers, MayTakeEffect(w, k)' PROVE MayTakeEffect(w, k)
      <4>1. entries[placement[w]] \subseteq entries'[placement'[w]] \cup keys
        BY <1>1
      <4>2. CASE w \in gone
        <5>1. serving'[w] = Never /\ ~Asks(w, k)
          BY <2>3, <4>2 DEF Asks
        <5> QED  BY <2>3, <3>1, <4>1, <5>1 DEF MayTakeEffect, Asks
      <4>3. CASE w \notin gone
        <5>1. serving'[w] = serving[w]
          BY <4>3
        <5> QED  BY <2>3, <3>1, <4>1, <5>1 DEF MayTakeEffect, Asks
      <4> QED  BY <4>2, <4>3
    <3> QED  BY <2>1, <2>3, <3>1, FewerAble
  <2> QED  BY <2>2, <2>3
<1> QED  BY <1>2, <1>3, DaySteps DEF AInv

\* Requests, the desk, and the losses of stores.
LEMMA DriverApiNextPreserves ==
    ASSUME AInv, [DriverApiNext]_driverApiVars
    PROVE  AInv'
<1>0. /\ entries \in [Stores -> SUBSET IdempotencyKeys]
      /\ serving \in [ApiWorkers -> Serving \cup {Never}]
      /\ record \in [Drivers -> AttendanceRow \cup {Never}]
  BY DEF AInv, DayInv, DriverApiTypeOK
<1>1. CASE \E w \in ApiWorkers : Served(w)
  BY <1>1, ServedPreserves
<1>2. ASSUME NEW d \in Drivers, NEW status \in {"ABSENT", "ON_LEAVE"}, MarkAbsent(d, status)
      PROVE  AInv'
  <2>1. PICK row : row = Attended(Never, Never, status)
    OBVIOUS
  <2>2. /\ row \in AttendanceRow /\ row.status = status
        /\ row.checkIn = Never /\ row.checkOut = Never
    BY <2>1 DEF Attended, AttendanceRow, Hour
  <2>3. row # Never
    BY <2>2, DriverApiAssumption
  <2>4. /\ record' = [record EXCEPT ![d] = row]
        /\ UNCHANGED <<placement, entries, serving, keyHistory>>
    BY <1>2, <2>1 DEF MarkAbsent
  <2>5. \A e \in Drivers : record'[e] = IF e = d THEN row ELSE record[e]
    BY <1>0, <2>4
  <2>6. AttendanceAgrees'
    BY <2>2, <2>5 DEF AttendanceAgrees, AInv, DayInv
  <2>7. DayStep
    BY <1>0, <2>2, <2>3, <2>4, <2>5, <2>6, Standing DEF DayStep, AInv, DayInv, DriverApiTypeOK
  <2>8. \A k \in IdempotencyKeys : Budgeted(k)'
    BY <2>4 DEF Budgeted, Able, MayTakeEffect, Asks, AInv, keyHistory
  <2> QED  BY <2>7, <2>8, DaySteps DEF AInv
<1>3. ASSUME NEW s \in Stores, EntryExpires(s) PROVE AInv'
  <2>1. PICK k \in entries[s] : /\ entries' = [entries EXCEPT ![s] = @ \ {k}] /\ Lose({k})
                                /\ UNCHANGED <<record, placement, serving>>
    BY <1>3 DEF EntryExpires
  <2>2. /\ {k} \in SUBSET IdempotencyKeys
        /\ entries' \in [Stores -> SUBSET IdempotencyKeys]
        /\ \A v \in Stores : entries[v] \subseteq entries'[v] \cup {k}
    BY <1>0, <2>1
  <2>3. PICK gone \in SUBSET ApiWorkers : gone = {}
    OBVIOUS
  <2>4. serving' = [w \in ApiWorkers |-> IF w \in gone THEN Never ELSE serving[w]]
    BY <1>0, <2>1, <2>3
  <2>5. PICK keys \in SUBSET IdempotencyKeys : keys = {k}
    BY <2>2
  <2>6. \A w \in gone : serving[w] # Never => KeyOf(serving[w].request) \subseteq keys
    BY <2>3
  <2> QED  BY <2>1, <2>2, <2>4, <2>5, <2>6, LossesPreserve
<1>4. ASSUME NEW s \in Servers, ServerStops(s) PROVE AInv'
  <2> DEFINE gone == {v \in ApiWorkers : placement[v] = s}
             keys == entries[s] \cup
                UNION {KeyOf(serving[w].request) : w \in {v \in ApiWorkers : placement[v] = s /\ serving[v] # Never}}
  <2>1. s \in Stores /\ entries[s] \subseteq IdempotencyKeys
    BY <1>0 DEF Stores
  <2>2. \A w \in ApiWorkers : serving[w] # Never => KeyOf(serving[w].request) \subseteq IdempotencyKeys
    BY <1>0, KeysOfRequests DEF Serving
  <2>3. keys \in SUBSET IdempotencyKeys
    BY <2>1, <2>2
  <2>4. /\ Lose(keys) /\ UNCHANGED <<record, placement>>
        /\ entries' = [entries EXCEPT ![s] = {}]
        /\ serving' = [w \in ApiWorkers |-> IF w \in gone THEN Never ELSE serving[w]]
    BY <1>4 DEF ServerStops
  <2>5. /\ entries' \in [Stores -> SUBSET IdempotencyKeys]
        /\ \A v \in Stores : entries[v] \subseteq entries'[v] \cup keys
    BY <1>0, <2>1, <2>4
  <2>6. \A w \in gone : serving[w] # Never => KeyOf(serving[w].request) \subseteq keys
    OBVIOUS
  <2>7. gone \in SUBSET ApiWorkers
    OBVIOUS
  <2> HIDE DEF gone, keys
  <2> QED  BY <2>1, <2>3, <2>4, <2>5, <2>6, <2>7, LossesPreserve
<1>5. CASE UNCHANGED driverApiVars
  <2>1. UNCHANGED <<record, placement, entries, serving, effects, lost>>
    BY <1>5 DEF driverApiVars, keyHistory
  <2> QED
    BY <2>1 DEF AInv, DayInv, DriverApiTypeOK, AttendanceAgrees, ReadsHaveRows, Serves,
                Budgeted, Able, MayTakeEffect, Asks
<1> QED  BY <1>1, <1>2, <1>3, <1>4, <1>5 DEF DriverApiNext

\* Effects are bounded by the workers.
LEMMA AInvRepeatsAreBounded ==
    ASSUME AInv
    PROVE  RepeatsAreBounded /\ AttendanceAgrees
<1>1. ASSUME NEW k \in IdempotencyKeys PROVE effects[k] <= Cardinality(ApiWorkers)
  <2>1. IsFiniteSet(ApiWorkers) /\ IsFiniteSet(Able(k))
    BY DriverApiAssumption, FS_Subset DEF Able
  <2>2. /\ Cardinality(ApiWorkers) \in Nat /\ Cardinality(Able(k)) \in Nat
        /\ effects[k] \in Nat
    BY <2>1, FS_CardinalityType DEF AInv, DayInv, DriverApiTypeOK
  <2> QED  BY <2>2 DEF AInv, Budgeted
<1> QED  BY <1>1 DEF RepeatsAreBounded, AInv, DayInv

-----------------------------------------------------------------------------
(* Requests, in the office. *)

LimitedInv == AInv /\ LimInv

\* Only the steps of the API and of the limiter move what is theirs.
LEMMA OfficeStepOfRequests ==
    ASSUME [OfficeNext]_officeVars
    PROVE  [DriverApiNext]_driverApiVars /\ [RateLimitNext]_rateLimitVars
BY DEF OfficeNext, officeVars

\* Rows agree, effects and answers fit the workers, and windows follow windows.
THEOREM RequestsInvariance == OfficeSpec => []LimitedInv
<1>1. OfficeInit => LimitedInv
  BY DriverApiInitEstablishes, LimiterInitEstablishes DEF OfficeInit, LimitedInv
<1>2. LimitedInv /\ [OfficeNext]_officeVars => LimitedInv'
  BY OfficeStepOfRequests, DriverApiNextPreserves, LimiterNextPreserves DEF LimitedInv
<1> QED
  BY <1>1, <1>2, PTL DEF OfficeSpec

\* For any number of instances, workers, drivers and keys, and any window and
\* limit: a repeated request takes effect at most as often as workers can serve
\* it at one time, the day's rows tell one story, and no span of a window's
\* length lets twice the limit through.
THEOREM RequestsAlwaysAddUp == OfficeSpec => []RequestsAddUp
<1>1. LimitedInv => RequestsAddUp
  BY AInvRepeatsAreBounded, LimInvBurstsAreBounded DEF LimitedInv, RequestsAddUp
<1> QED  BY <1>1, RequestsInvariance, PTL
-----------------------------------------------------------------------------
(* The screens of one trip. *)

\* Nobody is on a trip that has found nobody.
NobodyYet(row) ==
    row.status \in {"PENDING", "OPEN_FOR_CLAIM"} => row.claimedBy = NoOne /\ row.driver = NoOne

DeskControls ==
    {<<"to", target>> : target \in StaffTargets \cup {"CANCELLED"}}
    \cup {<<"assign", d, c>> : d \in TripDrivers, c \in TripCars}
    \cup {<<"clear">>, <<"edit">>, <<"invoice">>}
CustomerControls == {<<"to", "CANCELLED">>, <<"edit">>, <<"consent">>, <<"pay">>}
DriverControls == {<<"claim">>} \cup {<<"to", target>> : target \in DriverAllowedTargets}

\* All that somebody's page may ever offer.
Controls(who) ==
    IF who \in Desk THEN DeskControls
    ELSE IF who = "customer" THEN CustomerControls ELSE DriverControls

SInv ==
    /\ TripScreensTypeOK
    /\ NobodyYet(trip)
    /\ \A click \in intended :
         /\ click = <<click[1], click[2]>> /\ click[1] \in Viewers
         /\ click[2] \in Controls(click[1])

\* The tables of the pages.
LEMMA Tables ==
    /\ \A s, t \in Statuses : <<s, t>> \in StaffManualTransitions =>
         t \in StaffTargets \cup {"CANCELLED"} /\ CanTransition(s, t)
    /\ \A s, t \in Statuses : <<s, t>> \in DriverNextActions =>
         t \in DriverAllowedTargets /\ CanTransition(s, t)
    /\ \A s, t \in Statuses :
         CanTransition(s, t) /\ t \in DriverAllowedTargets => <<s, t>> \in DriverNextActions
    /\ \A s, t \in Statuses :
         CanTransition(s, t) /\ t \in StaffTargets => <<s, t>> \in StaffManualTransitions
    /\ \A s \in Statuses : CanTransition(s, "CANCELLED") <=>
         s \in {"PENDING", "OPEN_FOR_CLAIM", "CLAIMED", "ASSIGNED"}
    /\ \A s \in Statuses : <<s, "CANCELLED">> \in StaffManualTransitions <=>
         s \in {"PENDING", "OPEN_FOR_CLAIM", "ASSIGNED"}
    /\ \A s \in Statuses : CanTransition(s, "ASSIGNED") <=> s \in {"PENDING", "CLAIMED"}
    /\ \A s, t \in Statuses : CanTransition(s, t) => t # "PENDING"
    /\ \A s \in Statuses : CanTransition(s, "OPEN_FOR_CLAIM") => s = "PENDING"
<1>1. \A s, t \in Statuses : <<s, t>> \in StaffManualTransitions <=>
         \/ s = "PENDING" /\ t \in {"OPEN_FOR_CLAIM", "CANCELLED"}
         \/ s = "OPEN_FOR_CLAIM" /\ t = "CANCELLED"
         \/ s = "ASSIGNED" /\ t \in {"DRIVER_EN_ROUTE", "CANCELLED"}
         \/ s = "DRIVER_EN_ROUTE" /\ t \in {"IN_PROGRESS", "NO_SHOW"}
         \/ s = "IN_PROGRESS" /\ t \in {"COMPLETED", "FAILED"}
  BY DEF StaffManualTransitions
<1>2. \A s, t \in Statuses : CanTransition(s, t) <=>
         \/ s = "PENDING" /\ t \in {"ASSIGNED", "OPEN_FOR_CLAIM", "CANCELLED"}
         \/ s = "OPEN_FOR_CLAIM" /\ t \in {"CLAIMED", "CANCELLED"}
         \/ s = "CLAIMED" /\ t \in {"ASSIGNED", "CANCELLED"}
         \/ s = "ASSIGNED" /\ t \in {"DRIVER_EN_ROUTE", "CANCELLED"}
         \/ s = "DRIVER_EN_ROUTE" /\ t \in {"IN_PROGRESS", "NO_SHOW"}
         \/ s = "IN_PROGRESS" /\ t \in {"COMPLETED", "FAILED"}
  BY DEF CanTransition, AllowedTransitions
<1>3. \A s, t \in Statuses : <<s, t>> \in DriverNextActions <=>
         \/ s = "ASSIGNED" /\ t = "DRIVER_EN_ROUTE"
         \/ s = "DRIVER_EN_ROUTE" /\ t \in {"IN_PROGRESS", "NO_SHOW"}
         \/ s = "IN_PROGRESS" /\ t = "COMPLETED"
  BY DEF DriverNextActions
<1>4. {"CANCELLED", "ASSIGNED", "OPEN_FOR_CLAIM"} \subseteq Statuses
  BY DEF Statuses, LiveStatuses
<1> QED  BY <1>1, <1>2, <1>3, <1>4 DEF StaffTargets, DriverAllowedTargets

\* Controls are told apart by their first words.
LEMMA Words ==
    /\ \A relation : /\ \A b \in Buttons(relation) : b[1] = "to"
                     /\ \A t \in Statuses : <<"to", t>> \in Buttons(relation)
                                            <=> <<trip.status, t>> \in relation
    /\ \A a \in AssignForm : a[1] = "assign"
    /\ \A condition, control, other : other \in Only(condition, control) <=> condition /\ other = control
<1>1. ASSUME NEW relation
      PROVE  /\ \A b \in Buttons(relation) : b[1] = "to"
             /\ \A t \in Statuses : <<"to", t>> \in Buttons(relation)
                                    <=> <<trip.status, t>> \in relation
  <2>1. ASSUME NEW b \in Buttons(relation) PROVE b[1] = "to"
    <3>1. PICK t \in Statuses : b = <<"to", t>>
      BY DEF Buttons
    <3> QED  BY <3>1
  <2>2. ASSUME NEW t \in Statuses
        PROVE  <<"to", t>> \in Buttons(relation) <=> <<trip.status, t>> \in relation
    <3>1. ASSUME <<"to", t>> \in Buttons(relation) PROVE <<trip.status, t>> \in relation
      <4>1. PICK u \in Statuses : <<trip.status, u>> \in relation /\ <<"to", t>> = <<"to", u>>
        BY <3>1 DEF Buttons
      <4>2. t = u
        BY <4>1
      <4> QED  BY <4>1, <4>2
    <3>2. ASSUME <<trip.status, t>> \in relation PROVE <<"to", t>> \in Buttons(relation)
      BY <3>2 DEF Buttons
    <3> QED  BY <3>1, <3>2
  <2> QED  BY <2>1, <2>2
<1>2. \A a \in AssignForm : a[1] = "assign"
  BY DEF AssignForm
<1>3. \A condition, control, other : other \in Only(condition, control) <=> condition /\ other = control
  BY DEF Only
<1> QED  BY <1>1, <1>2, <1>3

\* What a page offers is among its controls.
LEMMA OfferedControls ==
    ASSUME SInv, NEW who \in Viewers, NEW control \in Offers(who)
    PROVE  control \in Controls(who)
<1>1. trip.status \in Statuses
  BY DEF SInv, TripScreensTypeOK, TripRow
<1>2. CASE who \in Desk
  <2>1. control \in DeskOffers
    BY <1>2 DEF Offers, Desk
  <2>2. Buttons(StaffManualTransitions) \subseteq DeskControls
    <3>1. ASSUME NEW t \in Statuses, <<trip.status, t>> \in StaffManualTransitions
          PROVE  <<"to", t>> \in DeskControls
      BY <1>1, <3>1, Tables DEF DeskControls
    <3> QED  BY <3>1 DEF Buttons
  <2>3. AssignForm \subseteq DeskControls
    BY DEF AssignForm, DeskControls, AssignableDrivers, SInv, TripScreensTypeOK
  <2> QED  BY <1>2, <2>1, <2>2, <2>3 DEF DeskOffers, Only, DeskControls, Controls
<1>3. CASE who = "customer"
  BY <1>3 DEF Offers, Desk, CustomerOffers, Only, Controls, CustomerControls
<1>4. CASE who \notin Desk /\ who # "customer"
  <2>1. Buttons(DriverNextActions) \subseteq DriverControls
    BY <1>1, Tables DEF Buttons, DriverControls
  <2>2. control \in DriverOffers(who)
    BY <1>4 DEF Offers
  <2> QED  BY <1>4, <2>1, <2>2 DEF DriverOffers, Only, Controls, DriverControls
<1> QED  BY <1>2, <1>3, <1>4

\* What an accepted control makes of the row.
LEMMA EffectsAreRows ==
    ASSUME SInv, NEW who \in Viewers, NEW control \in Controls(who), Accepts(who, control),
           NEW row \in Effects(who, control)
    PROVE  row \in TripRow /\ NobodyYet(row)
<1>0. trip \in TripRow /\ NobodyYet(trip) /\ trip.status \in Statuses
  BY DEF SInv, TripScreensTypeOK, TripRow
<1>1. CASE control \in {<<"to", target>> : target \in Statuses}
  <2>1. PICK target \in Statuses : control = <<"to", target>>
    BY <1>1
  <2>2. CanTransition(trip.status, target)
    BY <2>1 DEF Accepts, AcceptsTransition
  <2>3. target # "PENDING" /\ (target = "OPEN_FOR_CLAIM" => trip.status = "PENDING")
    BY <1>0, <2>2, Tables
  <2>4. CASE target = "COMPLETED"
    <3>1. PICK i \in {trip.invoice, "issued"} :
            row = [trip EXCEPT !.status = "COMPLETED", !.invoice = i]
      BY <2>1, <2>4 DEF Effects
    <3> QED  BY <1>0, <2>4, <3>1 DEF TripRow, NobodyYet, Statuses
  <2>5. CASE target # "COMPLETED"
    <3>1. row = [trip EXCEPT !.status = target]
      BY <2>1, <2>5 DEF Effects
    <3> QED  BY <1>0, <2>3, <3>1 DEF TripRow, NobodyYet
  <2> QED  BY <2>4, <2>5
<1>2. CASE control \in {<<"assign", d, c>> : d \in TripDrivers, c \in TripCars}
  <2>1. PICK d \in TripDrivers, c \in TripCars : control = <<"assign", d, c>>
    BY <1>2
  <2>2. row = [trip EXCEPT !.status = "ASSIGNED", !.driver = d, !.car = c]
    BY <2>1 DEF Effects
  <2> QED  BY <1>0, <2>2 DEF TripRow, NobodyYet, Statuses, LiveStatuses
<1>3. CASE control = <<"claim">>
  <2>1. row = [trip EXCEPT !.status = "CLAIMED", !.claimedBy = who]
    BY <1>3 DEF Effects
  <2>2. who \in TripDrivers
    BY <1>3 DEF Controls, DeskControls, CustomerControls, Viewers
  <2> QED  BY <1>0, <2>1, <2>2 DEF TripRow, NobodyYet, Statuses, LiveStatuses
<1>4. CASE control \in {<<"clear">>, <<"edit">>, <<"invoice">>, <<"consent">>, <<"pay">>}
  <2>1. \/ row = trip \/ row = [trip EXCEPT !.consent = TRUE] \/ row = [trip EXCEPT !.flags = 0]
        \/ row = [trip EXCEPT !.invoice = "issued"] \/ row = [trip EXCEPT !.paid = TRUE]
    BY <1>4 DEF Effects
  <2>2. 0 \in 0..FlagThreshold
    BY TripScreensAssumption
  <2> QED  BY <1>0, <2>1, <2>2 DEF TripRow, NobodyYet
<1>5. StaffTargets \cup {"CANCELLED"} \subseteq Statuses /\ DriverAllowedTargets \subseteq Statuses
  BY DEF StaffTargets, DriverAllowedTargets, Statuses, LiveStatuses
<1> QED
  BY <1>1, <1>2, <1>3, <1>4, <1>5 DEF Controls, DeskControls, CustomerControls, DriverControls

\* A new trip has nobody yet.
LEMMA TripScreensInitEstablishes == TripScreensInit => SInv
<1> SUFFICES ASSUME TripScreensInit PROVE SInv
  OBVIOUS
<1>1. 0 \in 0..FlagThreshold
  BY TripScreensAssumption
<1>2. trip \in TripRow
  BY <1>1 DEF TripScreensInit, TripRow, Statuses, LiveStatuses
<1> QED  BY <1>2 DEF SInv, TripScreensTypeOK, TripScreensInit, NobodyYet

\* Renderings, clicks old and new, and what moves beside them.
LEMMA TripScreensNextPreserves ==
    ASSUME SInv, [TripScreensNext]_tripScreensVars
    PROVE  SInv'
<1> USE TripScreensAssumption
<1>0. /\ trip \in TripRow /\ standing \in [TripDrivers -> Standings] /\ serviceable \subseteq TripCars
      /\ NobodyYet(trip)
  BY DEF SInv, TripScreensTypeOK
<1>1. ASSUME NEW who \in Viewers, NEW control \in Offers(who), Intend(who, control)
      PROVE  SInv'
  <2>1. control \in Controls(who)
    BY OfferedControls
  <2> QED  BY <1>1, <2>1 DEF Intend, SInv, TripScreensTypeOK
<1>2. ASSUME NEW click \in intended, Click(click[1], click[2])
      PROVE  SInv'
  <2>1. click[1] \in Viewers /\ click[2] \in Controls(click[1])
    BY DEF SInv
  <2>2. trip' \in TripRow /\ NobodyYet(trip')
    BY <1>0, <1>2, <2>1, EffectsAreRows DEF Click
  <2>3. intended' \subseteq intended /\ UNCHANGED <<standing, serviceable>>
    BY <1>2 DEF Click
  <2> QED  BY <2>2, <2>3 DEF SInv, TripScreensTypeOK, NobodyYet
<1>3. CASE PointFlagged
  <2>1. trip' = [trip EXCEPT !.flags = @ + 1] /\ trip.flags < FlagThreshold
        /\ UNCHANGED <<standing, serviceable, intended>>
    BY <1>0, <1>3 DEF PointFlagged, UnderReview, TripRow
  <2>2. trip.flags + 1 \in 0..FlagThreshold
    BY <1>0, <2>1 DEF TripRow
  <2> QED  BY <1>0, <2>1, <2>2 DEF SInv, TripScreensTypeOK, TripRow, NobodyYet
<1>4. CASE PaidAtTheDesk
  BY <1>0, <1>4 DEF PaidAtTheDesk, SInv, TripScreensTypeOK, TripRow, NobodyYet
<1>5. CASE InvoiceVoided
  BY <1>0, <1>5 DEF InvoiceVoided, SInv, TripScreensTypeOK, TripRow, NobodyYet
<1>6. CASE \E d \in TripDrivers, s \in Standings : DriverEdited(d, s)
  BY <1>0, <1>6 DEF DriverEdited, SInv, TripScreensTypeOK, NobodyYet
<1>7. CASE \E c \in TripCars : CarEdited(c)
  BY <1>0, <1>7 DEF CarEdited, SInv, TripScreensTypeOK, NobodyYet
<1>8. CASE UNCHANGED tripScreensVars
  BY <1>8 DEF tripScreensVars, SInv, TripScreensTypeOK, NobodyYet
<1> QED  BY <1>1, <1>2, <1>3, <1>4, <1>5, <1>6, <1>7, <1>8 DEF TripScreensNext

\* What the page would offer now against what the action accepts now.
Agree(who, control) ==
    \/ Accepts(who, control) <=> control \in Offers(who)
    \/ control \in Offers(who) /\ HeldBack(who, control)
    \/ OutlivesItsPage(control)

\* What a page offers now the server accepts now, and the other way round.
LEMMA SInvPagesAgree ==
    ASSUME SInv
    PROVE  PagesAgree
<1> SUFFICES ASSUME NEW who \in Viewers \ {"staff"}, NEW control \in Controls(who)
             PROVE  Agree(who, control)
  BY DEF PagesAgree, SInv, Agree
<1>0. trip \in TripRow /\ trip.status \in Statuses /\ NobodyYet(trip)
      /\ standing \in [TripDrivers -> Standings] /\ serviceable \subseteq TripCars
      /\ FlagThreshold \in Nat \ {0} /\ trip.flags \in 0..FlagThreshold
      /\ trip.consent \in BOOLEAN /\ trip.paid \in BOOLEAN
  BY TripScreensAssumption DEF SInv, TripScreensTypeOK, TripRow
<1>1. CASE who = "admin"
  <2>1. Offers(who) = DeskOffers /\ MayOverride(who)
    BY <1>1 DEF Offers, Desk, MayOverride
  <2>2. ASSUME NEW target \in StaffTargets \cup {"CANCELLED"}, control = <<"to", target>>
        PROVE  Agree(who, control)
    <3>1. target \in Statuses
      BY DEF StaffTargets, Statuses, LiveStatuses
    <3>2. control \in Offers(who) <=> <<trip.status, target>> \in StaffManualTransitions
      <4>1. control[1] = "to"
        BY <2>2
      <4>2. /\ control \notin AssignForm /\ control # <<"clear">>
            /\ control # <<"edit">> /\ control # <<"invoice">>
        BY <4>1, Words
      <4>3. control \in Offers(who) <=> control \in Buttons(StaffManualTransitions)
        BY <2>1, <4>2 DEF DeskOffers, Only
      <4> QED  BY <2>2, <3>1, <4>3, Words
    <3>3. Accepts(who, control) <=>
            CanTransition(trip.status, target) /\ (target = "COMPLETED" => ~UnderReview)
      BY <1>1, <2>1, <2>2 DEF Accepts, AcceptsTransition, Desk
    <3>4. CASE target = "CANCELLED"
      BY <1>0, <2>2, <3>2, <3>3, <3>4, Tables DEF Agree, OutlivesItsPage
    <3>5. CASE target # "CANCELLED"
      <4>1. CanTransition(trip.status, target) <=> <<trip.status, target>> \in StaffManualTransitions
        BY <1>0, <3>1, <3>5, Tables
      <4> QED  BY <2>2, <3>2, <3>3, <4>1 DEF Agree, HeldBack
    <3> QED  BY <3>4, <3>5
  <2>3. ASSUME NEW d \in TripDrivers, NEW c \in TripCars, control = <<"assign", d, c>>
        PROVE  Agree(who, control)
    <3>1. control \in Offers(who) <=>
            trip.status \in {"PENDING", "CLAIMED"} /\ standing[d] = "fit" /\ c \in serviceable
      BY <2>1, <2>3 DEF DeskOffers, Buttons, AssignForm, AssignableDrivers, Only
    <3>2. Accepts(who, control) <=>
            standing[d] = "fit" /\ c \in serviceable /\ CanTransition(trip.status, "ASSIGNED")
      BY <2>3 DEF Accepts, AcceptsAssign
    <3> QED  BY <1>0, <3>1, <3>2, Tables DEF Agree
  <2>4. CASE control = <<"clear">>
    <3>1. control \in Offers(who) <=> trip.flags > 0
      BY <2>1, <2>4 DEF DeskOffers, Buttons, AssignForm, Only
    <3>2. Accepts(who, control)
      BY <2>1, <2>4 DEF Accepts
    <3> QED  BY <1>0, <2>4, <3>1, <3>2 DEF Agree, OutlivesItsPage
  <2>5. CASE control = <<"edit">>
    BY <2>1, <2>5 DEF DeskOffers, Buttons, AssignForm, Only, Accepts, Agree
  <2>6. CASE control = <<"invoice">>
    BY <2>1, <2>6 DEF DeskOffers, Buttons, AssignForm, Only, Accepts, Agree
  <2> QED  BY <1>1, <2>2, <2>3, <2>4, <2>5, <2>6 DEF Controls, Desk, DeskControls
<1>2. CASE who = "customer"
  <2>1. Offers(who) = CustomerOffers
    BY <1>2 DEF Offers, Desk
  <2>2. CASE control = <<"to", "CANCELLED">>
    <3>1. control \in Offers(who) <=> trip.status \in {"PENDING", "OPEN_FOR_CLAIM"}
      BY <2>1, <2>2 DEF CustomerOffers, Only
    <3>2. Accepts(who, control) <=> CanTransition(trip.status, "CANCELLED")
      BY <1>2, <2>2 DEF Accepts, AcceptsTransition
    <3> QED  BY <1>0, <2>2, <3>1, <3>2, Tables DEF Agree, OutlivesItsPage
  <2>3. CASE control = <<"edit">>
    BY <2>1, <2>3 DEF CustomerOffers, Only, Accepts, Agree
  <2>4. CASE control = <<"consent">>
    BY <1>0, <2>1, <2>4 DEF CustomerOffers, Only, Accepts, Agree, OutlivesItsPage
  <2>5. CASE control = <<"pay">>
    BY <2>1, <2>5 DEF CustomerOffers, Only, Accepts, Agree, HeldBack
  <2> QED  BY <1>2, <2>2, <2>3, <2>4, <2>5 DEF Controls, Desk, CustomerControls
<1>3. CASE who \notin {"admin", "customer"}
  <2>1. /\ who \in TripDrivers /\ who \notin Desk /\ who # NoOne
        /\ Offers(who) = DriverOffers(who) /\ ~MayOverride(who)
    BY <1>3, TripScreensAssumption DEF Viewers, Desk, Offers, MayOverride
  <2>2. CASE control = <<"claim">>
    <3>1. trip.status = "OPEN_FOR_CLAIM" => ~IsMyTrip(who)
      BY <1>0, <2>1 DEF NobodyYet, IsMyTrip
    <3>2. control \in Offers(who) <=> trip.status = "OPEN_FOR_CLAIM" /\ standing[who] # "elsewhere"
      <4>1. control[1] = "claim"
        BY <2>2
      <4>2. control \notin Buttons(DriverNextActions)
        BY <4>1, Words
      <4> QED  BY <2>1, <2>2, <3>1, <4>2 DEF DriverOffers, Only
    <3>3. Accepts(who, control) <=> standing[who] = "fit" /\ trip.status = "OPEN_FOR_CLAIM"
      BY <2>2 DEF Accepts, AcceptsClaim
    <3>4. standing[who] \in Standings
      BY <1>0, <2>1
    <3> QED  BY <2>2, <3>2, <3>3, <3>4 DEF Agree, HeldBack, Standings
  <2>3. ASSUME NEW target \in DriverAllowedTargets, control = <<"to", target>>
        PROVE  Agree(who, control)
    <3>1. target \in Statuses /\ target # "CANCELLED"
      BY DEF DriverAllowedTargets, Statuses, LiveStatuses
    <3>2. control \in Offers(who) <=> IsMyTrip(who) /\ <<trip.status, target>> \in DriverNextActions
      <4>1. control[1] = "to"
        BY <2>3
      <4>2. control # <<"claim">>
        BY <4>1
      <4>3. control \in Offers(who) <=> IsMyTrip(who) /\ control \in Buttons(DriverNextActions)
        BY <2>1, <4>2 DEF DriverOffers, Only
      <4> QED  BY <2>3, <3>1, <4>3, Words
    <3>3. Accepts(who, control) <=>
            /\ CanTransition(trip.status, target) /\ IsMyTrip(who)
            /\ target = "COMPLETED" => ~UnderReview
      BY <2>1, <2>3, <3>1 DEF Accepts, AcceptsTransition
    <3>4. CanTransition(trip.status, target) <=> <<trip.status, target>> \in DriverNextActions
      BY <1>0, <3>1, Tables
    <3> QED  BY <2>3, <3>2, <3>3, <3>4 DEF Agree, HeldBack
  <2> QED  BY <1>3, <2>1, <2>2, <2>3 DEF Controls, DriverControls
<1> QED  BY <1>1, <1>2, <1>3

-----------------------------------------------------------------------------
(* The forms of a booking. *)

Questions ==
    [topic : {"fare"}, of : Trips \cup {Unset}] \cup [topic : {"caller"}, of : Phones]
    \cup [topic : {"van"}, of : Pickable] \cup [topic : {"save"}, of : {Unset}]

\* The last question on a topic that is not answered yet.
LastAsked(topic, of) ==
    \E i \in 1..Len(asked) :
        /\ asked[i] = [topic |-> topic, of |-> of]
        /\ \A j \in 1..Len(asked) : i < j => asked[j].topic # topic

FareFits ==
    IF Awaits("fare") THEN LastAsked("fare", field.trip)
    ELSE "fare" \in unsure \/ shown.fare = field.trip

CallerFits ==
    IF Awaits("caller") THEN LastAsked("caller", field.phone)
    ELSE shown.caller \in {Unset, field.phone}

VanFits ==
    IF Awaits("van") THEN LastAsked("van", field.driver)
    ELSE "van" \in unsure \/ PairedWith[field.driver] \in {Unset, field.van}

FormShapes ==
    /\ BookingFormsTypeOK
    /\ asked \in Seq(Questions)
    /\ form = "desk" => timer \in {Unset, field.trip}

FareAsked == (form = "desk" /\ timer = Unset) \/ (form = "customer" /\ stage = 2)

\* What a form shows, or will show by the last question, is of what is in it.
FormInv ==
    /\ FormShapes
    /\ FareAsked /\ field.trip # Unset => FareFits
    /\ form = "desk" /\ field.phone # Unset => CallerFits
    /\ form = "assign" /\ field.driver # Unset /\ ~byHand => VanFits

\* A question comes last and leaves those on other topics alone.
LEMMA Asking ==
    ASSUME asked \in Seq(Questions), NEW q \in Questions, asked' = Append(asked, q)
    PROVE  /\ asked' \in Seq(Questions) /\ Len(asked') = Len(asked) + 1
           /\ Awaits(q.topic)' /\ LastAsked(q.topic, q.of)'
           /\ \A u : u # q.topic =>
                /\ Awaits(u)' <=> Awaits(u)
                /\ \A y : LastAsked(u, y) => LastAsked(u, y)'
<1>1. /\ asked' \in Seq(Questions) /\ Len(asked') = Len(asked) + 1 /\ Len(asked) \in Nat
      /\ \A i \in 1..Len(asked) : asked'[i] = asked[i]
      /\ asked'[Len(asked) + 1] = q
  OBVIOUS
<1>2. q = [topic |-> q.topic, of |-> q.of]
  BY DEF Questions
<1>3. Len(asked) + 1 \in 1..Len(asked')
  BY <1>1
<1>4. Awaits(q.topic)'
  BY <1>1, <1>3 DEF Awaits
<1>5. LastAsked(q.topic, q.of)'
  <2>1. \A j \in 1..Len(asked') : ~(Len(asked) + 1 < j)
    BY <1>1
  <2> QED  BY <1>1, <1>2, <1>3, <2>1 DEF LastAsked
<1>6. ASSUME NEW u, u # q.topic
      PROVE  /\ Awaits(u)' <=> Awaits(u)
             /\ \A y : LastAsked(u, y) => LastAsked(u, y)'
  <2>1. \A i \in 1..Len(asked') : i \in 1..Len(asked) \/ i = Len(asked) + 1
    BY <1>1
  <2>2. \A i \in 1..Len(asked) : i \in 1..Len(asked')
    BY <1>1
  <2> QED  BY <1>1, <1>6, <2>1, <2>2 DEF Awaits, LastAsked
<1> QED  BY <1>1, <1>4, <1>5, <1>6

\* The first is answered: it was the last of its topic, or the last is still there.
LEMMA Answering ==
    ASSUME asked \in Seq(Questions), asked # <<>>, asked' = Tail(asked)
    PROVE  /\ asked' \in Seq(Questions) /\ Len(asked') = Len(asked) - 1
           /\ Head(asked) \in Questions /\ Awaits(Head(asked).topic)
           /\ \A u : u # Head(asked).topic =>
                /\ Awaits(u)' <=> Awaits(u)
                /\ \A y : LastAsked(u, y) => LastAsked(u, y)'
           /\ \A u, y : u = Head(asked).topic /\ LastAsked(u, y) =>
                IF Awaits(u)' THEN LastAsked(u, y)' ELSE Head(asked).of = y
<1>1. /\ asked' \in Seq(Questions) /\ Len(asked') = Len(asked) - 1 /\ Len(asked) \in Nat \ {0}
      /\ \A i \in 1..Len(asked') : asked'[i] = asked[i + 1]
      /\ Head(asked) = asked[1] /\ Head(asked) \in Questions
  OBVIOUS
<1>2. \A i \in 1..Len(asked') : i + 1 \in 1..Len(asked)
  BY <1>1
<1>3. \A i \in 1..Len(asked) : i = 1 \/ (i - 1 \in 1..Len(asked') /\ asked'[i - 1] = asked[i])
  <2>1. ASSUME NEW i \in 1..Len(asked), i # 1
        PROVE  i - 1 \in 1..Len(asked') /\ asked'[i - 1] = asked[i]
    <3>1. i - 1 \in 1..Len(asked') /\ (i - 1) + 1 = i
      BY <1>1, <2>1
    <3> QED  BY <1>1, <3>1
  <2> QED  BY <2>1
<1>4. 1 \in 1..Len(asked)
  BY <1>1
<1>5. Awaits(Head(asked).topic)
  BY <1>1, <1>4 DEF Awaits
<1>6. ASSUME NEW u, NEW y, NEW i \in 1..Len(asked), i # 1,
             asked[i] = [topic |-> u, of |-> y],
             \A j \in 1..Len(asked) : i < j => asked[j].topic # u
      PROVE  LastAsked(u, y)'
  <2>1. i - 1 \in 1..Len(asked') /\ asked'[i - 1] = [topic |-> u, of |-> y]
    BY <1>3, <1>6
  <2>2. ASSUME NEW j \in 1..Len(asked'), i - 1 < j PROVE asked'[j].topic # u
    <3>1. j + 1 \in 1..Len(asked) /\ i < j + 1 /\ asked'[j] = asked[j + 1]
      BY <1>1, <1>2, <2>2
    <3> QED  BY <1>6, <3>1
  <2> QED  BY <2>1, <2>2 DEF LastAsked
<1>7. ASSUME NEW u, u # Head(asked).topic
      PROVE  /\ Awaits(u)' <=> Awaits(u)
             /\ \A y : LastAsked(u, y) => LastAsked(u, y)'
  <2>1. ASSUME NEW i \in 1..Len(asked), asked[i].topic = u PROVE Awaits(u)'
    <3>1. i # 1
      BY <1>1, <1>7, <2>1
    <3> QED  BY <1>3, <2>1, <3>1 DEF Awaits
  <2>2. ASSUME NEW i \in 1..Len(asked'), asked'[i].topic = u PROVE Awaits(u)
    BY <1>1, <1>2, <2>2 DEF Awaits
  <2>3. ASSUME NEW y, LastAsked(u, y) PROVE LastAsked(u, y)'
    <3>1. PICK i \in 1..Len(asked) :
            /\ asked[i] = [topic |-> u, of |-> y]
            /\ \A j \in 1..Len(asked) : i < j => asked[j].topic # u
      BY <2>3 DEF LastAsked
    <3>2. i # 1
      BY <1>1, <1>7, <3>1
    <3> QED  BY <1>6, <3>1, <3>2
  <2> QED  BY <2>1, <2>2, <2>3 DEF Awaits
<1>8. ASSUME NEW u, NEW y, u = Head(asked).topic, LastAsked(u, y)
      PROVE  IF Awaits(u)' THEN LastAsked(u, y)' ELSE Head(asked).of = y
  <2>2. PICK i \in 1..Len(asked) :
          /\ asked[i] = [topic |-> u, of |-> y]
          /\ \A j \in 1..Len(asked) : i < j => asked[j].topic # u
    BY <1>8 DEF LastAsked
  <2>3. CASE i = 1
    <3>1. Head(asked).of = y
      BY <1>1, <2>2, <2>3
    <3>2. ASSUME NEW j \in 1..Len(asked') PROVE asked'[j].topic # u
      <4>1. j + 1 \in 1..Len(asked) /\ 1 < j + 1 /\ asked'[j] = asked[j + 1]
        BY <1>1, <1>2
      <4> QED  BY <2>2, <2>3, <4>1
    <3> QED  BY <3>1, <3>2 DEF Awaits
  <2>4. CASE i # 1
    <3>1. i - 1 \in 1..Len(asked') /\ asked'[i - 1].topic = u
      BY <1>3, <2>2, <2>4
    <3>2. LastAsked(u, y)'
      BY <1>6, <2>2, <2>4
    <3> QED  BY <3>1, <3>2 DEF Awaits
  <2> QED  BY <2>3, <2>4
<1> QED  BY <1>1, <1>5, <1>7, <1>8

\* Questions are what the type invariant says of them.
LEMMA QuestionsFit ==
    ASSUME NEW s \in Seq(Questions)
    PROVE  s \in Seq([topic : Topics, of : Trips \cup Phones \cup Pickable \cup {Unset}])
<1>1. Questions \subseteq [topic : Topics, of : Trips \cup Phones \cup Pickable \cup {Unset}]
  BY DEF Questions, Topics
<1> QED  BY <1>1, SeqMonotonic

\* A form that asks nothing yet.
LEMMA BookingFormsInitEstablishes == BookingFormsInit => FormInv
<1> SUFFICES ASSUME BookingFormsInit PROVE FormInv
  OBVIOUS
<1>1. /\ form \in {"desk", "customer", "assign"}
      /\ field \in [trip : {Unset}, phone : {Unset}, driver : Pickable \cup {Unset}, van : Vans \cup {Unset}]
      /\ stage = 0 /\ timer = Unset /\ asked = <<>>
      /\ shown = [fare |-> Unset, caller |-> Unset]
      /\ unsure = {} /\ byHand = TRUE
  BY DEF BookingFormsInit
<1>2. asked \in Seq(Questions) /\ Len(asked) = 0
  BY <1>1
<1>3. FormShapes
  BY <1>1, <1>2, QuestionsFit, BookingFormsAssumption DEF FormShapes, BookingFormsTypeOK
<1> QED  BY <1>1, <1>3 DEF FormInv

\* The shapes, named one by one for the steps below.
LEMMA FieldsAndAnswers ==
    ASSUME FormInv
    PROVE  /\ field \in [trip : Trips \cup {Unset}, phone : Phones \cup {Unset},
                         driver : Pickable \cup {Unset}, van : Vans \cup {Unset}]
           /\ shown \in [fare : Trips \cup {Unset}, caller : KnownPhones \cup {Unset}]
           /\ asked \in Seq(Questions) /\ Len(asked) <= MaxAsked /\ Len(asked) \in Nat
           /\ form \in {"desk", "customer", "assign", "left"}
           /\ stage \in 0..2 /\ timer \in Trips \cup {Unset}
           /\ unsure \subseteq {"fare", "van"} /\ byHand \in BOOLEAN
           /\ form = "desk" => timer \in {Unset, field.trip}
BY DEF FormInv, FormShapes, BookingFormsTypeOK

\* The shapes of a step are all that has to be shown of it first.
FormStep ==
    /\ field' \in [trip : Trips \cup {Unset}, phone : Phones \cup {Unset},
                   driver : Pickable \cup {Unset}, van : Vans \cup {Unset}]
    /\ shown' \in [fare : Trips \cup {Unset}, caller : KnownPhones \cup {Unset}]
    /\ asked' \in Seq(Questions) /\ Len(asked') <= MaxAsked
    /\ form' \in {"desk", "customer", "assign", "left"}
    /\ stage' \in 0..2 /\ timer' \in Trips \cup {Unset}
    /\ unsure' \subseteq {"fare", "van"} /\ byHand' \in BOOLEAN
    /\ form' = "desk" => timer' \in {Unset, field'.trip}

\* A step of those shapes keeps them.
LEMMA FormSteps ==
    ASSUME FormStep
    PROVE  FormShapes'
BY QuestionsFit DEF FormStep, FormShapes, BookingFormsTypeOK

\* Steps that ask.
LEMMA AskingSteps ==
    ASSUME FormInv, NEW q \in Questions, MayAsk, asked' = Append(asked, q)
    PROVE  /\ asked' \in Seq(Questions) /\ Len(asked') <= MaxAsked
           /\ Awaits(q.topic)' /\ LastAsked(q.topic, q.of)'
           /\ \A u : u # q.topic =>
                /\ Awaits(u)' <=> Awaits(u)
                /\ \A y : LastAsked(u, y) => LastAsked(u, y)'
<1>1. asked \in Seq(Questions) /\ Len(asked) \in Nat /\ Len(asked) < MaxAsked
  BY FieldsAndAnswers DEF MayAsk
<1>2. MaxAsked \in Nat
  BY BookingFormsAssumption
<1>3. /\ asked' \in Seq(Questions) /\ Len(asked') = Len(asked) + 1
      /\ Awaits(q.topic)' /\ LastAsked(q.topic, q.of)'
      /\ \A u : u # q.topic =>
           /\ Awaits(u)' <=> Awaits(u)
           /\ \A y : LastAsked(u, y) => LastAsked(u, y)'
  BY <1>1, Asking
<1>4. Len(asked') <= MaxAsked
  BY <1>1, <1>2, <1>3
<1> QED  BY <1>3, <1>4

\* The steps of the desk's form: the trip, its timer, the phone.
LEMMA DeskPreserves ==
    ASSUME FormInv
    PROVE  /\ (\E journey \in Trips \cup {Unset} : DeskEditsTrip(journey)) => FormInv'
           /\ TimerFires => FormInv'
           /\ (\E phone \in Phones \cup {Unset} : DeskEntersPhone(phone)) => FormInv'
<1> USE FieldsAndAnswers
<1>1. ASSUME NEW journey \in Trips \cup {Unset}, DeskEditsTrip(journey) PROVE FormInv'
  <2>1. /\ form = "desk" /\ field' = [field EXCEPT !.trip = journey] /\ timer' = journey
        /\ UNCHANGED <<form, stage, asked, shown, unsure, byHand>>
    BY <1>1 DEF DeskEditsTrip
  <2>2. FormStep
    BY <2>1 DEF FormStep
  <2>3. field'.trip = journey /\ field'.phone = field.phone
    BY <2>1
  <2>4. form' = "desk" /\ field'.phone # Unset => CallerFits'
    BY <2>1, <2>3 DEF FormInv, CallerFits, Awaits, LastAsked
  <2> QED  BY <2>1, <2>2, <2>3, <2>4, FormSteps DEF FormInv, FareAsked
<1>2. ASSUME TimerFires PROVE FormInv'
  <2>1. /\ timer # Unset /\ form = "desk" /\ MayAsk
        /\ asked' = Append(asked, [topic |-> "fare", of |-> timer]) /\ timer' = Unset
        /\ UNCHANGED <<form, field, stage, shown, unsure, byHand>>
    BY <1>2 DEF TimerFires, Ask
  <2>2. PICK q : q = [topic |-> "fare", of |-> timer]
    OBVIOUS
  <2>3. q \in Questions /\ q.topic = "fare" /\ q.of = field.trip
    BY <2>1, <2>2 DEF Questions
  <2>4. /\ asked' \in Seq(Questions) /\ Len(asked') <= MaxAsked
        /\ Awaits("fare")' /\ LastAsked("fare", q.of)'
        /\ Awaits("caller")' <=> Awaits("caller")
        /\ \A y : LastAsked("caller", y) => LastAsked("caller", y)'
    BY <2>1, <2>2, <2>3, AskingSteps
  <2>5. FormStep
    BY <2>1, <2>4 DEF FormStep
  <2>6. FareFits'
    BY <2>1, <2>3, <2>4 DEF FareFits
  <2>7. form' = "desk" /\ field'.phone # Unset => CallerFits'
    BY <2>1, <2>4 DEF FormInv, CallerFits
  <2> QED  BY <2>1, <2>5, <2>6, <2>7, FormSteps DEF FormInv
<1>3. ASSUME NEW phone \in Phones \cup {Unset}, DeskEntersPhone(phone) PROVE FormInv'
  <2>1. /\ form = "desk" /\ MayAsk /\ field' = [field EXCEPT !.phone = phone]
        /\ UNCHANGED <<form, stage, timer, unsure, byHand>>
    BY <1>3 DEF DeskEntersPhone
  <2>2. field'.phone = phone /\ field'.trip = field.trip
    BY <2>1
  <2>3. CASE phone = Unset
    <3>1. shown' = [shown EXCEPT !.caller = Unset] /\ asked' = asked
      BY <1>3, <2>3 DEF DeskEntersPhone
    <3>2. FormStep
      BY <2>1, <3>1 DEF FormStep
    <3>3. FareAsked' /\ field'.trip # Unset => FareFits'
      BY <2>1, <2>2, <3>1 DEF FormInv, FareAsked, FareFits, Awaits, LastAsked
    <3> QED  BY <2>1, <2>2, <2>3, <3>2, <3>3, FormSteps DEF FormInv
  <2>4. CASE phone # Unset
    <3>1. asked' = Append(asked, [topic |-> "caller", of |-> phone]) /\ shown' = shown
      BY <1>3, <2>4 DEF DeskEntersPhone, Ask
    <3>2. PICK q : q = [topic |-> "caller", of |-> phone]
      OBVIOUS
    <3>3. q \in Questions /\ q.topic = "caller" /\ q.of = phone
      BY <2>4, <3>2 DEF Questions
    <3>4. /\ asked' \in Seq(Questions) /\ Len(asked') <= MaxAsked
          /\ Awaits("caller")' /\ LastAsked("caller", q.of)'
          /\ Awaits("fare")' <=> Awaits("fare")
          /\ \A y : LastAsked("fare", y) => LastAsked("fare", y)'
      BY <2>1, <3>1, <3>2, <3>3, AskingSteps
    <3>5. FormStep
      BY <2>1, <3>1, <3>4 DEF FormStep
    <3>6. CallerFits'
      BY <2>2, <3>3, <3>4 DEF CallerFits
    <3>7. FareAsked' /\ field'.trip # Unset => FareFits'
      BY <2>1, <2>2, <3>1, <3>4 DEF FormInv, FareAsked, FareFits
    <3> QED  BY <2>1, <3>5, <3>6, <3>7, FormSteps DEF FormInv
  <2> QED  BY <2>3, <2>4
<1> QED  BY <1>1, <1>2, <1>3

\* The steps of the customer's form: the review asks anew.
LEMMA CustomerPreserves ==
    ASSUME FormInv
    PROVE  /\ (\E journey \in Trips : EditsTrip(journey)) => FormInv'
           /\ GoNext => FormInv'
           /\ GoBack => FormInv'
<1> USE FieldsAndAnswers
<1>1. ASSUME NEW journey \in Trips, EditsTrip(journey) PROVE FormInv'
  <2>1. /\ form = "customer" /\ stage < 2 /\ field' = [field EXCEPT !.trip = journey]
        /\ UNCHANGED <<form, stage, timer, asked, shown, unsure, byHand>>
    BY <1>1 DEF EditsTrip
  <2>2. FormStep
    BY <2>1 DEF FormStep
  <2> QED  BY <2>1, <2>2, FormSteps DEF FormInv, FareAsked
<1>2. ASSUME GoNext PROVE FormInv'
  <2>1. /\ form = "customer" /\ stage < 2 /\ stage' = stage + 1
        /\ UNCHANGED <<form, field, timer, shown, unsure, byHand>>
    BY <1>2 DEF GoNext
  <2>2. CASE stage = 1
    <3>1. MayAsk /\ asked' = Append(asked, [topic |-> "fare", of |-> field.trip])
      BY <1>2, <2>2 DEF GoNext, Ask
    <3>2. PICK q : q = [topic |-> "fare", of |-> field.trip]
      OBVIOUS
    <3>3. q \in Questions /\ q.topic = "fare" /\ q.of = field.trip
      BY <3>2 DEF Questions
    <3>4. /\ asked' \in Seq(Questions) /\ Len(asked') <= MaxAsked
          /\ Awaits("fare")' /\ LastAsked("fare", q.of)'
      BY <3>1, <3>2, <3>3, AskingSteps
    <3>5. FormStep
      BY <2>1, <2>2, <3>4 DEF FormStep
    <3>6. FareFits'
      BY <2>1, <3>3, <3>4 DEF FareFits
    <3> QED  BY <2>1, <3>5, <3>6, FormSteps DEF FormInv
  <2>3. CASE stage # 1
    <3>1. asked' = asked /\ stage' = 1
      BY <1>2, <2>1, <2>3 DEF GoNext
    <3>2. FormStep
      BY <2>1, <3>1 DEF FormStep
    <3> QED  BY <2>1, <3>1, <3>2, FormSteps DEF FormInv, FareAsked
  <2> QED  BY <2>2, <2>3
<1>3. ASSUME GoBack PROVE FormInv'
  <2>1. /\ form = "customer" /\ stage' \in 0..2 /\ stage' # 2
        /\ UNCHANGED <<form, field, timer, asked, shown, unsure, byHand>>
    BY <1>3 DEF GoBack
  <2>2. FormStep
    BY <2>1 DEF FormStep
  <2> QED  BY <2>1, <2>2, FormSteps DEF FormInv, FareAsked
<1> QED  BY <1>1, <1>2, <1>3

\* One question less, whichever.
LEMMA Forgetting ==
    ASSUME FormInv, NEW others \in WithoutVan
    PROVE  others \in Seq(Questions) /\ Len(others) <= MaxAsked
<1>1. asked \in Seq(Questions) /\ Len(asked) \in Nat /\ Len(asked) <= MaxAsked /\ MaxAsked \in Nat
  BY FieldsAndAnswers, BookingFormsAssumption
<1>2. CASE others = asked
  BY <1>1, <1>2
<1>3. CASE others # asked
  <2>1. PICK i \in 1..Len(asked) : others = SubSeq(asked, 1, i - 1) \o SubSeq(asked, i + 1, Len(asked))
    BY <1>3 DEF WithoutVan, RemoveAt
  <2>2. /\ SubSeq(asked, 1, i - 1) \in Seq(Questions) /\ Len(SubSeq(asked, 1, i - 1)) = i - 1
    BY <1>1
  <2>3. /\ SubSeq(asked, i + 1, Len(asked)) \in Seq(Questions)
        /\ Len(SubSeq(asked, i + 1, Len(asked))) = Len(asked) - i
    BY <1>1
  <2>4. PICK front : front = SubSeq(asked, 1, i - 1)
    OBVIOUS
  <2>5. PICK back : back = SubSeq(asked, i + 1, Len(asked))
    OBVIOUS
  <2>6. /\ front \in Seq(Questions) /\ Len(front) = i - 1
        /\ back \in Seq(Questions) /\ Len(back) = Len(asked) - i
        /\ others = front \o back
    BY <2>1, <2>2, <2>3, <2>4, <2>5
  <2>7. others \in Seq(Questions) /\ Len(others) = Len(front) + Len(back)
    BY <2>6, ConcatProperties
  <2>8. i \in Int /\ Len(others) = (i - 1) + (Len(asked) - i)
    BY <2>6, <2>7
  <2>9. Len(others) <= MaxAsked
    BY <1>1, <2>8
  <2> QED  BY <2>7, <2>9
<1> QED  BY <1>2, <1>3

\* The steps of the form that assigns: another driver forgets the question.
LEMMA AssignPreserves ==
    ASSUME FormInv
    PROVE  /\ (\E driver \in Pickable \cup {Unset} : PickDriver(driver)) => FormInv'
           /\ (\E van \in Vans : PickVan(van)) => FormInv'
<1> USE FieldsAndAnswers
<1>1. ASSUME NEW driver \in Pickable \cup {Unset}, PickDriver(driver) PROVE FormInv'
  <2>1. /\ form = "assign" /\ field' = [field EXCEPT !.driver = driver]
        /\ Len(asked') <= MaxAsked /\ byHand' = FALSE
        /\ UNCHANGED <<form, stage, timer, shown, unsure>>
    BY <1>1 DEF PickDriver
  <2>2. PICK others \in WithoutVan :
          asked' = IF driver = Unset THEN others
                   ELSE Append(others, [topic |-> "van", of |-> driver])
    BY <1>1 DEF PickDriver
  <2>3. others \in Seq(Questions)
    BY Forgetting
  <2>4. field'.driver = driver
    BY <2>1
  <2>5. CASE driver = Unset
    <3>1. FormStep
      BY <2>1, <2>2, <2>3, <2>5 DEF FormStep
    <3> QED  BY <2>1, <2>4, <2>5, <3>1, FormSteps DEF FormInv, FareAsked
  <2>6. CASE driver # Unset
    <3>1. PICK q : q = [topic |-> "van", of |-> driver]
      OBVIOUS
    <3>2. q \in Questions /\ q.topic = "van" /\ q.of = driver
      BY <2>6, <3>1 DEF Questions
    <3>3. asked' = Append(others, q)
      BY <2>2, <2>6, <3>1
    <3>4. /\ asked' \in Seq(Questions) /\ Len(asked') = Len(others) + 1 /\ Len(others) \in Nat
          /\ asked'[Len(others) + 1] = q
      BY <2>3, <3>2, <3>3
    <3>5. Len(others) + 1 \in 1..Len(asked') /\ \A j \in 1..Len(asked') : ~(Len(others) + 1 < j)
      BY <3>4
    <3>6. LastAsked("van", driver)'
      BY <3>1, <3>4, <3>5 DEF LastAsked
    <3>7. Awaits("van")'
      BY <3>2, <3>4, <3>5 DEF Awaits
    <3>8. VanFits'
      BY <2>4, <3>6, <3>7 DEF VanFits
    <3>9. FormStep
      BY <2>1, <3>4 DEF FormStep
    <3> QED  BY <2>1, <3>8, <3>9, FormSteps DEF FormInv, FareAsked
  <2> QED  BY <2>5, <2>6
<1>2. ASSUME NEW van \in Vans, PickVan(van) PROVE FormInv'
  <2>1. /\ form = "assign" /\ field' = [field EXCEPT !.van = van] /\ byHand' = TRUE
        /\ UNCHANGED <<form, stage, timer, asked, shown, unsure>>
    BY <1>2 DEF PickVan
  <2>2. FormStep
    BY <2>1 DEF FormStep
  <2> QED  BY <2>1, <2>2, FormSteps DEF FormInv, FareAsked
<1> QED  BY <1>1, <1>2

\* Steps that answer: what they leave alone still fits.
LEMMA AnsweringSteps ==
    ASSUME FormInv, asked # <<>>, asked' = Tail(asked)
    PROVE  /\ asked' \in Seq(Questions) /\ Len(asked') <= MaxAsked
           /\ Head(asked) \in Questions /\ Awaits(Head(asked).topic)
           /\ \A u : u # Head(asked).topic =>
                /\ Awaits(u)' <=> Awaits(u)
                /\ \A y : LastAsked(u, y) => LastAsked(u, y)'
           /\ \A u, y : u = Head(asked).topic /\ LastAsked(u, y) =>
                IF Awaits(u)' THEN LastAsked(u, y)' ELSE Head(asked).of = y
<1>1. /\ asked \in Seq(Questions) /\ Len(asked) \in Nat /\ Len(asked) <= MaxAsked
      /\ MaxAsked \in Nat
  BY FieldsAndAnswers, BookingFormsAssumption
<1>2. /\ asked' \in Seq(Questions) /\ Len(asked') = Len(asked) - 1
      /\ Head(asked) \in Questions /\ Awaits(Head(asked).topic)
      /\ \A u : u # Head(asked).topic =>
           /\ Awaits(u)' <=> Awaits(u)
           /\ \A y : LastAsked(u, y) => LastAsked(u, y)'
      /\ \A u, y : u = Head(asked).topic /\ LastAsked(u, y) =>
           IF Awaits(u)' THEN LastAsked(u, y)' ELSE Head(asked).of = y
  BY <1>1, Answering
<1> QED  BY <1>1, <1>2

\* Answers and failures: the first question is taken away and shown.
LEMMA AnswersPreserve ==
    ASSUME FormInv
    PROVE  /\ FareComes => FormInv'
           /\ CallerComes => FormInv'
           /\ VanComes => FormInv'
           /\ Saved \/ NotSaved => FormInv'
<1> USE FieldsAndAnswers
<1>1. ASSUME FareComes PROVE FormInv'
  <2>1. /\ asked # <<>> /\ Head(asked).topic = "fare" /\ asked' = Tail(asked)
        /\ \/ shown' = [shown EXCEPT !.fare = Head(asked).of] /\ unsure' = unsure \ {"fare"}
           \/ unsure' = unsure \cup {"fare"} /\ shown' = shown
        /\ UNCHANGED <<form, field, stage, timer, byHand>>
    BY <1>1 DEF FareComes, Answered
  <2>2. Head(asked).of \in Trips \cup {Unset}
    BY <2>1, AnsweringSteps DEF Questions
  <2>3. FormStep
    BY <2>1, <2>2, AnsweringSteps DEF FormStep
  <2>4. ASSUME FareAsked', field'.trip # Unset PROVE FareFits'
    <3>1. FareFits /\ Awaits("fare")
      BY <2>1, <2>4, AnsweringSteps DEF FormInv, FareAsked
    <3>2. LastAsked("fare", field.trip)
      BY <3>1 DEF FareFits
    <3>3. IF Awaits("fare")' THEN LastAsked("fare", field.trip)' ELSE Head(asked).of = field.trip
      <4>1. \A y : LastAsked("fare", y) => IF Awaits("fare")' THEN LastAsked("fare", y)' ELSE Head(asked).of = y
        BY <2>1, AnsweringSteps
      <4>2. PICK y : y = field.trip
        OBVIOUS
      <4>3. field'.trip = y
        BY <2>1, <4>2
      <4> QED  BY <3>2, <4>1, <4>2, <4>3
    <3>4. Head(asked).of = field.trip => "fare" \in unsure' \/ shown'.fare = field'.trip
      BY <2>1
    <3> QED  BY <2>1, <3>3, <3>4 DEF FareFits
  <2>5. form' = "desk" /\ field'.phone # Unset => CallerFits'
    <3>1. shown'.caller = shown.caller
      BY <2>1
    <3>2. Awaits("caller")' <=> Awaits("caller")
      BY <2>1, AnsweringSteps
    <3>3. \A y : LastAsked("caller", y) => LastAsked("caller", y)'
      BY <2>1, AnsweringSteps
    <3> QED  BY <2>1, <3>1, <3>2, <3>3 DEF FormInv, CallerFits
  <2>6. form' = "assign" /\ field'.driver # Unset /\ ~byHand' => VanFits'
    <3>1. "van" \in unsure => "van" \in unsure'
      BY <2>1
    <3>2. Awaits("van")' <=> Awaits("van")
      BY <2>1, AnsweringSteps
    <3>3. \A y : LastAsked("van", y) => LastAsked("van", y)'
      BY <2>1, AnsweringSteps
    <3> QED  BY <2>1, <3>1, <3>2, <3>3 DEF FormInv, VanFits
  <2> QED  BY <2>3, <2>4, <2>5, <2>6, FormSteps DEF FormInv
<1>2. ASSUME CallerComes PROVE FormInv'
  <2>1. /\ asked # <<>> /\ Head(asked).topic = "caller" /\ asked' = Tail(asked)
        /\ UNCHANGED <<form, field, stage, timer, unsure, byHand>>
    BY <1>2 DEF CallerComes, Answered
  <2>2. PICK found \in {Unset} \cup ({Head(asked).of} \cap KnownPhones) :
          shown' = [shown EXCEPT !.caller = found]
    BY <1>2 DEF CallerComes
  <2>3. FormStep /\ shown'.caller = found /\ shown'.fare = shown.fare
    BY <2>1, <2>2, AnsweringSteps DEF FormStep
  <2>4. FareAsked' /\ field'.trip # Unset => FareFits'
    <3>1. Awaits("fare")' <=> Awaits("fare")
      BY <2>1, AnsweringSteps
    <3>2. \A y : LastAsked("fare", y) => LastAsked("fare", y)'
      BY <2>1, AnsweringSteps
    <3> QED  BY <2>1, <2>3, <3>1, <3>2 DEF FormInv, FareAsked, FareFits
  <2>5. ASSUME form' = "desk", field'.phone # Unset PROVE CallerFits'
    <3>1. CallerFits /\ Awaits("caller")
      BY <2>1, <2>5, AnsweringSteps DEF FormInv
    <3>2. LastAsked("caller", field.phone)
      BY <3>1 DEF CallerFits
    <3>3. \A y : LastAsked("caller", y) => IF Awaits("caller")' THEN LastAsked("caller", y)' ELSE Head(asked).of = y
      BY <2>1, AnsweringSteps
    <3>4. PICK y : y = field.phone /\ y = field'.phone
      BY <2>1
    <3>5. Head(asked).of = y => shown'.caller \in {Unset, y}
      BY <2>2, <2>3
    <3> QED  BY <3>2, <3>3, <3>4, <3>5 DEF CallerFits
  <2>6. form' = "assign" /\ field'.driver # Unset /\ ~byHand' => VanFits'
    <3>1. Awaits("van")' <=> Awaits("van")
      BY <2>1, AnsweringSteps
    <3>2. \A y : LastAsked("van", y) => LastAsked("van", y)'
      BY <2>1, AnsweringSteps
    <3> QED  BY <2>1, <3>1, <3>2 DEF FormInv, VanFits
  <2> QED  BY <2>3, <2>4, <2>5, <2>6, FormSteps DEF FormInv
<1>3. ASSUME VanComes PROVE FormInv'
  <2>1. PICK van : van = PairedWith[Head(asked).of]
    OBVIOUS
  <2>2. /\ asked # <<>> /\ Head(asked).topic = "van" /\ asked' = Tail(asked)
        /\ \/ /\ field' = IF van = Unset THEN field ELSE [field EXCEPT !.van = van]
              /\ unsure' = unsure \ {"van"}
           \/ unsure' = unsure \cup {"van"} /\ field' = field
        /\ UNCHANGED <<form, stage, timer, shown, byHand>>
    BY <1>3, <2>1 DEF VanComes, Answered
  <2>3. van \in Vans \cup {Unset}
    BY <2>1, <2>2, AnsweringSteps, BookingFormsAssumption DEF Questions
  <2>4. field'.trip = field.trip /\ field'.phone = field.phone /\ field'.driver = field.driver
    BY <2>2
  <2>5. FormStep
    BY <2>2, <2>3, <2>4, AnsweringSteps DEF FormStep
  <2>6. FareAsked' /\ field'.trip # Unset => FareFits'
    <3>1. Awaits("fare")' <=> Awaits("fare")
      BY <2>2, AnsweringSteps
    <3>2. \A y : LastAsked("fare", y) => LastAsked("fare", y)'
      BY <2>2, AnsweringSteps
    <3>3. "fare" \in unsure => "fare" \in unsure'
      BY <2>2
    <3> QED  BY <2>2, <2>4, <3>1, <3>2, <3>3 DEF FormInv, FareAsked, FareFits
  <2>7. form' = "desk" /\ field'.phone # Unset => CallerFits'
    <3>1. Awaits("caller")' <=> Awaits("caller")
      BY <2>2, AnsweringSteps
    <3>2. \A y : LastAsked("caller", y) => LastAsked("caller", y)'
      BY <2>2, AnsweringSteps
    <3> QED  BY <2>2, <2>4, <3>1, <3>2 DEF FormInv, CallerFits
  <2>8. ASSUME form' = "assign", field'.driver # Unset, ~byHand' PROVE VanFits'
    <3>1. VanFits /\ Awaits("van")
      BY <2>2, <2>4, <2>8, AnsweringSteps DEF FormInv
    <3>2. LastAsked("van", field.driver)
      BY <3>1 DEF VanFits
    <3>3. \A y : LastAsked("van", y) => IF Awaits("van")' THEN LastAsked("van", y)' ELSE Head(asked).of = y
      BY <2>2, AnsweringSteps
    <3>4. PICK y : y = field.driver /\ y = field'.driver
      BY <2>4
    <3>5. Head(asked).of = y => "van" \in unsure' \/ PairedWith[y] \in {Unset, field'.van}
      BY <2>1, <2>2
    <3> QED  BY <3>2, <3>3, <3>4, <3>5 DEF VanFits
  <2> QED  BY <2>5, <2>6, <2>7, <2>8, FormSteps DEF FormInv
<1>4. ASSUME Saved \/ NotSaved PROVE FormInv'
  <2>1. /\ asked # <<>> /\ Head(asked).topic = "save" /\ asked' = Tail(asked)
        /\ form' \in {form, "left"} /\ stage' \in {stage, 1}
        /\ UNCHANGED <<field, timer, shown, unsure, byHand>>
    BY <1>4 DEF Saved, NotSaved, Answered
  <2>2. FormStep
    BY <2>1, AnsweringSteps DEF FormStep
  <2>3. \A u : u \in {"fare", "caller", "van"} =>
          /\ Awaits(u)' <=> Awaits(u)
          /\ \A y : LastAsked(u, y) => LastAsked(u, y)'
    BY <2>1, AnsweringSteps
  <2>4. FareAsked' /\ field'.trip # Unset => FareFits'
    <3>1. FareAsked' => FareAsked
      BY <2>1 DEF FareAsked
    <3> QED  BY <2>1, <2>3, <3>1 DEF FormInv, FareFits
  <2>5. form' = "desk" /\ field'.phone # Unset => CallerFits'
    BY <2>1, <2>3 DEF FormInv, CallerFits
  <2>6. form' = "assign" /\ field'.driver # Unset /\ ~byHand' => VanFits'
    BY <2>1, <2>3 DEF FormInv, VanFits
  <2> QED  BY <2>2, <2>4, <2>5, <2>6, FormSteps DEF FormInv
<1> QED  BY <1>1, <1>2, <1>3, <1>4

\* One lemma per form above, and a stutter.
LEMMA BookingFormsNextPreserves ==
    ASSUME FormInv, [BookingFormsNext]_bookingFormsVars
    PROVE  FormInv'
<1> USE FieldsAndAnswers
<1>1. ASSUME Submit PROVE FormInv'
  <2>1. /\ MayAsk /\ asked' = Append(asked, [topic |-> "save", of |-> Unset])
        /\ UNCHANGED <<form, field, stage, timer, shown, unsure, byHand>>
    BY <1>1 DEF Submit, Ask
  <2>2. PICK q : q = [topic |-> "save", of |-> Unset]
    OBVIOUS
  <2>3. q \in Questions /\ q.topic = "save"
    BY <2>2 DEF Questions
  <2>4. /\ asked' \in Seq(Questions) /\ Len(asked') <= MaxAsked
        /\ \A u : u \in {"fare", "caller", "van"} =>
             /\ Awaits(u)' <=> Awaits(u)
             /\ \A y : LastAsked(u, y) => LastAsked(u, y)'
    BY <2>1, <2>2, <2>3, AskingSteps
  <2>5. FormStep
    BY <2>1, <2>4 DEF FormStep
  <2>6. FareAsked' /\ field'.trip # Unset => FareFits'
    BY <2>1, <2>4 DEF FormInv, FareAsked, FareFits
  <2>7. form' = "desk" /\ field'.phone # Unset => CallerFits'
    BY <2>1, <2>4 DEF FormInv, CallerFits
  <2>8. form' = "assign" /\ field'.driver # Unset /\ ~byHand' => VanFits'
    BY <2>1, <2>4 DEF FormInv, VanFits
  <2> QED  BY <2>5, <2>6, <2>7, <2>8, FormSteps DEF FormInv
<1>2. CASE UNCHANGED bookingFormsVars
  <2>1. UNCHANGED <<form, field, stage, timer, asked, shown, unsure, byHand>>
    BY <1>2 DEF bookingFormsVars
  <2>2. FormStep
    BY <2>1 DEF FormStep
  <2> QED
    BY <2>1, <2>2, FormSteps DEF FormInv, FareAsked, FareFits, CallerFits, VanFits, Awaits, LastAsked
<1> QED
  BY <1>1, <1>2, DeskPreserves, CustomerPreserves, AssignPreserves, AnswersPreserve DEF BookingFormsNext

\* With no question open the form shows what was asked last.
LEMMA FormInvFormsSettle ==
    ASSUME FormInv
    PROVE  FormsSettle
BY DEF FormInv, FormsSettle, FareAsked, FareFits, CallerFits, VanFits

-----------------------------------------------------------------------------
(* The map of a trip. *)

\* A row of a post that was stored, for a point of it; one point a time.
RowsOfPosts ==
    /\ \A r \in located :
         /\ post[r.post].stage \in {"stored", "done"}
         /\ [at |-> r.at, spot |-> r.spot] \in post[r.post].points
    /\ \A p \in LocationPosts : \A q, r \in post[p].points : q.at = r.at => q = r

\* Each message is of a post of its own, which is done.
Messages ==
    \A i \in 2..Len(map.track) : \A r \in map.track[i] :
        /\ post[r.post].stage = "done"
        /\ \A j \in 2..Len(map.track) : \A s \in map.track[j] : r.post = s.post => i = j

Drawn(r) == \E i \in 1..Len(map.track) : r \in map.track[i]
TooOld(r) == Cardinality(map.track[1]) = MapLimit /\ \A s \in map.track[1] : r.at <= s.at

TrackInv ==
    /\ Len(map.track) >= 1
    /\ Messages
    /\ \A r \in Unflagged(located) :
         post[r.post].stage = "done" => Drawn(r) \/ r.post \in unheard \/ TooOld(r)

MarkerInv ==
    /\ map.first = NoPoint => map.track[1] = {}
    /\ Loaded /\ map.marker = NoPoint => map.track[1] = {}
    /\ Loaded /\ Len(map.track) > map.loadedAt => map.marker \in {map.latest, NoPoint}

MInv ==
    /\ LiveMapTypeOK
    /\ RowsOfPosts
    /\ JumpsAreFlagged
    /\ map # NoPoint => TrackInv /\ MarkerInv

Posts(those) ==
    [LocationPosts ->
        [stage : {"unsent", "read", "stored", "done"}, points : SUBSET Point,
         fast : SUBSET Point, before : those \cup {NoPoint}]]
Maps(those) ==
    [track : Seq(SUBSET Unflagged(those)), latest : those \cup {NoPoint},
     first : those \cup {NoPoint}, subscribed : BOOLEAN, loadedAt : Nat,
     marker : those \cup {NoPoint}]

\* Nothing is posted and nobody looks.
LEMMA LiveMapInitEstablishes == LiveMapInit => MInv
<1> SUFFICES ASSUME LiveMapInit PROVE MInv
  OBVIOUS
<1>1. /\ post = [p \in LocationPosts |-> Unsent]
      /\ located = {} /\ map = NoPoint /\ unheard = {}
  BY DEF LiveMapInit
<1>2. Unsent \in [stage : {"unsent", "read", "stored", "done"}, points : SUBSET Point,
                  fast : SUBSET Point, before : {NoPoint}]
  BY DEF Unsent
<1>3. LiveMapTypeOK
  BY <1>1, <1>2 DEF LiveMapTypeOK
<1>4. RowsOfPosts
  BY <1>1 DEF RowsOfPosts, Unsent
<1>5. JumpsAreFlagged
  BY <1>1 DEF JumpsAreFlagged, Unflagged
<1> QED  BY <1>1, <1>3, <1>4, <1>5 DEF MInv

\* What a transaction stores: a row for each point of the post.
LEMMA JudgedRows ==
    ASSUME MInv, NEW p \in LocationPosts, NEW r \in Judged(p)
    PROVE  /\ r \in Located /\ r.post = p
           /\ [at |-> r.at, spot |-> r.spot] \in post[p].points
           /\ ~r.flagged => ~Flagged(p, [at |-> r.at, spot |-> r.spot])
<1>1. post[p].points \subseteq Point
  BY DEF MInv, LiveMapTypeOK
<1>2. PICK q \in post[p].points :
        r = [at |-> q.at, spot |-> q.spot, flagged |-> Flagged(p, q), post |-> p]
  BY DEF Judged
<1>3. q \in Point /\ q = [at |-> q.at, spot |-> q.spot]
  BY <1>1, <1>2 DEF Point
<1>4. Flagged(p, q) \in BOOLEAN
  BY DEF Flagged
<1>5. PICK f \in BOOLEAN : f = Flagged(p, q)
  BY <1>4
<1>6. r = [at |-> q.at, spot |-> q.spot, flagged |-> f, post |-> p]
  BY <1>2, <1>5
<1>7. r \in Located /\ r.at = q.at /\ r.spot = q.spot /\ r.flagged = f /\ r.post = p
  BY <1>3, <1>5, <1>6 DEF Located, Point
<1> QED  BY <1>2, <1>3, <1>5, <1>7

\* What a post was judged against is in the table, so its jumps are flagged.
LEMMA JumpsStayFlagged ==
    ASSUME MInv, NEW p \in LocationPosts, StoreLocations(p)
    PROVE  JumpsAreFlagged'
<1>0. post \in Posts(located) /\ located \subseteq Located
  BY DEF MInv, LiveMapTypeOK, Posts
<1>1. /\ post[p].stage = "read" /\ located' = located \cup Judged(p)
      /\ \A x \in LocationPosts : post'[x].points = post[x].points /\ post'[x].before = post[x].before
  <2>1. post[p].stage = "read" /\ located' = located \cup Judged(p)
    BY DEF StoreLocations
  <2>2. PICK end : post' = [post EXCEPT ![p].stage = end]
    BY DEF StoreLocations
  <2> QED  BY <1>0, <2>1, <2>2 DEF Posts
<1>2. /\ \A r \in located : r.post \in LocationPosts /\ r.post # p
      /\ \A r \in located : [at |-> r.at, spot |-> r.spot] \in post[r.post].points
      /\ \A x \in LocationPosts : \A q, r \in post[x].points : q.at = r.at => q = r
  BY <1>0, <1>1 DEF MInv, RowsOfPosts, Located
<1>3. \A r \in located' :
        /\ r \in Located /\ r.at \in Nat /\ r.post \in LocationPosts
        /\ [at |-> r.at, spot |-> r.spot] \in post[r.post].points
  <2>1. \A r \in Located : r.at \in Nat /\ r.post \in LocationPosts
    BY LiveMapAssumption DEF Located
  <2>2. \A r \in Judged(p) : r \in Located /\ [at |-> r.at, spot |-> r.spot] \in post[r.post].points
    BY JudgedRows
  <2> QED  BY <1>0, <1>1, <1>2, <2>1, <2>2
<1> SUFFICES ASSUME NEW r \in Unflagged(located'), NEW s \in Unflagged(located'),
                    TooFast(r, s), \A t \in located' : ~(r.at < t.at /\ t.at < s.at)
             PROVE  Unaware(s.post, r)' \/ ReachesBack(s.post)'
  BY DEF JumpsAreFlagged
<1>4. r \in located' /\ s \in located' /\ ~r.flagged /\ ~s.flagged /\ r.at < s.at
  BY DEF Unflagged, TooFast
<1>5. /\ Unaware(s.post, r)' <=> Unaware(s.post, r)
      /\ ReachesBack(s.post)' <=> ReachesBack(s.post)
  <2>1. s.post \in LocationPosts
    BY <1>3, <1>4
  <2> QED  BY <1>1, <2>1 DEF Unaware, ReachesBack
<1>6. SUFFICES Unaware(s.post, r) \/ ReachesBack(s.post)
  BY <1>5
<1>7. post[s.post].before \in located \cup {NoPoint}
  BY <1>0, <1>3, <1>4 DEF Posts
<1>8. SUFFICES ASSUME ~Unaware(s.post, r), ~ReachesBack(s.post)
               PROVE  FALSE
  OBVIOUS
<1>9. r.post = s.post \/ post[s.post].before = r
  <2>1. SUFFICES ASSUME r.post # s.post, post[s.post].before # r
                 PROVE  FALSE
    OBVIOUS
  <2>2. PICK before \in located : before = post[s.post].before
    BY <1>7, <1>8, <2>1 DEF Unaware
  <2>3. before # NoPoint
    BY <1>0, <2>2, LiveMapAssumption
  <2>4. before \in located' /\ before.at \in Nat
    BY <1>1, <1>3, <2>2
  <2>5. r.at < before.at
    <3>1. ~(before.at < r.at) /\ before.at # r.at
      BY <1>8, <2>1, <2>2, <2>3 DEF Unaware
    <3>2. r.at \in Nat /\ before.at \in Nat
      BY <1>3, <1>4, <2>4
    <3> QED  BY <3>1, <3>2
  <2>6. s.at <= before.at
    <3>1. r.at \in Nat /\ s.at \in Nat /\ before.at \in Nat /\ ~(before.at < s.at)
      BY <1>3, <1>4, <2>4, <2>5
    <3> QED  BY <3>1
  <2> QED  BY <1>3, <1>4, <1>8, <2>2, <2>3, <2>6 DEF ReachesBack
<1>10. CASE s \in located
  <2>1. r \in located
    <3>1. r.post # p
      <4>1. s.post # p
        BY <1>2, <1>10
      <4>2. CASE r.post = s.post
        BY <4>1, <4>2
      <4>3. CASE post[s.post].before = r
        <5>1. r # NoPoint
          BY <1>3, <1>4, LiveMapAssumption
        <5> QED  BY <1>2, <1>7, <4>3, <5>1
      <4> QED  BY <1>9, <4>2, <4>3
    <3> QED  BY <1>1, <1>4, <3>1, JudgedRows
  <2>2. r \in Unflagged(located) /\ s \in Unflagged(located)
    BY <1>4, <1>10, <2>1 DEF Unflagged
  <2>3. \A t \in located : ~(r.at < t.at /\ t.at < s.at)
    BY <1>1
  <2> QED  BY <1>8, <2>2, <2>3 DEF MInv, JumpsAreFlagged
<1>11. CASE s \notin located
  <2>1. s \in Judged(p)
    BY <1>1, <1>4, <1>11
  <2>2. PICK q : q = [at |-> s.at, spot |-> s.spot]
    OBVIOUS
  <2>3. q \in post[p].points /\ ~Flagged(p, q) /\ q.at = s.at /\ q.spot = s.spot /\ s.post = p
    BY <1>4, <2>1, <2>2, JudgedRows
  \* None of its own points lies between.
  <2>4. ASSUME NEW e \in Earlier(p, q) PROVE e \in post[p].points /\ e.at \in Nat /\ e.at < s.at /\ e.at <= r.at
    <3>1. e \in post[p].points /\ e.at < s.at
      BY <2>3 DEF Earlier
    <3>2. e.at \in Nat /\ post[p].points \subseteq Point
      <4>1. \A d \in Point : d.at \in Nat
        BY LiveMapAssumption DEF Point
      <4>2. post[p].points \subseteq Point
        BY <1>0 DEF Posts
      <4> QED  BY <3>1, <4>1, <4>2
    <3>3. PICK t : t = [at |-> e.at, spot |-> e.spot, flagged |-> Flagged(p, e), post |-> p]
      OBVIOUS
    <3>4. t \in located' /\ t.at = e.at
      BY <1>1, <3>1, <3>3 DEF Judged
    <3>5. r.at \in Nat /\ ~(r.at < e.at)
      BY <1>3, <1>4, <3>1, <3>4
    <3> QED  BY <3>1, <3>2, <3>5
  <2>5. CASE r.post = p
    <3>1. PICK e : e = [at |-> r.at, spot |-> r.spot]
      OBVIOUS
    <3>2. e \in post[p].points /\ e.at = r.at /\ e.spot = r.spot
      BY <1>3, <1>4, <2>5, <3>1
    <3>3. e \in Earlier(p, q)
      BY <1>4, <2>3, <3>2 DEF Earlier
    <3>4. NewestRows(Earlier(p, q)) = {e}
      <4>1. e \in NewestRows(Earlier(p, q))
        BY <2>4, <3>2, <3>3 DEF NewestRows
      <4>2. ASSUME NEW d \in NewestRows(Earlier(p, q)) PROVE d = e
        <5>1. d \in Earlier(p, q) /\ e.at <= d.at
          BY <3>3, <4>2 DEF NewestRows
        <5>2. d.at = e.at
          <6>1. d.at \in Nat /\ d.at <= r.at /\ r.at \in Nat
            BY <1>3, <1>4, <2>4, <5>1
          <6> QED  BY <3>2, <5>1, <6>1
        <5> QED  BY <1>2, <2>4, <3>2, <5>1, <5>2
      <4> QED  BY <4>1, <4>2
    <3>5. Previous(p, q) = e
      BY <3>3, <3>4 DEF Previous
    <3>6. e # NoPoint
      BY <1>0, <3>2, LiveMapAssumption DEF Posts
    <3> QED  BY <2>3, <3>2, <3>5, <3>6 DEF Flagged, TooFast, Distance
  <2>6. CASE post[p].before = r /\ r.post # p
    <3>1. r # NoPoint
      BY <1>3, <1>4, LiveMapAssumption
    <3>2. Earlier(p, q) = {}
      BY <1>8, <2>3, <2>4, <2>6, <3>1 DEF ReachesBack
    <3>3. Previous(p, q) = r
      BY <2>6, <3>2 DEF Previous
    <3> QED  BY <2>3, <3>1, <3>3 DEF Flagged, TooFast, Distance
  <2> QED  BY <1>9, <2>3, <2>5, <2>6
<1> QED  BY <1>10, <1>11

\* More rows: the page and the flags go on as they are.
LEMMA RowsGrow ==
    ASSUME NEW those, NEW more, those \subseteq more
    PROVE  Unflagged(those) \subseteq Unflagged(more) /\ Maps(those) \subseteq Maps(more)
<1>1. Unflagged(those) \subseteq Unflagged(more)
  BY DEF Unflagged
<1>2. \A t \in Seq(SUBSET Unflagged(those)) : t \in Seq(SUBSET Unflagged(more))
  BY <1>1, SeqMonotonic
<1> QED  BY <1>1, <1>2 DEF Maps

\* The driver's side: reading the newest point, and storing.
LEMMA PostsPreserve ==
    ASSUME MInv, NEW p \in LocationPosts
    PROVE  ReadLastPoint(p) \/ StoreLocations(p) => MInv'
<1>0. post \in Posts(located) /\ located \subseteq Located /\ unheard \subseteq LocationPosts
  BY DEF MInv, LiveMapTypeOK, Posts
<1>1. map # NoPoint => map \in Maps(located)
  BY DEF MInv, LiveMapTypeOK, Maps
<1>2. \A r \in located : /\ r.post \in LocationPosts
                         /\ post[r.post].stage \in {"stored", "done"}
                         /\ [at |-> r.at, spot |-> r.spot] \in post[r.post].points
  BY <1>0 DEF MInv, RowsOfPosts, Located
<1>3. ASSUME ReadLastPoint(p) PROVE MInv'
  <2>1. PICK points \in Posted, before \in located \cup {NoPoint} :
          \E fast \in {{}, points} :
              post' = [post EXCEPT ![p] =
                  [stage |-> "read", points |-> points, fast |-> fast, before |-> before]]
    BY <1>3 DEF ReadLastPoint
  <2>2. post[p].stage = "unsent" /\ UNCHANGED <<located, map, unheard>>
    BY <1>3 DEF ReadLastPoint, Unsent
  <2>3. points \in SUBSET Point /\ \A q, r \in points : q.at = r.at => q = r
    BY <2>1 DEF Posted
  <2>4. post' \in Posts(located) /\ post'[p].points = points /\ post'[p].stage = "read"
        /\ \A x \in LocationPosts : x # p => post'[x] = post[x]
    <3>1. PICK fast \in {{}, points} :
            post' = [post EXCEPT ![p] =
                [stage |-> "read", points |-> points, fast |-> fast, before |-> before]]
      BY <2>1
    <3> QED  BY <1>0, <2>1, <2>3, <3>1 DEF Posts
  <2>5. \A r \in located : r.post # p /\ post'[r.post] = post[r.post]
    BY <1>2, <2>2, <2>4
  <2>6. LiveMapTypeOK'
    BY <1>0, <1>1, <2>2, <2>4 DEF LiveMapTypeOK, Posts, Maps
  <2>7. RowsOfPosts'
    BY <1>2, <2>2, <2>3, <2>4, <2>5 DEF MInv, RowsOfPosts
  <2>8. JumpsAreFlagged'
    BY <2>2, <2>5 DEF MInv, JumpsAreFlagged, Unaware, ReachesBack, Unflagged
  <2>9. map # NoPoint => TrackInv'
    <3> SUFFICES ASSUME map # NoPoint PROVE TrackInv'
      OBVIOUS
    <3>1. TrackInv /\ map \in Maps(located)
      BY <1>1 DEF MInv
    <3>2. \A i \in 1..Len(map.track) : map.track[i] \subseteq located
      BY <3>1 DEF Maps, Unflagged
    <3>3. \A i \in 2..Len(map.track) : i \in 1..Len(map.track)
      BY <3>1 DEF Maps
    <3>4. Messages'
      BY <2>2, <2>5, <3>1, <3>2, <3>3 DEF TrackInv, Messages
    <3> QED  BY <2>2, <2>5, <3>1, <3>4 DEF TrackInv, Unflagged, Drawn, TooOld
  <2>10. map # NoPoint => MarkerInv'
    BY <2>2 DEF MInv, MarkerInv, Loaded
  <2> QED  BY <2>2, <2>6, <2>7, <2>8, <2>9, <2>10 DEF MInv
<1>4. ASSUME StoreLocations(p) PROVE MInv'
  <2>1. post[p].stage = "read" /\ located' = located \cup Judged(p) /\ UNCHANGED <<map, unheard>>
    BY <1>4 DEF StoreLocations
  <2>2. PICK end \in {"done", "stored"} :
          /\ post' = [post EXCEPT ![p].stage = end]
          /\ end = "done" => Unflagged(Judged(p)) = {}
    BY <1>4 DEF StoreLocations
  <2>3. /\ located' \subseteq Located /\ located \subseteq located'
        /\ \A r \in located' : r.post = p \/ r \in located
        /\ \A r \in located' : [at |-> r.at, spot |-> r.spot] \in post[r.post].points
    BY <1>0, <1>2, <2>1, JudgedRows
  <2>4. /\ post' \in Posts(located') /\ post'[p].stage = end
        /\ \A x \in LocationPosts : post'[x].points = post[x].points
        /\ \A x \in LocationPosts : x # p => post'[x] = post[x]
    BY <1>0, <2>2, <2>3 DEF Posts
  <2>5. \A r \in located : r.post # p
    BY <1>2, <2>1
  <2>6. LiveMapTypeOK'
    <3>1. map # NoPoint => map \in Maps(located')
      BY <1>1, <2>3, RowsGrow
    <3> QED  BY <1>0, <2>1, <2>3, <2>4, <3>1 DEF LiveMapTypeOK, Posts, Maps
  <2>7. RowsOfPosts'
    <3>1. \A r \in located' : r.post \in LocationPosts
      BY <2>3 DEF Located
    <3> QED  BY <1>2, <2>2, <2>3, <2>4, <3>1 DEF MInv, RowsOfPosts
  <2>8. JumpsAreFlagged'
    BY <1>4, JumpsStayFlagged
  <2>9. map # NoPoint => TrackInv'
    <3> SUFFICES ASSUME map # NoPoint PROVE TrackInv'
      OBVIOUS
    <3>1. TrackInv /\ map \in Maps(located)
      BY <1>1 DEF MInv
    <3>2. \A i \in 1..Len(map.track) : map.track[i] \subseteq located
      BY <3>1 DEF Maps, Unflagged
    <3>3. \A i \in 2..Len(map.track) : i \in 1..Len(map.track)
      BY <3>1 DEF Maps
    <3>4. \A r \in located : post'[r.post] = post[r.post]
      BY <1>2, <2>4, <2>5
    <3>5. Messages'
      BY <2>1, <3>1, <3>2, <3>3, <3>4 DEF TrackInv, Messages
    <3>6. ASSUME NEW r \in Unflagged(located'), post'[r.post].stage = "done"
          PROVE  r \in Unflagged(located)
      <4>1. r \in located' /\ ~r.flagged
        BY <3>6 DEF Unflagged
      <4>2. CASE r \notin located
        <5>1. r \in Judged(p) /\ r.post = p
          BY <2>1, <4>1, <4>2, <2>3
        <5>2. end = "done"
          BY <2>4, <3>6, <5>1
        <5> QED  BY <2>2, <4>1, <5>1, <5>2 DEF Unflagged
      <4> QED  BY <4>1, <4>2 DEF Unflagged
    <3>7. \A r \in Unflagged(located) : r \in located
      BY DEF Unflagged
    <3> QED  BY <2>1, <3>1, <3>4, <3>5, <3>6, <3>7 DEF TrackInv, Drawn, TooOld
  <2>10. map # NoPoint => MarkerInv'
    BY <2>1 DEF MInv, MarkerInv, Loaded
  <2> QED  BY <2>1, <2>6, <2>7, <2>8, <2>9, <2>10 DEF MInv
<1> QED  BY <1>3, <1>4

\* A broadcast draws each point of its post once, or is missed.
LEMMA BroadcastPreserves ==
    ASSUME MInv, NEW p \in LocationPosts, BroadcastLocations(p)
    PROVE  MInv'
<1>0. post \in Posts(located) /\ located \subseteq Located /\ unheard \subseteq LocationPosts
  BY DEF MInv, LiveMapTypeOK, Posts
<1>1. map # NoPoint => map \in Maps(located)
  BY DEF MInv, LiveMapTypeOK, Maps
<1>2. /\ post[p].stage = "stored" /\ post' = [post EXCEPT ![p].stage = "done"] /\ located' = located
      /\ \/ Subscribed /\ Hear(MessageOf(p)) /\ unheard' = unheard
         \/ map' = map /\ unheard' = unheard \cup {p}
  BY DEF BroadcastLocations
<1>3. /\ post' \in Posts(located) /\ post'[p].stage = "done"
      /\ \A x \in LocationPosts : /\ post'[x].points = post[x].points
                                  /\ post'[x].before = post[x].before
      /\ \A x \in LocationPosts : x # p => post'[x] = post[x]
  BY <1>0, <1>2 DEF Posts
<1>4. \A r \in located : r.post \in LocationPosts
  BY <1>0 DEF Located
<1>5. RowsOfPosts'
  BY <1>2, <1>3, <1>4 DEF MInv, RowsOfPosts
<1>6. JumpsAreFlagged'
  <2>1. \A r \in Unflagged(located) : r \in located
    BY DEF Unflagged
  <2>2. \A r, s \in located : (Unaware(s.post, r)' <=> Unaware(s.post, r))
                             /\ (ReachesBack(s.post)' <=> ReachesBack(s.post))
    BY <1>3, <1>4 DEF Unaware, ReachesBack
  <2> QED  BY <1>2, <2>1, <2>2 DEF MInv, JumpsAreFlagged
<1>7. CASE map' = map /\ unheard' = unheard \cup {p}
  <2>1. LiveMapTypeOK'
    BY <1>0, <1>1, <1>2, <1>3, <1>7 DEF LiveMapTypeOK, Posts, Maps
  <2>2. map # NoPoint => TrackInv'
    <3> SUFFICES ASSUME map # NoPoint PROVE TrackInv'
      OBVIOUS
    <3>1. TrackInv /\ map \in Maps(located)
      BY <1>1 DEF MInv
    <3>2. \A i \in 2..Len(map.track) : \A r \in map.track[i] : r \in located
      BY <3>1 DEF Maps, Unflagged
    <3>3. \A r \in located : post[r.post].stage = "done" => post'[r.post].stage = "done"
      BY <1>2, <1>3, <1>4
    <3>4. Messages'
      BY <1>7, <3>1, <3>2, <3>3 DEF TrackInv, Messages
    <3>5. \A r \in Unflagged(located) :
            post'[r.post].stage = "done" => post[r.post].stage = "done" \/ r.post = p
      BY <1>3, <1>4 DEF Unflagged
    <3> QED  BY <1>2, <1>7, <3>1, <3>4, <3>5 DEF TrackInv, Drawn, TooOld
  <2>3. map # NoPoint => MarkerInv'
    BY <1>7 DEF MInv, MarkerInv, Loaded
  <2> QED  BY <1>5, <1>6, <1>7, <2>1, <2>2, <2>3 DEF MInv
<1>8. CASE Subscribed /\ Hear(MessageOf(p)) /\ unheard' = unheard
  <2>1. PICK message : message = MessageOf(p)
    OBVIOUS
  <2>2. /\ message \subseteq Unflagged(located) /\ \A r \in message : r.post = p
        /\ \A r \in Unflagged(located) : r.post = p => r \in message
    BY <2>1 DEF MessageOf, Unflagged
  <2>3. map # NoPoint /\ TrackInv /\ MarkerInv /\ map \in Maps(located)
    BY <1>1, <1>8 DEF Subscribed, MInv
  <2>4. PICK newest \in NewestRows(message) :
          \E marker \in MarkerAt(newest) :
              map' = [map EXCEPT !.track = Append(@, message), !.latest = newest, !.marker = marker]
    BY <1>8, <2>1 DEF Hear
  <2>5. newest \in located /\ newest # NoPoint
    BY <1>0, <2>2, <2>4, LiveMapAssumption DEF NewestRows, Unflagged
  <2>6. PICK marker \in MarkerAt(newest) :
          map' = [map EXCEPT !.track = Append(@, message), !.latest = newest, !.marker = marker]
    BY <2>4
  <2>7. /\ marker \in {newest, NoPoint}
        /\ map.marker # NoPoint => marker = newest
        /\ ~Loaded => (map.marker = NoPoint => marker = NoPoint)
    BY <2>6 DEF MarkerAt
  <2>8. PICK track : track = map.track
    OBVIOUS
  <2>9. track \in Seq(SUBSET Unflagged(located)) /\ Len(track) \in Nat /\ Len(track) >= 1
    BY <2>3, <2>8 DEF Maps, TrackInv
  <2>10. /\ map'.track = Append(track, message) /\ map'.latest = newest /\ map'.marker = marker
        /\ map'.first = map.first /\ map'.subscribed = map.subscribed
        /\ map'.loadedAt = map.loadedAt /\ map' \in Maps(located)
    <3>1. PICK longer : longer = Append(track, message)
      OBVIOUS
    <3>2. longer \in Seq(SUBSET Unflagged(located))
      BY <2>2, <2>9, <3>1
    <3>3. map' = [map EXCEPT !.track = longer, !.latest = newest, !.marker = marker]
      BY <2>6, <2>8, <3>1
    <3>4. newest \in located \cup {NoPoint} /\ marker \in located \cup {NoPoint}
      BY <2>5, <2>7
    <3> QED  BY <2>3, <3>1, <3>2, <3>3, <3>4 DEF Maps
  <2>11. /\ Len(map'.track) = Len(track) + 1 /\ map'.track[Len(track) + 1] = message
         /\ \A i \in 1..Len(track) : map'.track[i] = track[i]
         /\ map'.track[1] = track[1]
    BY <2>2, <2>9, <2>10
  <2>12. LiveMapTypeOK'
    BY <1>0, <1>2, <1>3, <1>8, <2>10 DEF LiveMapTypeOK, Posts, Maps
  <2>13. Messages'
    <3>1. \A i \in 2..Len(map'.track) :
            (i \in 2..Len(track) /\ map'.track[i] = track[i])
            \/ (i = Len(track) + 1 /\ map'.track[i] = message)
      BY <2>9, <2>11
    <3>2. \A i \in 2..Len(track) : \A r \in track[i] : r \in located /\ post[r.post].stage = "done"
      BY <2>3, <2>8, <2>9 DEF TrackInv, Messages, Unflagged
    <3>3. \A i \in 2..Len(track) : \A r \in track[i] : post'[r.post].stage = "done" /\ r.post # p
      BY <1>2, <1>3, <1>4, <3>2
    <3>4. \A i, j \in 2..Len(track) : \A r \in track[i], s \in track[j] : r.post = s.post => i = j
      BY <2>3, <2>8 DEF TrackInv, Messages
    <3>5. ASSUME NEW i \in 2..Len(map'.track), NEW r \in map'.track[i]
          PROVE  /\ post'[r.post].stage = "done"
                 /\ \A j \in 2..Len(map'.track) : \A s \in map'.track[j] : r.post = s.post => i = j
      <4>1. post'[r.post].stage = "done"
        BY <1>3, <2>2, <3>1, <3>3, <3>5
      <4>2. ASSUME NEW j \in 2..Len(map'.track), NEW s \in map'.track[j], r.post = s.post PROVE i = j
        BY <2>2, <3>1, <3>3, <3>4, <3>5, <4>2
      <4> QED  BY <4>1, <4>2
    <3> QED  BY <3>5 DEF Messages
  <2>14. TrackInv'
    <3>1. ASSUME NEW r \in Unflagged(located), post'[r.post].stage = "done"
          PROVE  Drawn(r)' \/ r.post \in unheard \/ TooOld(r)'
      <4>1. CASE r.post = p
        <5>1. r \in map'.track[Len(track) + 1] /\ Len(track) + 1 \in 1..Len(map'.track)
          BY <2>2, <2>9, <2>11, <4>1
        <5> QED  BY <5>1 DEF Drawn
      <4>2. CASE r.post # p
        <5>1. post[r.post].stage = "done"
          BY <1>3, <1>4, <3>1, <4>2 DEF Unflagged
        <5>2. Drawn(r) => Drawn(r)'
          BY <2>8, <2>9, <2>11 DEF Drawn
        <5>3. TooOld(r) => TooOld(r)'
          BY <2>8, <2>11 DEF TooOld
        <5> QED  BY <2>3, <5>1, <5>2, <5>3 DEF TrackInv
      <4> QED  BY <4>1, <4>2
    <3> QED  BY <1>2, <1>8, <2>9, <2>11, <2>13, <3>1 DEF TrackInv
  <2>15. MarkerInv'
    <3>1. Loaded' => Loaded
      BY <2>3, <2>10 DEF Loaded
    <3> QED  BY <2>3, <2>5, <2>7, <2>8, <2>10, <2>11, <3>1 DEF MarkerInv
  <2> QED  BY <1>5, <1>6, <2>12, <2>14, <2>15 DEF MInv
<1> QED  BY <1>2, <1>7, <1>8

\* The customer's side: rendering, subscribing, loading.
LEMMA PagePreserves ==
    ASSUME MInv
    PROVE  RenderMap \/ Subscribe \/ MapLoads => MInv'
<1>0. post \in Posts(located) /\ located \subseteq Located /\ unheard \subseteq LocationPosts
  BY DEF MInv, LiveMapTypeOK, Posts
<1>1. map # NoPoint => map \in Maps(located)
  BY DEF MInv, LiveMapTypeOK, Maps
<1>2. ASSUME UNCHANGED <<post, located>> PROVE RowsOfPosts' /\ JumpsAreFlagged'
  BY <1>2 DEF MInv, RowsOfPosts, JumpsAreFlagged, Unaware, ReachesBack
<1>3. ASSUME RenderMap PROVE MInv'
  <2>1. PICK those \in Recent, latest \in located \cup {NoPoint} :
          /\ NewestOf(those, latest)
          /\ map' = [track |-> <<those>>, latest |-> latest, first |-> latest,
                     subscribed |-> FALSE, loadedAt |-> 0, marker |-> NoPoint]
    BY <1>3 DEF RenderMap
  <2>2. unheard' = {} /\ UNCHANGED <<post, located>>
    BY <1>3 DEF RenderMap
  <2>3. /\ those \subseteq Unflagged(located)
        /\ those = Unflagged(located) \/ Cardinality(those) = MapLimit
        /\ \A r \in those, s \in Unflagged(located) \ those : s.at <= r.at
    BY DEF Recent
  <2>4. /\ map'.track = <<those>> /\ map'.first = latest /\ map'.loadedAt = 0
        /\ map' \in Maps(located)
    BY <2>1, <2>3 DEF Maps
  <2>5. Len(map'.track) = 1 /\ map'.track[1] = those
    BY <2>4
  <2>6. LiveMapTypeOK'
    BY <1>0, <2>2, <2>4 DEF LiveMapTypeOK, Posts, Maps
  <2>7. TrackInv'
    <3>1. Messages'
      BY <2>5 DEF Messages
    <3>2. ASSUME NEW r \in Unflagged(located) PROVE Drawn(r)' \/ TooOld(r)'
      <4>1. r \in those => Drawn(r)'
        BY <2>5 DEF Drawn
      <4>2. r \notin those => TooOld(r)'
        BY <2>3, <2>5 DEF TooOld
      <4> QED  BY <4>1, <4>2
    <3> QED  BY <2>2, <2>5, <3>1, <3>2 DEF TrackInv
  <2>8. MarkerInv'
    <3>1. latest = NoPoint => those = {}
      BY <1>0, <2>1, <2>3, LiveMapAssumption DEF NewestOf, NewestRows, Unflagged
    <3> QED  BY <2>4, <2>5, <3>1 DEF MarkerInv, Loaded
  <2> QED  BY <1>2, <2>2, <2>6, <2>7, <2>8 DEF MInv
<1>4. ASSUME Subscribe \/ MapLoads PROVE MInv'
  <2>1. map # NoPoint /\ UNCHANGED <<post, located, unheard>> /\ map \in Maps(located) /\ TrackInv /\ MarkerInv
    BY <1>1, <1>4 DEF Subscribe, MapLoads, MInv
  <2>2. PICK track : track = map.track
    OBVIOUS
  <2>3. track \in Seq(SUBSET Unflagged(located)) /\ Len(track) \in Nat /\ Len(track) >= 1
    BY <2>1, <2>2 DEF Maps, TrackInv
  <2>4. /\ map' \in Maps(located)
        /\ map'.track = track /\ map'.first = map.first /\ map'.latest = map.latest
        /\ \/ map'.loadedAt = map.loadedAt /\ map'.marker = map.marker
           \/ map'.loadedAt = Len(track) /\ map'.marker = map.first
    BY <1>4, <2>1, <2>2, <2>3 DEF Subscribe, MapLoads, Maps
  <2>5. LiveMapTypeOK'
    BY <1>0, <2>1, <2>4 DEF LiveMapTypeOK, Posts, Maps
  <2>6. TrackInv'
    BY <2>1, <2>2, <2>4 DEF TrackInv, Messages, Drawn, TooOld
  <2>7. MarkerInv'
    <3>1. CASE map'.loadedAt = map.loadedAt /\ map'.marker = map.marker
      BY <2>1, <2>2, <2>4, <3>1 DEF MarkerInv, Loaded
    <3>2. CASE map'.loadedAt = Len(track) /\ map'.marker = map.first
      BY <2>1, <2>2, <2>3, <2>4, <3>2 DEF MarkerInv, Loaded
    <3> QED  BY <2>4, <3>1, <3>2
  <2> QED  BY <1>2, <2>1, <2>5, <2>6, <2>7 DEF MInv
<1> QED  BY <1>3, <1>4

\* The two sides, and a stutter.
LEMMA LiveMapNextPreserves ==
    ASSUME MInv, [LiveMapNext]_liveMapVars
    PROVE  MInv'
<1>1. ASSUME NEW p \in LocationPosts, ReadLastPoint(p) \/ StoreLocations(p) \/ BroadcastLocations(p)
      PROVE  MInv'
  BY <1>1, PostsPreserve, BroadcastPreserves
<1>2. CASE RenderMap \/ Subscribe \/ MapLoads
  BY <1>2, PagePreserves
<1>3. CASE UNCHANGED liveMapVars
  BY <1>3 DEF liveMapVars, MInv, LiveMapTypeOK, RowsOfPosts, JumpsAreFlagged, TrackInv, Messages,
              MarkerInv, Drawn, TooOld, Loaded, Unaware, ReachesBack
<1> QED  BY <1>1, <1>2, <1>3 DEF LiveMapNext

\* A row is in one message at most, and on the page it was rendered with.
LEMMA MInvMapTells == ASSUME MInv PROVE MapTells
<1>1. ASSUME map # NoPoint PROVE TrackIsWhole
  <2>1. TrackInv /\ map \in Maps(located) /\ unheard \subseteq LocationPosts
    BY <1>1 DEF MInv, LiveMapTypeOK, Maps
  <2>2. PICK track : track = map.track
    OBVIOUS
  <2>3. Len(track) \in Nat /\ Len(track) >= 1 /\ DOMAIN track = 1..Len(track)
    BY <2>1, <2>2 DEF Maps, TrackInv
  <2> SUFFICES ASSUME NEW r \in Unflagged(located)
               PROVE  /\ post[r.post].stage = "done" /\ Times(r) = 0 =>
                           r.post \in unheard \/ TooOld(r)
                      /\ Times(r) <= 1 \/ (Times(r) = 2 /\ r \in track[1])
    BY <2>2 DEF TrackIsWhole, TooOld
  <2>4. PICK drawings : drawings = {i \in DOMAIN track : r \in track[i]}
    OBVIOUS
  <2>5. drawings \subseteq 1..Len(track) /\ Times(r) = Cardinality(drawings)
    BY <2>2, <2>3, <2>4 DEF Times
  <2>6. IsFiniteSet(drawings)
    <3>1. IsFiniteSet(1..Len(track))
      BY <2>3, FS_Interval
    <3> QED  BY <2>5, <3>1, FS_Subset
  <2>7. Times(r) = 0 => ~Drawn(r)
    BY <2>2, <2>3, <2>4, <2>5, <2>6, FS_EmptySet DEF Drawn
  <2>8. \A i, j \in drawings : i # 1 /\ j # 1 => i = j
    <3>1. ASSUME NEW i \in drawings, NEW j \in drawings, i # 1, j # 1 PROVE i = j
      <4>1. i \in 2..Len(track) /\ j \in 2..Len(track)
        BY <2>3, <2>5, <3>1
      <4> QED  BY <2>1, <2>2, <2>4, <4>1 DEF TrackInv, Messages
    <3> QED  BY <3>1
  <2>9. Times(r) <= 1 \/ (Times(r) = 2 /\ r \in track[1])
    <3>1. CASE \E k \in drawings : k # 1
      <4>1. PICK k \in drawings : k # 1
        BY <3>1
      <4>2. drawings \subseteq {1, k}
        BY <2>8, <4>1
      <4>3. CASE 1 \in drawings
        <5>1. drawings = {1} \cup {k} /\ 1 \notin {k}
          BY <4>1, <4>2, <4>3
        <5>2. Cardinality(drawings) = 2
          <6>1. IsFiniteSet({1}) /\ Cardinality({1}) = 1
            BY FS_Singleton
          <6> QED  BY <5>1, <6>1, FS_AddElement
        <5> QED  BY <2>4, <2>5, <4>3, <5>2
      <4>4. CASE 1 \notin drawings
        <5>1. drawings = {k}
          BY <4>1, <4>2, <4>4
        <5>2. Cardinality({k}) = 1
          BY FS_Singleton
        <5> QED  BY <2>5, <5>1, <5>2
      <4> QED  BY <4>3, <4>4
    <3>2. CASE \A k \in drawings : k = 1
      <4>1. drawings = {} \/ drawings = {1}
        BY <3>2
      <4>2. Cardinality({}) = 0 /\ Cardinality({1}) = 1
        BY FS_EmptySet, FS_Singleton
      <4>3. Times(r) = 0 \/ Times(r) = 1
        BY <2>5, <4>1, <4>2
      <4> QED  BY <4>3
    <3> QED  BY <3>1, <3>2
  <2> QED  BY <2>1, <2>7, <2>9 DEF TrackInv
<1>2. map = NoPoint => TrackIsWhole
  BY DEF TrackIsWhole
<1>3. MarkerFollows
  BY DEF MInv, MarkerInv, MarkerFollows, Loaded
<1> QED  BY <1>1, <1>2, <1>3 DEF MInv, MapTells

-----------------------------------------------------------------------------
(* The lists. *)

\* The rows that come before r in every order.
Below(r) == {s \in There : place[s] < place[r]}

\* Pages 1 to n have shown something.
Covered(n) == \A i \in 1..n : \E m \in walk.seen : m[2] = i

\* How many rows a page has in a table of some length.
SizeOf(number, total) == Larger(0, Smaller(PageSize, total - Skip(number)))

NoneLeft(r) == r \in Stayed /\ ~Before(r, walk.left) /\ ~HadATie(r)
NoneCame(r) == r \in Stayed /\ ~Before(r, walk.came) /\ ~HadATie(r)

\* A row not shown up to page n is behind it.
NotYet(n, those) ==
    \A r \in ListRows :
        NoneLeft(r) /\ Covered(n - 1) /\ SeenOn(r) = {} /\ r \notin those =>
            Cardinality(Below(r)) >= n * PageSize

\* A row shown on page n is not behind it.
Already(n, those) ==
    \A r \in those : NoneCame(r) => Cardinality(Below(r)) < n * PageSize /\ SeenOn(r) = {}

PagesFit ==
    /\ address \in Nat \ {0}
    /\ loading # NoPage => /\ loading.number = address
                           /\ loading.rows = Unread \/ loading.total = Unread
    /\ loading = NoPage => page # NoPage /\ page.number = address
    /\ page # NoPage => page.number # 0 /\ page.rows # Unread /\ page.total # Unread

\* What has been read of a page, against the table of now.
ReadFits(read) ==
    /\ read.rows # Unread =>
         read.torn \/ Cardinality(read.rows) = SizeOf(read.number, Cardinality(There))
    /\ read.total # Unread => read.torn \/ read.total = Cardinality(There)
    /\ walk.straight /\ walk.left = {} /\ read.total # Unread => read.total <= Cardinality(There)
    /\ walk.straight /\ read.rows # Unread =>
         NotYet(read.number, read.rows) /\ Already(read.number, read.rows)

SizesFit ==
    /\ walk.straight /\ walk.left = {} =>
         /\ page # NoPage => page.total <= Cardinality(There)
         /\ loading # NoPage => loading.number = 1 \/ Skip(loading.number) < Cardinality(There)
    /\ SizesAgree

WalkFits ==
    /\ \A m \in walk.seen : page # NoPage /\ m[2] <= page.number
    /\ page # NoPage /\ loading # NoPage => page.number < loading.number
    /\ page # NoPage => NotYet(page.number, {})
    /\ \A r \in ListRows : NoneCame(r) =>
         /\ \A n \in SeenOn(r) : Cardinality(Below(r)) < n * PageSize
         /\ \A m, n \in SeenOn(r) : m = n
    /\ page # NoPage /\ ~page.torn /\ page.number >= TotalPages(page.total)
         /\ Covered(page.number - 1) =>
         \A r \in ListRows : NoneLeft(r) => SeenOn(r) # {}

LInv ==
    /\ ListsTypeOK
    /\ PagesFit
    /\ ReadFits(loading)
    /\ SizesFit
    /\ walk.straight => WalkFits

-----------------------------------------------------------------------------
\* Pages are of at least one row.
LEMMA PageSizes == PageSize \in Nat /\ PageSize >= 1
BY ListsAssumption

\* Whole pages grow with their number.
LEMMA Multiples ==
    ASSUME NEW m \in Nat, NEW n \in Nat, m <= n
    PROVE  m * PageSize \in Nat /\ m * PageSize <= n * PageSize
<1>1. PICK p \in Nat : p = PageSize /\ p >= 1
  BY PageSizes
<1>2. PICK d \in Nat : n = m + d
  <2>1. n - m \in Nat /\ n = m + (n - m)
    OBVIOUS
  <2> QED  BY <2>1
<1>3. m * p \in Nat /\ d * p \in Nat
  BY <1>1, <1>2
<1>4. n * p = m * p + d * p
  BY <1>1, <1>2
<1>5. m * p <= n * p
  BY <1>3, <1>4
<1> QED  BY <1>1, <1>3, <1>5

\* A page begins where the one before ends.
LEMMA Skips ==
    ASSUME NEW n \in Nat \ {0}
    PROVE  /\ Skip(n) \in Nat /\ n * PageSize = Skip(n) + PageSize
           /\ n * PageSize \in Nat /\ Skip(n + 1) = n * PageSize
<1>1. PICK p \in Nat : p = PageSize /\ p >= 1
  BY PageSizes
<1>2. PICK m \in Nat : n = m + 1
  <2>1. n - 1 \in Nat /\ n = (n - 1) + 1
    OBVIOUS
  <2> QED  BY <2>1
<1>3. n - 1 = m /\ (n + 1) - 1 = n
  BY <1>2
<1>4. Skip(n) = m * p /\ Skip(n + 1) = n * p
  BY <1>1, <1>3 DEF Skip
<1>5. m * p \in Nat /\ n * p \in Nat /\ n * p = m * p + p
  BY <1>1, <1>2
<1> QED  BY <1>1, <1>4, <1>5

\* The pages hold the table, and all but the last are full.
LEMMA PagesHold ==
    ASSUME NEW total \in Nat
    PROVE  /\ TotalPages(total) \in Nat \ {0}
           /\ total <= TotalPages(total) * PageSize
           /\ \A k \in Nat \ {0} : k < TotalPages(total) => k * PageSize < total
<1>1. PICK p \in Nat : p = PageSize /\ p >= 1
  BY PageSizes
<1>2. PICK top \in Nat : top = total + p - 1
  BY <1>1
<1>3. PICK q : q = top \div p
  OBVIOUS
<1>4. q \in Nat /\ q * p <= top /\ top < q * p + p /\ q * p \in Nat
  BY <1>1, <1>2, <1>3
<1>5. TotalPages(total) = Larger(1, q)
  BY <1>1, <1>2, <1>3 DEF TotalPages
<1>6. CASE q = 0
  <2>1. TotalPages(total) = 1 /\ total = 0
    BY <1>1, <1>2, <1>4, <1>5, <1>6 DEF Larger
  <2>2. \A k \in Nat \ {0} : ~(k < 1)
    OBVIOUS
  <2> QED  BY <1>1, <2>1, <2>2
<1>7. CASE q # 0
  <2>1. TotalPages(total) = q
    BY <1>4, <1>5, <1>7 DEF Larger
  <2>2. total <= q * p
    BY <1>1, <1>2, <1>4
  <2>3. ASSUME NEW k \in Nat \ {0}, k < q PROVE k * p < total
    <3>1. (k + 1) * p <= q * p
      BY <1>1, <1>4, <2>3, Multiples
    <3>2. k * p \in Nat /\ (k + 1) * p = k * p + p
      BY <1>1
    <3> QED  BY <1>1, <1>2, <1>4, <3>1, <3>2
  <2> QED  BY <1>1, <1>4, <1>7, <2>1, <2>2, <2>3
<1> QED  BY <1>4, <1>6, <1>7

-----------------------------------------------------------------------------
\* The rows that are there are finitely many.
LEMMA Lengths ==
    /\ IsFiniteSet(There) /\ Cardinality(There) \in Nat
    /\ \A r : IsFiniteSet(Below(r)) /\ Cardinality(Below(r)) \in Nat
<1>1. There \subseteq ListRows /\ IsFiniteSet(ListRows)
  BY ListsAssumption DEF There
<1>2. IsFiniteSet(There)
  BY <1>1, FS_Subset
<1>3. ASSUME NEW r PROVE IsFiniteSet(Below(r))
  BY <1>2, FS_Subset DEF Below
<1> QED  BY <1>2, <1>3, FS_CardinalityType

\* A stretch of an order has as many rows as places.
LEMMA Stretches ==
    ASSUME NEW o \in Orders, NEW a \in Nat \ {0}, NEW b \in Int, b <= Cardinality(There),
           NEW those, those = {o[i] : i \in a..b}
    PROVE  those \subseteq There /\ Cardinality(those) = Larger(0, b - a + 1)
<1>1. /\ o \in [1..Cardinality(There) -> There] /\ Cardinality(There) \in Nat
      /\ \A i, j \in 1..Cardinality(There) : i < j => o[i] # o[j]
  BY Lengths DEF Orders
<1>2. \A i \in a..b : i \in 1..Cardinality(There)
  BY <1>1
<1>3. those \subseteq There
  BY <1>1, <1>2
<1>4. PICK part : part = [i \in a..b |-> o[i]]
  OBVIOUS
<1>5. part \in [a..b -> those] /\ \A i \in a..b : part[i] = o[i]
  BY <1>4
<1>6. \A i, j \in a..b : part[i] = part[j] => i = j
  <2>1. ASSUME NEW i \in a..b, NEW j \in a..b, part[i] = part[j], i # j PROVE FALSE
    <3>1. i < j \/ j < i
      BY <2>1
    <3> QED  BY <1>1, <1>2, <1>5, <2>1, <3>1
  <2> QED  BY <2>1
<1>7. part \in Bijection(a..b, those)
  <2>1. \A r \in those : \E i \in a..b : part[i] = r
    BY <1>5
  <2> QED  BY <1>5, <1>6, <2>1 DEF Bijection, Injection, Surjection, IsInjective
<1>8. ExistsBijection(a..b, those)
  BY <1>7 DEF ExistsBijection
<1>9. IsFiniteSet(a..b) /\ Cardinality(a..b) = IF a > b THEN 0 ELSE b - a + 1
  BY FS_Interval
<1>10. Cardinality(those) = IF a > b THEN 0 ELSE b - a + 1
  BY <1>8, <1>9, FS_Bijection
<1> QED  BY <1>3, <1>10 DEF Larger

\* Where a row without a tie is, in every order.
LEMMA Positions ==
    ASSUME ListsTypeOK, NEW o \in Orders, NEW r \in There, ~Tied(r)
    PROVE  /\ Cardinality(Below(r)) + 1 \in 1..Cardinality(There)
           /\ \A k \in 1..Cardinality(There) : o[k] = r <=> k = Cardinality(Below(r)) + 1
<1>1. PICK total \in Nat : total = Cardinality(There)
  BY Lengths
<1>2. /\ o \in [1..total -> There]
      /\ \A i, j \in 1..total : i < j => o[i] # o[j] /\ place[o[i]] <= place[o[j]]
  BY <1>1 DEF Orders
<1>3. \A s \in There : s \in ListRows /\ place[s] \in Nat
  BY ListsAssumption DEF ListsTypeOK, There
<1>4. \A i, j \in 1..total : o[i] = o[j] => i = j
  <2>1. ASSUME NEW i \in 1..total, NEW j \in 1..total, o[i] = o[j], i # j PROVE FALSE
    <3>1. i < j \/ j < i
      BY <2>1
    <3> QED  BY <1>2, <2>1, <3>1
  <2> QED  BY <2>1
<1>5. o \in Injection(1..total, There)
  BY <1>2, <1>4 DEF Injection, IsInjective
<1>6. Cardinality(1..total) = total
  BY FS_Interval
<1>7. o \in Surjection(1..total, There)
  BY <1>1, <1>5, <1>6, Lengths, FS_Injection
<1>8. \A s \in There : \E k \in 1..total : o[k] = s
  BY <1>7 DEF Surjection
<1>9. PICK k \in 1..total : o[k] = r
  BY <1>8
<1>10. Below(r) = {o[i] : i \in 1..k - 1}
  <2>1. ASSUME NEW i \in 1..k - 1 PROVE o[i] \in Below(r)
    <3>1. i \in 1..total /\ i < k
      BY <2>1
    <3>2. o[i] \in There /\ o[i] # r /\ place[o[i]] <= place[r]
      BY <1>2, <1>9, <3>1
    <3>3. place[o[i]] # place[r]
      BY <3>2 DEF Tied
    <3>4. place[o[i]] \in Nat /\ place[r] \in Nat
      BY <1>3, <3>2
    <3>5. place[o[i]] < place[r]
      BY <3>2, <3>3, <3>4
    <3> QED  BY <3>2, <3>5 DEF Below
  <2>2. ASSUME NEW s \in Below(r) PROVE \E i \in 1..k - 1 : o[i] = s
    <3>1. s \in There /\ place[s] < place[r]
      BY <2>2 DEF Below
    <3>2. PICK j \in 1..total : o[j] = s
      BY <1>8, <3>1
    <3>3. place[s] \in Nat /\ place[r] \in Nat /\ ~(place[r] <= place[s])
      BY <1>3, <3>1
    <3>4. ~(k < j) /\ k # j
      BY <1>2, <1>9, <3>2, <3>3, <3>1
    <3>5. j \in 1..k - 1
      BY <3>4
    <3> QED  BY <3>2, <3>5
  <2> QED  BY <2>1, <2>2
<1>11. Cardinality(Below(r)) = k - 1
  <2>1. k - 1 \in Int /\ k - 1 <= Cardinality(There) /\ 1 \in Nat \ {0}
    BY <1>1
  <2>2. Cardinality(Below(r)) = Larger(0, (k - 1) - 1 + 1)
    BY <1>10, <2>1, Stretches
  <2> QED  BY <2>2 DEF Larger
<1>12. Cardinality(Below(r)) + 1 = k
  BY <1>11
<1>13. \A i \in 1..total : o[i] = r <=> i = k
  BY <1>4, <1>9
<1> QED  BY <1>1, <1>12, <1>13

\* What is read of page n.
LEMMA PagesShow ==
    ASSUME ListsTypeOK, NEW n \in Nat \ {0}, NEW got \in PagesAt(n)
    PROVE  /\ got \subseteq There
           /\ Cardinality(got) = SizeOf(n, Cardinality(There))
           /\ \A r \in There : ~Tied(r) =>
                r \in got <=> /\ (n - 1) * PageSize <= Cardinality(Below(r))
                              /\ Cardinality(Below(r)) < n * PageSize
<1>1. PICK total \in Nat : total = Cardinality(There)
  BY Lengths
<1>2. PICK skip \in Nat : skip = Skip(n) /\ skip = (n - 1) * PageSize /\ n * PageSize = skip + PageSize
  BY Skips DEF Skip
<1>3. PICK size \in Nat : size = PageSize /\ size >= 1
  BY PageSizes
<1>4. PICK b \in Int : b = Smaller(skip + size, total)
  BY DEF Smaller
<1>5. b <= total /\ b <= skip + size /\ (b = total \/ b = skip + size)
  BY <1>4 DEF Smaller
<1>6. PICK o \in Orders : got = {o[i] : i \in skip + 1..b}
  BY <1>1, <1>2, <1>3, <1>4 DEF PagesAt
<1>7. got \subseteq There /\ Cardinality(got) = Larger(0, b - (skip + 1) + 1)
  <2>1. skip + 1 \in Nat \ {0} /\ b <= Cardinality(There)
    BY <1>1, <1>5
  <2> QED  BY <1>6, <2>1, Stretches
<1>8. b - (skip + 1) + 1 = Smaller(size, total - skip)
  BY <1>4 DEF Smaller
<1>9. ASSUME NEW r \in There, ~Tied(r)
      PROVE  r \in got <=> skip <= Cardinality(Below(r)) /\ Cardinality(Below(r)) < skip + size
  <2>1. PICK at \in Nat : at = Cardinality(Below(r))
    BY Lengths
  <2>2. at + 1 \in 1..total /\ \A k \in 1..total : o[k] = r <=> k = at + 1
    BY <1>1, <1>9, <2>1, Positions
  <2>3. \A i \in skip + 1..b : i \in 1..total
    BY <1>5
  <2>4. r \in got <=> at + 1 \in skip + 1..b
    BY <1>6, <2>2, <2>3
  <2>5. at + 1 \in skip + 1..b <=> skip <= at /\ at < skip + size
    BY <1>5, <2>2
  <2> QED  BY <2>1, <2>4, <2>5
<1> QED  BY <1>1, <1>2, <1>3, <1>7, <1>8, <1>9 DEF SizeOf

-----------------------------------------------------------------------------
Pages == [number : Nat, rows : {Unread} \cup SUBSET ListRows, total : Nat \cup {Unread},
          torn : BOOLEAN]
Walks == [left : SUBSET (ListRows \X Places), came : SUBSET (ListRows \X Places),
          seen : SUBSET (ListRows \X Nat), straight : BOOLEAN]
TheTable ==
    /\ list \in ListPages
    /\ place \in [ListRows -> Places \cup {Unread}]
    /\ changes \in 0..MaxChanges

\* Nothing is read yet.
LEMMA Beginnings ==
    /\ NoPage \in Pages
    /\ NoPage.number = 0 /\ NoPage.rows = Unread /\ NoPage.total = Unread /\ NoPage.torn = FALSE
    /\ \A n \in Nat \ {0} :
         /\ Reading(n) \in Pages /\ Reading(n) # NoPage /\ Reading(n).number = n
         /\ Reading(n).rows = Unread /\ Reading(n).total = Unread /\ Reading(n).torn = FALSE
    /\ \A b \in BOOLEAN :
         /\ Walk(b) \in Walks /\ Walk(b).straight = b
         /\ Walk(b).seen = {} /\ Walk(b).left = {} /\ Walk(b).came = {}
<1>1. /\ NoPage \in Pages
      /\ NoPage.number = 0 /\ NoPage.rows = Unread /\ NoPage.total = Unread /\ NoPage.torn = FALSE
  <2>1. NoPage = [number |-> 0, rows |-> Unread, total |-> Unread, torn |-> FALSE]
    BY DEF NoPage
  <2>2. 0 \in Nat /\ FALSE \in BOOLEAN
    OBVIOUS
  <2>3. NoPage \in Pages
    BY <2>1, <2>2 DEF Pages
  <2>4. NoPage.number = 0 /\ NoPage.rows = Unread /\ NoPage.total = Unread
    BY <2>1
  <2>5. NoPage.torn = FALSE
    BY <2>1
  <2> QED  BY <2>3, <2>4, <2>5
<1>2. ASSUME NEW n \in Nat \ {0}
      PROVE  /\ Reading(n) \in Pages /\ Reading(n) # NoPage /\ Reading(n).number = n
             /\ Reading(n).rows = Unread /\ Reading(n).total = Unread /\ Reading(n).torn = FALSE
  <2>1. Reading(n) = [number |-> n, rows |-> Unread, total |-> Unread, torn |-> FALSE]
    <3>1. NoPage = [number |-> 0, rows |-> Unread, total |-> Unread, torn |-> FALSE]
      BY DEF NoPage
    <3>2. Reading(n) = [NoPage EXCEPT !.number = n]
      BY DEF Reading
    <3> QED  BY <3>1, <3>2
  <2> QED  BY <1>1, <2>1 DEF Pages
<1>3. ASSUME NEW b \in BOOLEAN
      PROVE  /\ Walk(b) \in Walks /\ Walk(b).straight = b
             /\ Walk(b).seen = {} /\ Walk(b).left = {} /\ Walk(b).came = {}
  BY DEF Walk, Walks
<1> QED  BY <1>1, <1>2, <1>3

\* A list that is opened.
Opened ==
    /\ TheTable
    /\ address \in {1, 2} /\ loading = Reading(address) /\ page = NoPage
    /\ \E straight \in BOOLEAN : walk = Walk(straight) /\ (straight => address = 1)

\* A list just opened shows nothing yet.
LEMMA OpenedFits == Opened => LInv
<1> SUFFICES ASSUME Opened PROVE LInv
  OBVIOUS
<1>1. TheTable /\ address \in Nat \ {0} /\ loading = Reading(address) /\ page = NoPage
  BY DEF Opened
<1>2. /\ walk \in Walks /\ walk.seen = {} /\ walk.left = {}
      /\ walk.straight => address = 1
  BY Beginnings DEF Opened
<1>3. /\ loading \in Pages /\ loading # NoPage /\ loading.number = address
      /\ loading.rows = Unread /\ loading.total = Unread
  BY <1>1, Beginnings
<1>4. ListsTypeOK
  BY <1>1, <1>2, <1>3, Beginnings DEF ListsTypeOK, TheTable, Pages, Walks
<1>5. PagesFit
  BY <1>1, <1>3 DEF PagesFit
<1>6. ReadFits(loading)
  BY <1>3 DEF ReadFits
<1>7. SizesFit
  BY <1>1, <1>2, <1>3 DEF SizesFit, SizesAgree
<1>8. WalkFits
  BY <1>1, <1>2 DEF WalkFits, SeenOn
<1> QED  BY <1>4, <1>5, <1>6, <1>7, <1>8 DEF LInv

\* A list is opened first.
LEMMA ListsInitEstablishes == ListsInit => LInv
<1>1. ListsInit => Opened
  <2> SUFFICES ASSUME ListsInit PROVE Opened
    OBVIOUS
  <2>1. changes \in 0..MaxChanges
    BY ListsAssumption DEF ListsInit
  <2> QED  BY <2>1 DEF ListsInit, Opened, TheTable
<1> QED  BY <1>1, OpenedFits

\* The shapes, named one by one for the steps below.
LEMMA ShapesNow ==
    ASSUME LInv
    PROVE  /\ TheTable /\ loading \in Pages /\ page \in Pages /\ walk \in Walks
           /\ address \in Nat \ {0}
           /\ loading # NoPage => loading.number = address
           /\ loading = NoPage => page # NoPage /\ page.number = address
           /\ page # NoPage => /\ page.number \in Nat \ {0}
                               /\ page.rows \in SUBSET ListRows /\ page.total \in Nat
<1>1. /\ list \in ListPages /\ place \in [ListRows -> Places \cup {Unread}]
      /\ changes \in 0..MaxChanges
      /\ {loading, page} \subseteq Pages /\ walk \in Walks
  BY DEF LInv, ListsTypeOK, Pages, Walks
<1>2. TheTable /\ loading \in Pages /\ page \in Pages
  BY <1>1 DEF TheTable
<1>3. page.number \in Nat /\ page.rows \in {Unread} \cup SUBSET ListRows
      /\ page.total \in Nat \cup {Unread}
  BY <1>2 DEF Pages
<1>4. PagesFit
  BY DEF LInv
<1> QED  BY <1>1, <1>2, <1>3, <1>4 DEF PagesFit

\* The buttons lead from the page on the screen to its neighbour.
LEMMA ButtonsPreserve ==
    ASSUME LInv, NextPage \/ PrevPage
    PROVE  LInv'
<1>0. /\ TheTable /\ page \in Pages /\ walk \in Walks /\ address \in Nat \ {0}
      /\ page # NoPage /\ page.number \in Nat \ {0}
      /\ page.rows \in SUBSET ListRows /\ page.total \in Nat
      /\ UNCHANGED <<list, place, changes, page>> /\ loading' = Reading(address')
  BY ShapesNow DEF NextPage, PrevPage
<1>1. PICK onPage : onPage = Shown(page.total)
  OBVIOUS
<1>2. PICK pages \in Nat \ {0} : pages = TotalPages(page.total)
  BY <1>0, PagesHold
<1>3. /\ onPage \in Nat \ {0} /\ onPage <= pages
      /\ onPage < pages => onPage = address
  BY <1>0, <1>1, <1>2 DEF Shown, Smaller, Larger
<1>4. \/ address' = onPage + 1 /\ onPage < pages /\ walk' = walk
      \/ address' = onPage - 1 /\ onPage > 1 /\ walk' = Walk(FALSE)
  BY <1>1, <1>2 DEF NextPage, PrevPage
<1>5. address' \in Nat \ {0}
  <2>1. CASE address' = onPage + 1
    BY <1>3, <2>1
  <2>2. CASE address' = onPage - 1 /\ onPage > 1
    BY <1>3, <2>2
  <2> QED  BY <1>4, <2>1, <2>2
<1>6. /\ loading' \in Pages /\ loading' # NoPage /\ loading'.number = address'
      /\ loading'.rows = Unread /\ loading'.total = Unread
  BY <1>0, <1>5, Beginnings
<1>7. walk' \in Walks /\ (walk'.straight => walk' = walk /\ address' = address + 1)
  BY <1>0, <1>3, <1>4, Beginnings
<1>8. ListsTypeOK'
  BY <1>0, <1>5, <1>6, <1>7 DEF ListsTypeOK, TheTable, Pages, Walks
<1>9. PagesFit'
  BY <1>0, <1>5, <1>6 DEF PagesFit, LInv, NoPage
<1>10. ReadFits(loading)'
  BY <1>6 DEF ReadFits
<1>11. There' = There
  BY <1>0 DEF There
<1>12. SizesFit'
  <2>1. SizesAgree'
    <3>1. SizesAgree
      BY DEF LInv, SizesFit
    <3> QED  BY <1>0, <1>7, <3>1 DEF SizesAgree, NoPage, Skip
  <2>2. ASSUME walk'.straight, walk'.left = {}
        PROVE  page.total <= Cardinality(There) /\ Skip(address') < Cardinality(There)
    <3>1. walk' = walk /\ address' = onPage + 1 /\ onPage < pages
      BY <1>3, <1>4, <2>2, Beginnings
    <3>2. page.total <= Cardinality(There)
      BY <1>0, <2>2, <3>1 DEF LInv, SizesFit
    <3>3. Skip(address') = onPage * PageSize /\ onPage * PageSize < page.total /\ onPage * PageSize \in Nat
      BY <1>0, <1>2, <1>3, <3>1, Skips, PagesHold
    <3> QED  BY <1>0, <3>2, <3>3, Lengths
  <2> QED  BY <1>0, <1>6, <1>11, <2>1, <2>2 DEF SizesFit, NoPage
<1>13. walk'.straight => WalkFits'
  <2> SUFFICES ASSUME walk'.straight PROVE WalkFits'
    OBVIOUS
  <2>1. walk' = walk /\ address' = address + 1 /\ WalkFits
    BY <1>7 DEF LInv
  <2>2. page.number < address'
    <3>1. page.number <= address
      BY <1>0, ShapesNow, <2>1 DEF WalkFits
    <3> QED  BY <1>0, <2>1, <3>1
  <2>3. \A r : /\ (NoneLeft(r)' <=> NoneLeft(r)) /\ (NoneCame(r)' <=> NoneCame(r))
               /\ Below(r)' = Below(r) /\ SeenOn(r)' = SeenOn(r)
    BY <1>0, <2>1 DEF NoneLeft, NoneCame, Stayed, HadATie, Tied, Before, Below, SeenOn, There
  <2>4. \A n : Covered(n)' <=> Covered(n)
    BY <2>1 DEF Covered
  <2> QED  BY <1>0, <1>6, <2>1, <2>2, <2>3, <2>4 DEF WalkFits, NotYet, NoPage, TotalPages
<1> QED  BY <1>8, <1>9, <1>10, <1>12, <1>13 DEF LInv

\* A page is read on, and shown once both have been read.
LEMMA LoadsPreserve ==
    ASSUME LInv, loading # NoPage, NEW read \in Pages, read.number = loading.number,
           ReadFits(read), Loads(read),
           UNCHANGED <<list, place, changes, address>>
    PROVE  LInv'
<1>0. /\ TheTable /\ loading \in Pages /\ page \in Pages /\ walk \in Walks
      /\ address \in Nat \ {0} /\ loading.number = address
      /\ page # NoPage => page.number \in Nat \ {0}
                          /\ page.rows \in SUBSET ListRows /\ page.total \in Nat
  BY ShapesNow
<1>1. There' = There /\ \A r : Below(r)' = Below(r)
  BY DEF There, Below
<1>2. read # NoPage
  BY <1>0, Beginnings
<1>3. CASE read.rows = Unread \/ read.total = Unread
  <2>1. loading' = read /\ page' = page /\ walk' = walk
    BY <1>3 DEF Loads
  <2>2. ListsTypeOK'
    BY <1>0, <2>1 DEF ListsTypeOK, TheTable, Pages, Walks
  <2>3. PagesFit'
    BY <1>0, <1>2, <1>3, <2>1 DEF PagesFit, LInv, NoPage
  <2>4. \A r : /\ (NoneLeft(r)' <=> NoneLeft(r)) /\ (NoneCame(r)' <=> NoneCame(r))
               /\ SeenOn(r)' = SeenOn(r)
    BY <1>1, <2>1 DEF NoneLeft, NoneCame, Stayed, HadATie, Tied, Before, SeenOn
  <2>5. \A n : Covered(n)' <=> Covered(n)
    BY <2>1 DEF Covered
  <2>6. ReadFits(loading)'
    BY <1>1, <2>1, <2>4, <2>5 DEF ReadFits, NotYet, Already, SizeOf, Skip
  <2>7. SizesFit'
    BY <1>1, <1>2, <2>1 DEF LInv, SizesFit, SizesAgree, Skip, NoPage
  <2>8. walk'.straight => WalkFits'
    BY <1>1, <1>2, <2>1, <2>4, <2>5 DEF LInv, WalkFits, NotYet, NoPage, TotalPages
  <2> QED  BY <2>2, <2>3, <2>6, <2>7, <2>8 DEF LInv
<1>4. CASE read.rows # Unread /\ read.total # Unread
  <2>1. /\ page' = read /\ loading' = NoPage
        /\ walk' = IF walk.straight
                     THEN [walk EXCEPT !.seen = @ \cup {<<r, read.number>> : r \in read.rows}]
                     ELSE walk
    BY <1>4 DEF Loads
  <2>2. PICK n \in Nat \ {0} : n = read.number
    BY <1>0
  <2>3. PICK those \in SUBSET ListRows : those = read.rows
    BY <1>4 DEF Pages
  <2>4. PICK total \in Nat : total = read.total
    BY <1>4 DEF Pages
  <2>5. PICK length \in Nat : length = Cardinality(There)
    BY Lengths
  <2>6. /\ walk' \in Walks /\ walk'.left = walk.left /\ walk'.came = walk.came
        /\ walk'.straight = walk.straight
        /\ walk.straight => walk'.seen = walk.seen \cup {<<r, n>> : r \in those}
    <3>1. PICK seen : seen = walk.seen \cup {<<r, n>> : r \in those}
      OBVIOUS
    <3>2. seen \in SUBSET (ListRows \X Nat)
      BY <1>0, <3>1 DEF Walks
    <3>3. walk' = IF walk.straight THEN [walk EXCEPT !.seen = seen] ELSE walk
      BY <2>1, <2>2, <2>3, <3>1
    <3> QED  BY <1>0, <3>1, <3>2, <3>3 DEF Walks
  <2>7. ListsTypeOK'
    BY <1>0, <2>1, <2>6, Beginnings DEF ListsTypeOK, TheTable, Pages, Walks
  <2>8. PagesFit'
    BY <1>0, <1>2, <1>4, <2>1, <2>2 DEF PagesFit, NoPage
  <2>9. ReadFits(loading)'
    <3>1. loading'.rows = Unread /\ loading'.total = Unread
      BY <2>1, Beginnings
    <3> QED  BY <3>1 DEF ReadFits
  <2>10. read.torn \/ (Cardinality(those) = SizeOf(n, total) /\ total = length)
    BY <1>4, <2>2, <2>3, <2>4, <2>5 DEF ReadFits
  <2>11. SizesFit'
    <3>1. walk.straight /\ walk.left = {} =>
            total <= length /\ (n = 1 \/ Skip(n) < length)
      BY <1>4, <2>2, <2>4, <2>5 DEF LInv, SizesFit, ReadFits
    <3>2. walk.straight /\ walk.left = {} /\ total > 0 /\ those = {} => read.torn
      <4> SUFFICES ASSUME walk.straight, walk.left = {}, total > 0, those = {}, ~read.torn
                   PROVE  FALSE
        OBVIOUS
      <4>1. SizeOf(n, total) = 0 /\ total = length
        BY <2>10, FS_EmptySet
      <4>2. Skip(n) < total /\ Skip(n) \in Nat
        <5>1. Skip(1) = 0
          BY PageSizes DEF Skip
        <5>2. Skip(n) \in Nat
          BY Skips
        <5> QED  BY <2>10, <3>1, <5>1, <5>2
      <4> QED  BY <4>1, <4>2, PageSizes DEF SizeOf, Larger, Smaller
    <3>3. SizesAgree'
      BY <2>1, <2>2, <2>3, <2>4, <2>6, <2>10, <3>2 DEF SizesAgree, SizeOf, Skip
    <3> QED  BY <1>1, <2>1, <2>4, <2>5, <2>6, <3>1, <3>3 DEF SizesFit, NoPage
  <2>12. walk'.straight => WalkFits'
    <3> SUFFICES ASSUME walk.straight PROVE WalkFits'
      BY <2>6
    <3>1. /\ WalkFits
          /\ NotYet(n, those) /\ Already(n, those)
      BY <1>4, <2>2, <2>3 DEF LInv, ReadFits
    <3>2. /\ walk'.seen = walk.seen \cup {<<r, n>> : r \in those}
          /\ \A m \in walk.seen : m[2] \in Nat /\ m[2] < n
      <4>1. \A m \in walk.seen : m[2] \in Nat
        BY <1>0 DEF Walks
      <4>2. \A m \in walk.seen : page # NoPage /\ m[2] <= page.number /\ page.number < n
        BY <2>2, <3>1 DEF WalkFits
      <4>3. \A m \in walk.seen : m[2] < n
        BY <1>0, <4>1, <4>2
      <4> QED  BY <2>6, <4>1, <4>3
    <3>3. \A r : /\ (NoneLeft(r)' <=> NoneLeft(r)) /\ (NoneCame(r)' <=> NoneCame(r))
      BY <1>1, <2>6 DEF NoneLeft, NoneCame, Stayed, HadATie, Tied, Before
    <3>4. \A r : SeenOn(r)' = SeenOn(r) \cup (IF r \in those THEN {n} ELSE {})
      <4>1. ASSUME NEW r, NEW k PROVE k \in SeenOn(r)' <=> k \in SeenOn(r) \/ (r \in those /\ k = n)
        <5>1. k \in SeenOn(r)' <=> \E m \in walk'.seen : m[1] = r /\ m[2] = k
          BY DEF SeenOn
        <5>2. k \in SeenOn(r) <=> \E m \in walk.seen : m[1] = r /\ m[2] = k
          BY DEF SeenOn
        <5>3. \A m : m \in walk'.seen <=> m \in walk.seen \/ \E q \in those : m = <<q, n>>
          BY <3>2
        <5>4. (\E m : (\E q \in those : m = <<q, n>>) /\ m[1] = r /\ m[2] = k) <=> r \in those /\ k = n
          <6>1. ASSUME NEW q \in those, <<q, n>>[1] = r, <<q, n>>[2] = k PROVE r \in those /\ k = n
            BY <6>1
          <6>2. r \in those /\ k = n => <<r, n>>[1] = r /\ <<r, n>>[2] = k
            OBVIOUS
          <6> QED  BY <6>1, <6>2
        <5> QED  BY <5>1, <5>2, <5>3, <5>4
      <4> QED  BY <4>1
    <3>5. Covered(n - 1)' => Covered(n - 1)
      <4> SUFFICES ASSUME Covered(n - 1)', NEW i \in 1..n - 1
                   PROVE  \E m \in walk.seen : m[2] = i
        BY DEF Covered
      <4>1. PICK m \in walk'.seen : m[2] = i
        BY DEF Covered
      <4>2. i # n
        OBVIOUS
      <4> QED  BY <3>2, <4>1, <4>2
    <3>6. \A m \in walk'.seen : m[2] <= n
      BY <3>2
    <3>7. ASSUME NEW r \in ListRows, NoneLeft(r), Covered(n - 1)', SeenOn(r)' = {}
          PROVE  Cardinality(Below(r)) >= n * PageSize
      <4>1. r \notin those /\ SeenOn(r) = {}
        BY <3>4, <3>7
      <4> QED  BY <3>1, <3>5, <3>7, <4>1 DEF NotYet
    <3>8. ASSUME NEW r \in ListRows, NoneCame(r)
          PROVE  /\ \A k \in SeenOn(r)' : Cardinality(Below(r)) < k * PageSize
                 /\ \A k, l \in SeenOn(r)' : k = l
      <4>1. CASE r \in those
        <5>1. SeenOn(r)' = {n} /\ Cardinality(Below(r)) < n * PageSize
          BY <3>1, <3>4, <3>8, <4>1 DEF Already
        <5> QED  BY <5>1
      <4>2. CASE r \notin those
        BY <3>1, <3>4, <3>8, <4>2 DEF WalkFits
      <4> QED  BY <4>1, <4>2
    <3>9. ASSUME ~read.torn, n >= TotalPages(total), Covered(n - 1)',
                 NEW r \in ListRows, NoneLeft(r), SeenOn(r)' = {}
          PROVE  FALSE
      <4>1. Cardinality(Below(r)) >= n * PageSize
        BY <3>7, <3>9
      <4>2. TotalPages(total) * PageSize <= n * PageSize /\ TotalPages(total) * PageSize \in Nat
            /\ n * PageSize \in Nat /\ total <= TotalPages(total) * PageSize
        BY <3>9, PagesHold, Multiples, Skips
      <4>3. Cardinality(Below(r)) < length
        <5>1. r \in There /\ Below(r) \subseteq There
          BY <3>9 DEF NoneLeft, Stayed, Below
        <5>2. place[r] \in Nat
          BY <1>0, <5>1, ListsAssumption DEF TheTable, There
        <5>3. r \notin Below(r)
          BY <5>2 DEF Below
        <5> QED  BY <2>5, <5>1, <5>3, Lengths, FS_Subset
      <4>4. Cardinality(Below(r)) \in Nat /\ total = length
        BY <2>10, <3>9, Lengths
      <4> QED  BY <4>1, <4>2, <4>3, <4>4
    <3>10. NotYet(page.number, {})'
      BY <1>1, <2>1, <2>2, <3>3, <3>7 DEF NotYet
    <3> QED  BY <1>1, <1>2, <2>1, <2>2, <2>4, <3>3, <3>6, <3>8, <3>9, <3>10 DEF WalkFits, NoPage, TotalPages
  <2> QED  BY <2>7, <2>8, <2>9, <2>11, <2>12 DEF LInv
<1> QED  BY <1>3, <1>4

\* Rows and count come one by one, and the page is shown with both.
LEMMA ReadsPreserve ==
    ASSUME LInv
    PROVE  ReadRows \/ Count => LInv'
<1>0. loading \in Pages /\ (loading # NoPage => loading.number \in Nat \ {0})
  BY ShapesNow
<1>1. ASSUME ReadRows PROVE LInv'
  <2>1. PICK got \in PagesAt(loading.number) : Loads([loading EXCEPT !.rows = got])
    BY <1>1 DEF ReadRows
  <2>2. PICK n \in Nat \ {0} : n = loading.number
    BY <1>0, <1>1 DEF ReadRows
  <2>3. PICK read : read = [loading EXCEPT !.rows = got]
    OBVIOUS
  <2>4. /\ got \subseteq There /\ got \subseteq ListRows
        /\ Cardinality(got) = SizeOf(n, Cardinality(There))
        /\ \A r \in There : ~Tied(r) =>
             r \in got <=> /\ (n - 1) * PageSize <= Cardinality(Below(r))
                           /\ Cardinality(Below(r)) < n * PageSize
    <3>1. ListsTypeOK
      BY DEF LInv
    <3> QED  BY <2>2, <3>1, PagesShow DEF There
  <2>5. loading \in Pages
    BY ShapesNow
  <2>6. /\ read \in Pages /\ read.number = n /\ read.rows = got
        /\ read.total = loading.total /\ read.torn = loading.torn
    BY <2>2, <2>3, <2>4, <2>5 DEF Pages
  <2>7. ASSUME walk.straight PROVE NotYet(n, got) /\ Already(n, got)
    <3>1. /\ WalkFits
          /\ walk \in Walks /\ (page # NoPage => page.number \in Nat /\ page.number < n)
      BY <1>1, <2>2, <2>7, ShapesNow DEF LInv, WalkFits, ReadRows
    <3>2. \A r \in ListRows : SeenOn(r) \subseteq Nat /\ \A k \in SeenOn(r) : k <= n - 1
      <4>1. ASSUME NEW m \in walk.seen PROVE m[2] \in Nat /\ m[2] <= n - 1
        <5>1. m[2] \in Nat
          BY <3>1 DEF Walks
        <5>2. m[2] <= page.number /\ page.number \in Nat /\ page.number < n
          BY <3>1 DEF WalkFits
        <5> QED  BY <5>1, <5>2
      <4> QED  BY <4>1 DEF SeenOn
    <3>3. ASSUME NEW r \in ListRows, NoneLeft(r), Covered(n - 1), SeenOn(r) = {}, r \notin got
          PROVE  Cardinality(Below(r)) >= n * PageSize
      <4>1. r \in There /\ ~Tied(r)
        BY <3>3 DEF NoneLeft, Stayed, HadATie
      <4>2. Cardinality(Below(r)) >= (n - 1) * PageSize
        <5>1. CASE n = 1
          <6>1. (n - 1) * PageSize = 0
            BY <5>1, PageSizes
          <6> QED  BY <6>1, Lengths
        <5>2. CASE n # 1
          <6>1. n - 1 \in 1..n - 1
            BY <5>2
          <6>2. PICK m \in walk.seen : m[2] = n - 1
            BY <3>3, <6>1 DEF Covered
          <6>3. page # NoPage /\ n - 1 <= page.number
            BY <3>1, <6>2 DEF WalkFits
          <6>4. page.number = n - 1
            BY <3>1, <6>3
          <6>5. Covered(page.number - 1)
            <7>1. \A i \in 1..page.number - 1 : i \in 1..n - 1
              BY <6>4
            <7> QED  BY <3>3, <7>1 DEF Covered
          <6>6. NotYet(page.number, {})
            BY <3>1, <6>3 DEF WalkFits
          <6> QED  BY <3>3, <6>4, <6>5, <6>6 DEF NotYet
        <5> QED  BY <5>1, <5>2
      <4>3. Cardinality(Below(r)) \in Nat /\ n * PageSize \in Nat
        BY Lengths, Skips
      <4> QED  BY <2>4, <3>3, <4>1, <4>2, <4>3
    <3>4. ASSUME NEW r \in got, NoneCame(r)
          PROVE  Cardinality(Below(r)) < n * PageSize /\ SeenOn(r) = {}
      <4>1. r \in There /\ r \in ListRows /\ ~Tied(r)
        BY <2>4, <3>4 DEF NoneCame, HadATie
      <4>2. /\ (n - 1) * PageSize <= Cardinality(Below(r))
            /\ Cardinality(Below(r)) < n * PageSize
        BY <2>4, <4>1
      <4>3. ASSUME NEW k \in SeenOn(r) PROVE FALSE
        <5>1. k \in Nat /\ n - 1 \in Nat /\ k <= n - 1
          BY <3>2, <4>1
        <5>2. k * PageSize \in Nat /\ k * PageSize <= (n - 1) * PageSize /\ (n - 1) * PageSize \in Nat
          BY <5>1, Multiples
        <5>3. Cardinality(Below(r)) < k * PageSize /\ Cardinality(Below(r)) \in Nat
          BY <3>1, <3>4, <4>1, Lengths DEF WalkFits
        <5> QED  BY <4>2, <5>2, <5>3
      <4> QED  BY <4>2, <4>3
    <3> QED  BY <3>3, <3>4 DEF NotYet, Already
  <2>8. ReadFits(read)
    <3>1. ReadFits(loading)
      BY DEF LInv
    <3> QED  BY <2>4, <2>6, <2>7, <3>1 DEF ReadFits
  <2> QED  BY <1>1, <2>1, <2>2, <2>3, <2>6, <2>8, LoadsPreserve DEF ReadRows
<1>2. ASSUME Count PROVE LInv'
  <2>1. PICK read : read = [loading EXCEPT !.total = Cardinality(There)]
    OBVIOUS
  <2>2. loading \in Pages /\ Cardinality(There) \in Nat
    BY ShapesNow, Lengths
  <2>3. /\ read \in Pages /\ read.number = loading.number /\ read.rows = loading.rows
        /\ read.total = Cardinality(There) /\ read.torn = loading.torn
    BY <2>1, <2>2 DEF Pages
  <2>4. ReadFits(read)
    <3>1. ReadFits(loading)
      BY DEF LInv
    <3> QED  BY <2>2, <2>3, <3>1 DEF ReadFits
  <2> QED  BY <1>2, <2>1, <2>3, <2>4, LoadsPreserve DEF Count
<1> QED  BY <1>1, <1>2

\* A change of the table under the reader.
LEMMA ChangesPreserve ==
    ASSUME LInv, NEW r \in ListRows, NEW p \in Places \cup {Unread}, p # place[r], Puts(r, p)
    PROVE  LInv'
<1>0. /\ TheTable /\ loading \in Pages /\ page \in Pages /\ walk \in Walks
      /\ address \in Nat \ {0}
      /\ page # NoPage => page.number \in Nat \ {0}
                          /\ page.rows \in SUBSET ListRows /\ page.total \in Nat
  BY ShapesNow
<1>1. /\ changes < MaxChanges /\ changes' = changes + 1
      /\ place' = [place EXCEPT ![r] = p] /\ UNCHANGED <<list, address, page>>
      /\ loading' = [loading EXCEPT !.torn = @ \/ loading.rows # Unread \/ loading.total # Unread]
  BY DEF Puts
<1>2. /\ place \in [ListRows -> Places \cup {Unread}] /\ Unread \notin Nat /\ Places \subseteq Nat
      /\ place'[r] = p /\ \A q \in ListRows \ {r} : place'[q] = place[q]
      /\ place' \in [ListRows -> Places \cup {Unread}]
  BY <1>0, <1>1, ListsAssumption DEF TheTable
<1>3. TheTable'
  <2>1. changes' \in 0..MaxChanges
    BY <1>0, <1>1, ListsAssumption DEF TheTable
  <2> QED  BY <1>0, <1>1, <1>2, <2>1 DEF TheTable
<1>4. PICK torn \in BOOLEAN : torn = (loading.torn \/ loading.rows # Unread \/ loading.total # Unread)
  OBVIOUS
<1>5. /\ loading' \in Pages /\ loading'.number = loading.number /\ loading'.torn = torn
      /\ loading'.rows = loading.rows /\ loading'.total = loading.total
  BY <1>0, <1>1, <1>4 DEF Pages
<1>6. loading' = NoPage <=> loading = NoPage
  <2>1. loading = NoPage => loading' = NoPage
    <3>1. ASSUME loading = NoPage PROVE loading' = NoPage
      <4>1. torn = loading.torn
        BY <1>4, <3>1, Beginnings
      <4> QED  BY <1>0, <1>1, <1>4, <3>1, <4>1 DEF Pages
    <3> QED  BY <3>1
  <2>2. loading # NoPage => loading.number # 0
    BY ShapesNow
  <2> QED  BY <1>5, <2>1, <2>2, Beginnings
<1>7. /\ walk' \in Walks /\ walk'.straight = walk.straight /\ walk'.seen = walk.seen
      /\ walk.straight =>
           /\ \A m : m \in walk'.left <=> m \in walk.left \/ (m = <<r, place[r]>> /\ place[r] # Unread)
           /\ \A m : m \in walk'.came <=> m \in walk.came \/ (m = <<r, p>> /\ p # Unread)
  <2>1. CASE ~walk.straight
    BY <1>0, <2>1 DEF Puts
  <2>2. CASE walk.straight
    <3>1. PICK left : left = walk.left \cup ({<<r, place[r]>>} \ {<<r, Unread>>})
      OBVIOUS
    <3>2. PICK came : came = walk.came \cup ({<<r, p>>} \ {<<r, Unread>>})
      OBVIOUS
    <3>3. walk' = [walk EXCEPT !.left = left, !.came = came]
      BY <2>2, <3>1, <3>2 DEF Puts
    <3>4. /\ \A m : m \in left <=> m \in walk.left \/ (m = <<r, place[r]>> /\ place[r] # Unread)
          /\ \A m : m \in came <=> m \in walk.came \/ (m = <<r, p>> /\ p # Unread)
      BY <3>1, <3>2
    <3>5. left \in SUBSET (ListRows \X Places) /\ came \in SUBSET (ListRows \X Places)
      BY <1>0, <1>2, <3>4 DEF Walks
    <3> QED  BY <1>0, <2>2, <3>3, <3>4, <3>5 DEF Walks
  <2> QED  BY <2>1, <2>2
<1>8. ListsTypeOK'
  BY <1>0, <1>1, <1>3, <1>5, <1>7 DEF ListsTypeOK, TheTable, Pages, Walks
<1>9. PagesFit'
  BY <1>1, <1>5, <1>6 DEF PagesFit, LInv, NoPage
<1>10. ASSUME NEW q, walk.straight, q \in Stayed'
       PROVE  q \in Stayed /\ q # r /\ q \in ListRows /\ place'[q] = place[q]
  <2>1. q \in ListRows /\ place'[q] # Unread
    BY <1>10 DEF Stayed, There
  <2>2. q # r
    <3>1. SUFFICES ASSUME q = r PROVE FALSE
      OBVIOUS
    <3>2. p \in Places /\ p # Unread
      BY <1>2, <2>1, <3>1
    <3>3. <<r, p>> \in walk'.came
      BY <1>7, <1>10, <3>2
    <3> QED  BY <1>10, <3>1, <3>2, <3>3 DEF Stayed
  <2>3. q \in There
    BY <1>2, <2>1, <2>2 DEF There
  <2> QED  BY <1>2, <1>7, <1>10, <2>1, <2>2, <2>3 DEF Stayed
<1>11. ASSUME NEW q, walk.straight, q \in Stayed', ~HadATie(q)'
       PROVE  ~HadATie(q)
  <2>1. q \in Stayed /\ q # r /\ place'[q] = place[q]
    BY <1>10, <1>11
  <2>2. \A m \in walk.left \cup walk.came : m[2] # place[q]
    BY <1>7, <1>11, <2>1 DEF HadATie
  <2>3. ASSUME NEW s \in There \ {q}, place[s] = place[q] PROVE FALSE
    <3>1. CASE s = r
      <4>1. <<r, place[r]>> \in walk'.left
        BY <1>7, <1>11, <2>3, <3>1 DEF There
      <4>2. <<r, place[r]>>[2] = place'[q]
        BY <2>1, <2>3, <3>1
      <4> QED  BY <1>11, <4>1, <4>2 DEF HadATie
    <3>2. CASE s # r
      <4>1. s \in There' /\ place'[s] = place'[q]
        BY <1>2, <2>1, <2>3, <3>2 DEF There
      <4> QED  BY <1>11, <2>3, <4>1 DEF HadATie, Tied
    <3> QED  BY <3>1, <3>2
  <2> QED  BY <2>2, <2>3 DEF HadATie, Tied
<1>12. ASSUME NEW q, walk.straight, NoneLeft(q)'
       PROVE  NoneLeft(q) /\ Cardinality(Below(q)') >= Cardinality(Below(q))
  <2>1. q \in Stayed /\ ~HadATie(q) /\ q # r /\ q \in ListRows /\ place'[q] = place[q]
    BY <1>10, <1>11, <1>12 DEF NoneLeft
  <2>2. ~Before(q, walk.left)
    BY <1>7, <1>12, <2>1 DEF NoneLeft, Before
  <2>3. Below(q) \subseteq Below(q)'
    <3>1. ASSUME NEW s \in Below(q) PROVE s \in Below(q)'
      <4>1. s \in There /\ place[s] < place[q]
        BY <3>1 DEF Below
      <4>2. s # r
        <5>1. SUFFICES ASSUME s = r PROVE FALSE
          OBVIOUS
        <5>2. <<r, place[r]>> \in walk'.left /\ <<r, place[r]>>[2] = place[r]
          BY <1>7, <1>12, <4>1, <5>1 DEF There
        <5>3. place[r] \in Nat /\ place[q] \in Nat
          BY <1>2, <2>1, <4>1, <5>1 DEF There, Stayed
        <5>4. place[r] <= place'[q]
          BY <2>1, <4>1, <5>1, <5>3
        <5> QED  BY <1>12, <5>2, <5>4 DEF NoneLeft, Before
      <4> QED  BY <1>2, <2>1, <4>1, <4>2 DEF Below, There
    <3> QED  BY <3>1
  <2>4. IsFiniteSet(Below(q)')
    <3>1. IsFiniteSet(ListRows) /\ Below(q)' \subseteq ListRows
      BY ListsAssumption DEF Below, There
    <3> QED  BY <3>1, FS_Subset
  <2>5. Cardinality(Below(q)) <= Cardinality(Below(q)')
    BY <2>3, <2>4, FS_Subset
  <2> QED  BY <2>1, <2>2, <2>4, <2>5, Lengths, FS_CardinalityType DEF NoneLeft
<1>13. ASSUME NEW q, walk.straight, NoneCame(q)'
       PROVE  NoneCame(q) /\ Cardinality(Below(q)') <= Cardinality(Below(q))
              /\ Cardinality(Below(q)') \in Nat
  <2>1. q \in Stayed /\ ~HadATie(q) /\ q # r /\ q \in ListRows /\ place'[q] = place[q]
    BY <1>10, <1>11, <1>13 DEF NoneCame
  <2>2. ~Before(q, walk.came)
    BY <1>7, <1>13, <2>1 DEF NoneCame, Before
  <2>3. Below(q)' \subseteq Below(q)
    <3>1. ASSUME NEW s \in Below(q)' PROVE s \in Below(q)
      <4>1. s \in ListRows /\ place'[s] # Unread /\ place'[s] < place[q]
        BY <2>1, <3>1 DEF Below, There
      <4>2. s # r
        <5>1. SUFFICES ASSUME s = r PROVE FALSE
          OBVIOUS
        <5>2. <<r, p>> \in walk'.came /\ <<r, p>>[2] = p
          BY <1>2, <1>7, <1>13, <4>1, <5>1
        <5>3. p \in Nat /\ place[q] \in Nat
          BY <1>2, <2>1, <4>1, <5>1 DEF There, Stayed
        <5>4. p <= place'[q]
          BY <1>2, <2>1, <4>1, <5>1, <5>3
        <5> QED  BY <1>13, <5>2, <5>4 DEF NoneCame, Before
      <4> QED  BY <1>2, <2>1, <4>1, <4>2 DEF Below, There
    <3> QED  BY <3>1
  <2>4. IsFiniteSet(Below(q)) /\ Cardinality(Below(q)) \in Nat
    BY Lengths
  <2>5. Cardinality(Below(q)') <= Cardinality(Below(q)) /\ IsFiniteSet(Below(q)')
    BY <2>3, <2>4, FS_Subset
  <2>6. Cardinality(Below(q)') \in Nat
    BY <2>5, FS_CardinalityType
  <2> QED  BY <2>1, <2>2, <2>5, <2>6 DEF NoneCame
<1>14. ASSUME walk.straight, walk'.left = {}
       PROVE  walk.left = {} /\ Cardinality(There') \in Nat
              /\ Cardinality(There) <= Cardinality(There')
  <2>1. walk.left = {} /\ place[r] = Unread
    BY <1>7, <1>14
  <2>2. There \subseteq There' /\ There' \subseteq ListRows
    BY <1>2, <2>1 DEF There
  <2>3. IsFiniteSet(There')
    BY <2>2, ListsAssumption, FS_Subset
  <2> QED  BY <2>1, <2>2, <2>3, FS_Subset, FS_CardinalityType
<1>15. SeenOn(r)' = SeenOn(r) /\ \A q : SeenOn(q)' = SeenOn(q)
  BY <1>7 DEF SeenOn
<1>16. \A n : Covered(n)' <=> Covered(n)
  BY <1>7 DEF Covered
<1>17. ASSUME NEW n \in Nat, NEW those, walk.straight, NotYet(n, those),
              NEW q \in ListRows, NoneLeft(q)', Covered(n - 1), SeenOn(q) = {}, q \notin those
       PROVE  Cardinality(Below(q)') >= n * PageSize
  <2>1. Cardinality(Below(q)) >= n * PageSize /\ Cardinality(Below(q)') >= Cardinality(Below(q))
    BY <1>12, <1>17 DEF NotYet
  <2>2. Below(q)' \subseteq ListRows /\ IsFiniteSet(ListRows)
    BY ListsAssumption DEF Below, There
  <2>3. Cardinality(Below(q)') \in Nat /\ Cardinality(Below(q)) \in Nat /\ n * PageSize \in Nat
    BY <2>2, Lengths, Multiples, FS_Subset, FS_CardinalityType
  <2> QED  BY <2>1, <2>3
<1>18. ASSUME NEW n \in Nat, walk.straight,
              NEW q \in ListRows, NoneCame(q)', Cardinality(Below(q)) < n * PageSize
       PROVE  Cardinality(Below(q)') < n * PageSize
  <2>1. Cardinality(Below(q)') <= Cardinality(Below(q)) /\ Cardinality(Below(q)') \in Nat
    BY <1>13, <1>18
  <2>2. Cardinality(Below(q)) \in Nat /\ n * PageSize \in Nat
    BY Lengths, Multiples
  <2> QED  BY <1>18, <2>1, <2>2
<1>19. ReadFits(loading)'
  <2>1. loading'.rows # Unread \/ loading'.total # Unread => loading'.torn
    BY <1>4, <1>5
  <2>2. ReadFits(loading)
    BY DEF LInv
  <2>3. ASSUME walk'.straight, walk'.left = {}, loading'.total # Unread
        PROVE  loading'.total <= Cardinality(There')
    <3>1. loading.total <= Cardinality(There) /\ loading.total \in Nat
      BY <1>0, <1>5, <1>7, <1>14, <2>2, <2>3 DEF ReadFits, Pages
    <3> QED  BY <1>5, <1>7, <1>14, <2>3, <3>1, Lengths
  <2>4. ASSUME walk'.straight, loading'.rows # Unread
        PROVE  NotYet(loading.number, loading.rows)' /\ Already(loading.number, loading.rows)'
    <3>1. PICK n \in Nat : n = loading.number /\ n = loading'.number
      BY <1>0, <1>5 DEF Pages
    <3>2. PICK those \in SUBSET ListRows : those = loading.rows /\ those = loading'.rows
      BY <1>0, <1>5, <2>4 DEF Pages
    <3>3. NotYet(n, those) /\ Already(n, those) /\ walk.straight
      BY <1>7, <2>2, <2>4, <3>1, <3>2 DEF ReadFits
    <3>4. NotYet(loading.number, loading.rows)'
      BY <1>15, <1>16, <1>17, <3>1, <3>2, <3>3 DEF NotYet
    <3>5. Already(loading.number, loading.rows)'
      BY <1>13, <1>15, <1>18, <3>1, <3>2, <3>3 DEF Already
    <3> QED  BY <3>4, <3>5
  <2> QED  BY <2>1, <2>3, <2>4 DEF ReadFits
<1>20. SizesFit'
  <2>1. SizesFit
    BY DEF LInv
  <2>2. SizesAgree'
    <3>1. walk.straight /\ walk'.left = {} => walk.left = {}
      BY <1>14
    <3> QED  BY <1>1, <1>7, <2>1, <3>1 DEF SizesFit, SizesAgree, Skip, NoPage
  <2>3. ASSUME walk'.straight, walk'.left = {}
        PROVE  /\ page # NoPage => page.total <= Cardinality(There')
               /\ loading # NoPage => loading.number = 1 \/ Skip(loading.number) < Cardinality(There')
    <3>1. /\ page # NoPage => page.total <= Cardinality(There)
          /\ loading # NoPage => loading.number = 1 \/ Skip(loading.number) < Cardinality(There)
      BY <1>7, <1>14, <2>1, <2>3 DEF SizesFit
    <3>2. loading # NoPage => Skip(loading.number) \in Nat
      BY ShapesNow, Skips
    <3> QED  BY <1>0, <1>7, <1>14, <2>3, <3>1, <3>2, Lengths
  <2> QED  BY <1>1, <1>5, <1>6, <2>2, <2>3 DEF SizesFit, Skip, NoPage
<1>21. walk'.straight => WalkFits'
  <2> SUFFICES ASSUME walk.straight PROVE WalkFits'
    BY <1>7
  <2>1. WalkFits
    BY DEF LInv
  <2>2. page # NoPage => NotYet(page.number, {})'
    <3> SUFFICES ASSUME page # NoPage PROVE NotYet(page.number, {})'
      OBVIOUS
    <3>1. PICK n \in Nat : n = page.number /\ n = page'.number
      BY <1>0, <1>1
    <3> QED  BY <1>15, <1>16, <1>17, <2>1, <3>1 DEF WalkFits, NotYet
  <2>3. ASSUME NEW q \in ListRows, NoneCame(q)'
        PROVE  /\ \A n \in SeenOn(q) : Cardinality(Below(q)') < n * PageSize
               /\ \A m, n \in SeenOn(q) : m = n
    <3>1. NoneCame(q)
      BY <1>13, <2>3
    <3>2. SeenOn(q) \subseteq Nat
      BY <1>0 DEF SeenOn, Walks
    <3> QED  BY <1>18, <2>1, <2>3, <3>1, <3>2 DEF WalkFits
  <2>4. \A q : NoneLeft(q)' => NoneLeft(q)
    BY <1>12
  <2> QED  BY <1>1, <1>5, <1>6, <1>7, <1>15, <1>16, <2>1, <2>2, <2>3, <2>4 DEF WalkFits, NoPage, TotalPages
<1> QED  BY <1>8, <1>9, <1>19, <1>20, <1>21 DEF LInv

\* Buttons, reads and changes under the reader, and a stutter.
LEMMA ListsNextPreserves ==
    ASSUME LInv, [ListsNext]_listsVars
    PROVE  LInv'
<1>0. TheTable
  BY ShapesNow
<1>1. ASSUME NEW number \in {1, 2}, OpenList(number) PROVE LInv'
  <2>1. Opened'
    <3>1. /\ UNCHANGED <<list, place, changes>> /\ address' = number
          /\ loading' = Reading(number) /\ page' = NoPage /\ walk' = Walk(number = 1)
      BY <1>1 DEF OpenList
    <3>2. TheTable'
      BY <1>0, <3>1 DEF TheTable
    <3>3. (number = 1) \in BOOLEAN
      OBVIOUS
    <3> QED  BY <3>1, <3>2, <3>3 DEF Opened, Reading, Walk, NoPage
  <2> QED  BY <2>1, OpenedFits, PTL
<1>2. CASE NextPage \/ PrevPage
  BY <1>2, ButtonsPreserve
<1>3. CASE ReadRows \/ Count
  BY <1>3, ReadsPreserve
<1>4. ASSUME NEW r \in ListRows, RowLeaves(r) PROVE LInv'
  <2>1. Puts(r, Unread) /\ place[r] # Unread
    BY <1>4 DEF RowLeaves, There
  <2> QED  BY <2>1, ChangesPreserve
<1>5. ASSUME NEW r \in ListRows, NEW p \in Places, RowArrives(r, p) \/ RowMoves(r, p) PROVE LInv'
  <2>1. Puts(r, p) /\ p # place[r]
    BY <1>5, ListsAssumption DEF RowArrives, RowMoves, There
  <2> QED  BY <2>1, ChangesPreserve
<1>6. CASE UNCHANGED listsVars
  <2>0. UNCHANGED <<list, place, changes, address, loading, page, walk>>
    BY <1>6 DEF listsVars
  <2>1. /\ There' = There
        /\ \A q : Below(q)' = Below(q) /\ SeenOn(q)' = SeenOn(q)
        /\ \A n : Covered(n)' <=> Covered(n)
    BY <2>0 DEF There, Below, SeenOn, Covered
  <2>2. \A q : /\ (NoneLeft(q)' <=> NoneLeft(q)) /\ (NoneCame(q)' <=> NoneCame(q))
    BY <2>0, <2>1 DEF NoneLeft, NoneCame, Stayed, HadATie, Tied, Before
  <2>3. ListsTypeOK' /\ PagesFit'
    BY <2>0 DEF LInv, ListsTypeOK, PagesFit, NoPage
  <2>4. ReadFits(loading)'
    BY <2>0, <2>1, <2>2 DEF LInv, ReadFits, NotYet, Already, SizeOf, Skip
  <2>5. SizesFit'
    BY <2>0, <2>1 DEF LInv, SizesFit, SizesAgree, Skip, NoPage
  <2>6. walk.straight => WalkFits'
    BY <2>0, <2>1, <2>2 DEF LInv, WalkFits, NotYet, NoPage, TotalPages
  <2> QED  BY <2>0, <2>3, <2>4, <2>5, <2>6 DEF LInv
<1> QED  BY <1>1, <1>2, <1>3, <1>4, <1>5, <1>6 DEF ListsNext

\* Who was not seen had left or come, who was seen twice had moved.
LEMMA LInvListsTell == ASSUME LInv PROVE ListsTell
<1>1. ASSUME Walked, page.number >= TotalPages(page.total), NEW r \in Stayed
      PROVE  SeenOn(r) # {} \/ Before(r, walk.left) \/ page.torn \/ HadATie(r)
  <2>1. walk.straight /\ page # NoPage /\ page.number \in Nat
    BY <1>1, ShapesNow DEF Walked
  <2>2. Covered(page.number - 1)
    <3>1. \A i \in 1..page.number - 1 : i \in 1..page.number /\ i # page.number
      BY <2>1
    <3> QED  BY <1>1, <3>1 DEF Walked, Covered
  <2>3. r \in ListRows
    BY DEF Stayed, There
  <2> QED  BY <1>1, <2>1, <2>2, <2>3 DEF LInv, WalkFits, NoneLeft
<1>2. ASSUME Walked, NEW r \in Stayed
      PROVE  Cardinality(SeenOn(r)) <= 1 \/ Before(r, walk.came) \/ HadATie(r)
  <2>1. SUFFICES ASSUME NoneCame(r) PROVE Cardinality(SeenOn(r)) <= 1
    BY DEF NoneCame
  <2>2. r \in ListRows /\ walk.straight
    BY <1>2 DEF Stayed, There, Walked
  <2>3. \A m, n \in SeenOn(r) : m = n
    BY <2>1, <2>2 DEF LInv, WalkFits
  <2>4. CASE SeenOn(r) = {}
    <3>1. Cardinality(SeenOn(r)) = 0
      BY <2>4, FS_EmptySet
    <3> QED  BY <3>1
  <2>5. CASE SeenOn(r) # {}
    <3>1. PICK n : SeenOn(r) = {n}
      BY <2>3, <2>5
    <3>2. Cardinality(SeenOn(r)) = 1
      BY <3>1, FS_Singleton
    <3> QED  BY <3>2
  <2> QED  BY <2>4, <2>5
<1>3. SizesAgree
  BY DEF LInv, SizesFit
<1> QED  BY <1>1, <1>2, <1>3 DEF ListsTell, MissesAreExplained, DoublesAreExplained

-----------------------------------------------------------------------------
(* The rules of dispatch. *)

\* The seed's rule is a rule.
LEMMA DispatchInitEstablishes ==
    ASSUME DispatchPolicyInit
    PROVE  DispatchPolicyTypeOK
BY DispatchPolicyAssumption DEF DispatchPolicyInit, DispatchPolicyTypeOK, SeedRule,
   Policy, Narrowings, DispatchModes

\* What a form saves is a rule, and a rule's mode a mode.
LEMMA DispatchNextPreserves ==
    ASSUME DispatchPolicyTypeOK, [DispatchPolicyNext]_dispatchPolicyVars
    PROVE  DispatchPolicyTypeOK'
<1>1. CASE UNCHANGED dispatchPolicyVars
  BY <1>1 DEF dispatchPolicyVars, DispatchPolicyTypeOK
<1>2. ASSUME NEW p \in Submitted, CreateDispatchRule(p)
      PROVE  DispatchPolicyTypeOK'
  <2>1. p \in Policy
    BY <1>2 DEF Submitted, Policy, Narrowings
  <2> QED
    BY <1>2, <2>1 DEF CreateDispatchRule, DispatchPolicyTypeOK
<1>3. ASSUME NEW p \in policies, DeleteDispatchRule(p)
      PROVE  DispatchPolicyTypeOK'
  BY <1>3 DEF DeleteDispatchRule, DispatchPolicyTypeOK
<1>4. CASE BookingMade
  <2>1. ASSUME NEW set \in SUBSET Policy
        PROVE  ModesOf(set) \subseteq DispatchModes
    BY DEF ModesOf, FirstOf, Policy, DispatchModes
  <2>2. ResolveDispatchPolicy \cup {"MANUAL"} \subseteq DispatchModes
    BY <2>1 DEF ResolveDispatchPolicy, DispatchPolicyTypeOK, DispatchModes
  <2> QED
    BY <1>4, <2>2 DEF BookingMade, DispatchPolicyTypeOK
<1> QED
  BY <1>1, <1>2, <1>3, <1>4 DEF DispatchPolicyNext

-----------------------------------------------------------------------------
(* The screens, and the office as a whole. *)

\* A step of the office is a step of a component or leaves it as it is.
LEMMA OfficeStepOfScreens ==
    ASSUME [OfficeNext]_officeVars
    PROVE  /\ [TripScreensNext]_tripScreensVars
           /\ [BookingFormsNext]_bookingFormsVars
           /\ [ListsNext]_listsVars
           /\ [LiveMapNext]_liveMapVars
BY DEF OfficeNext, officeVars

\* The same of what the invoices and the rules of dispatch are.
LEMMA OfficeStepOfTheRest ==
    ASSUME [OfficeNext]_officeVars
    PROVE  [Next]_vars /\ [DispatchPolicyNext]_dispatchPolicyVars
BY DEF OfficeNext, officeVars

ScreensInv == SInv /\ FormInv /\ LInv /\ MInv

\* Intentions are offered controls, unanswered questions fit the fields, pages
\* and positions fit the table, and messages fit the posts.
THEOREM ScreensInvariance == OfficeSpec => []ScreensInv
<1>1. OfficeInit => ScreensInv
  BY TripScreensInitEstablishes, BookingFormsInitEstablishes, ListsInitEstablishes,
     LiveMapInitEstablishes DEF OfficeInit, ScreensInv
<1>2. ScreensInv /\ [OfficeNext]_officeVars => ScreensInv'
  BY OfficeStepOfScreens, TripScreensNextPreserves, BookingFormsNextPreserves,
     ListsNextPreserves, LiveMapNextPreserves DEF ScreensInv
<1> QED
  BY <1>1, <1>2, PTL DEF OfficeSpec

\* For any trips, phones, drivers and vans, any lists, pages and rows, any posts
\* and messages: what a reader looks at is what the server holds, as far as it
\* has answered and as far as the rows stood still.
THEOREM ScreensAlwaysKeepUp == OfficeSpec => []ScreensKeepUp
<1>1. ScreensInv => ScreensKeepUp
  BY SInvPagesAgree, FormInvFormsSettle, LInvListsTell, MInvMapTells
     DEF ScreensInv, ScreensKeepUp
<1> QED  BY <1>1, ScreensInvariance, PTL

OfficeInv ==
    VInv /\ LimitedInv /\ RInv /\ FInv /\ ScreensInv /\ DispatchPolicyTypeOK

\* The ten invariants, each of which only its own component can disturb.
THEOREM OfficeInvariance == OfficeSpec => []OfficeInv
<1>1. OfficeInit => VInv /\ DispatchPolicyTypeOK
  BY InvoicesInitEstablishes, DispatchInitEstablishes DEF OfficeInit
<1>2. VInv /\ DispatchPolicyTypeOK /\ [OfficeNext]_officeVars
        => (VInv /\ DispatchPolicyTypeOK)'
  BY OfficeStepOfTheRest, InvoicesNextPreserves, DispatchNextPreserves
<1>3. OfficeSpec => [](VInv /\ DispatchPolicyTypeOK)
  BY <1>1, <1>2, PTL DEF OfficeSpec
<1>4. /\ VInv /\ DispatchPolicyTypeOK
      /\ LimitedInv /\ RInv /\ FInv /\ ScreensInv
      => OfficeInv
  BY DEF OfficeInv
<1> QED
  BY <1>3, <1>4, RequestsInvariance, RegistersInvariance, FaresInvariance,
     ScreensInvariance, PTL

\* Every component of the back office keeps its types.
THEOREM OfficeTypes == OfficeSpec => []OfficeTypesOK
<1>1. VInv => InvoicesTypeOK
  BY DEF VInv
<1>2. LimitedInv => DriverApiTypeOK /\ RateLimitTypeOK
  BY DEF LimitedInv, AInv, DayInv, LimInv
<1>3. RInv => RegistersTypeOK
  BY RInvTypes
<1>4. FInv => FareRulesTypeOK
  BY DEF FInv
<1>5. ScreensInv => /\ TripScreensTypeOK /\ BookingFormsTypeOK
                    /\ ListsTypeOK /\ LiveMapTypeOK
  BY DEF ScreensInv, SInv, FormInv, FormShapes, LInv, MInv
<1>6. OfficeSpec => [](office \in Offices)
  <2>1. OfficeInit => office \in Offices
    BY DEF OfficeInit
  <2>2. office \in Offices /\ [OfficeNext]_officeVars => (office \in Offices)'
    BY DEF OfficeNext, officeVars, Offices
  <2> QED
    BY <2>1, <2>2, PTL DEF OfficeSpec
<1>7. OfficeInv /\ office \in Offices => OfficeTypesOK
  BY <1>1, <1>2, <1>3, <1>4, <1>5 DEF OfficeInv, OfficeTypesOK, Offices
<1> QED
  BY <1>6, <1>7, OfficeInvariance, PTL
=============================================================================
