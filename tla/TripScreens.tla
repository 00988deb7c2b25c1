---------------------------- MODULE TripScreens -----------------------------
(***************************************************************************)
(* One trip as its people see it: the page of the desk, of the customer and *)
(* of a driver.  A page is rendered from one read of the row; its controls  *)
(* stay as rendered until it is rendered again, while others act.  A click  *)
(* calls a server action, which checks the row as it is by then and knows   *)
(* nothing of the page.                                                    *)
(*                                                                         *)
(* Actions of the server are single steps: what happens between their reads *)
(* and writes is in BookingLifecycle, TripTracking, Payments and Invoices.  *)
(* Pages of lists only lead to these pages.                                *)
(***************************************************************************)
EXTENDS BookingRules, FiniteSets, Naturals

CONSTANTS TripDrivers,    \* drivers
          TripCars,       \* vehicles of the trip's branch
          FlagThreshold,  \* LOCATION_SUSPICIOUS_THRESHOLD; bound of the flags
          MaxIntended,    \* bound: clicks intended at one time
          NoOne           \* no driver, no vehicle

ASSUME TripScreensAssumption ==
    /\ FlagThreshold \in Nat \ {0}
    /\ MaxIntended \in Nat \ {0}
    /\ NoOne \notin TripDrivers \cup TripCars
    /\ {"admin", "staff", "customer"} \cap TripDrivers = {}

VARIABLES trip,         \* the Booking row, its invoice and whether it is paid
          standing,     \* [TripDrivers -> Standings]
          serviceable,  \* the vehicles that are AVAILABLE or ON_TRIP
          intended      \* the controls of rendered pages that somebody will click

tripScreensVars == <<trip, standing, serviceable, intended>>

Desk == {"admin", "staff"}
Viewers == Desk \cup {"customer"} \cup TripDrivers

\* A driver can be sent (active or on leave), cannot, or is of another branch.
Standings == {"fit", "suspended", "elsewhere"}

TripRow == [status : Statuses, claimedBy : TripDrivers \cup {NoOne},
            driver : TripDrivers \cup {NoOne}, car : TripCars \cup {NoOne},
            consent : BOOLEAN, flags : 0..FlagThreshold,
            invoice : {"none", "issued", "void"}, paid : BOOLEAN]

\* listAssignableDrivers
AssignableDrivers == {d \in TripDrivers : standing[d] = "fit"}

-----------------------------------------------------------------------------
(* What a page rendered now offers.                                        *)

\* Mutant: the page goes by the rules of the status machine.
AllAllowed == AllowedTransitions

StaffManualTransitions ==
    ({"PENDING"} \X {"OPEN_FOR_CLAIM", "CANCELLED"})
    \cup ({"OPEN_FOR_CLAIM"} \X {"CANCELLED"})
    \cup ({"ASSIGNED"} \X {"DRIVER_EN_ROUTE", "CANCELLED"})
    \cup ({"DRIVER_EN_ROUTE"} \X {"IN_PROGRESS", "NO_SHOW"})
    \cup ({"IN_PROGRESS"} \X {"COMPLETED", "FAILED"})

DriverNextActions ==
    {<<"ASSIGNED", "DRIVER_EN_ROUTE">>, <<"DRIVER_EN_ROUTE", "IN_PROGRESS">>,
     <<"DRIVER_EN_ROUTE", "NO_SHOW">>, <<"IN_PROGRESS", "COMPLETED">>}

Buttons(relation) ==
    {<<"to", target>> : target \in {t \in Statuses : <<trip.status, t>> \in relation}}

Only(condition, control) == IF condition THEN {control} ELSE {}

AssignForm ==
    IF trip.status \in {"PENDING", "CLAIMED"}
    THEN {<<"assign", d, c>> : d \in AssignableDrivers, c \in serviceable}
    ELSE {}

DeskOffers ==
    Buttons(StaffManualTransitions)
    \cup AssignForm
    \cup Only(trip.flags > 0, <<"clear">>)
    \cup Only(trip.status = "PENDING", <<"edit">>)
    \cup Only(trip.invoice # "issued", <<"invoice">>)

IsMyTrip(d) == d \in {trip.claimedBy, trip.driver}

\* The page of another's trip is "not found", and so is an open one elsewhere.
DriverOffers(d) ==
    IF IsMyTrip(d)
    THEN Only(trip.status = "OPEN_FOR_CLAIM", <<"claim">>) \cup Buttons(DriverNextActions)
    ELSE Only(trip.status = "OPEN_FOR_CLAIM" /\ standing[d] # "elsewhere", <<"claim">>)

CustomerOffers ==
    Only(trip.status \in {"PENDING", "OPEN_FOR_CLAIM"}, <<"to", "CANCELLED">>)
    \cup Only(trip.status = "PENDING", <<"edit">>)
    \cup Only(~trip.consent /\ ~IsTerminalStatus(trip.status), <<"consent">>)
    \cup Only(~trip.paid, <<"pay">>)

Offers(who) ==
    CASE who \in Desk -> DeskOffers
      [] who = "customer" -> CustomerOffers
      [] OTHER -> DriverOffers(who)

-----------------------------------------------------------------------------
(* What the actions accept.                                                *)

\* BOOKING_OVERRIDE is not among the permissions of STAFF.
MayOverride(who) == who = "admin"

\* assertCanCompleteTrip
UnderReview == trip.flags >= FlagThreshold

AcceptsTransition(who, target) ==
    /\ CanTransition(trip.status, target)
    /\ target = "COMPLETED" => ~UnderReview
    /\ \/ target = "CANCELLED" /\ who \in Desk \cup {"customer"}
       \/ target \in StaffTargets /\ MayOverride(who)
       \/ target \in DriverAllowedTargets /\ who \in TripDrivers /\ IsMyTrip(who)

AcceptsAssign(d, c) ==
    standing[d] = "fit" /\ c \in serviceable /\ CanTransition(trip.status, "ASSIGNED")

\* ensureCanClaim looks at the driver, claimBooking for the status.
AcceptsClaim(d) == standing[d] = "fit" /\ trip.status = "OPEN_FOR_CLAIM"

Billable == trip.status \in {"COMPLETED", "IN_PROGRESS", "NO_SHOW"}

Accepts(who, control) ==
    CASE control[1] = "to" -> AcceptsTransition(who, control[2])
      [] control[1] = "assign" -> AcceptsAssign(control[2], control[3])
      [] control[1] = "claim" -> AcceptsClaim(who)
      [] control[1] = "edit" -> trip.status = "PENDING"
      [] control[1] = "consent" -> ~IsTerminalStatus(trip.status)
      [] control[1] = "clear" -> MayOverride(who)
      [] control[1] = "invoice" -> trip.invoice # "issued"
      [] control[1] = "pay" -> Billable /\ ~trip.paid

-----------------------------------------------------------------------------
(* What the actions do.                                                    *)

\* A completed trip is invoiced unless that fails, which nobody is told; a
\* checkout may be paid or left.  A crew is not taken off by a later status.
Effects(who, control) ==
    CASE control = <<"to", "COMPLETED">> ->
           {[trip EXCEPT !.status = "COMPLETED", !.invoice = i] : i \in {trip.invoice, "issued"}}
      [] control[1] = "to" /\ control[2] # "COMPLETED" -> {[trip EXCEPT !.status = control[2]]}
      [] control[1] = "assign" ->
           {[trip EXCEPT !.status = "ASSIGNED", !.driver = control[2], !.car = control[3]]}
      [] control[1] = "claim" -> {[trip EXCEPT !.status = "CLAIMED", !.claimedBy = who]}
      [] control[1] = "edit" -> {trip}
      [] control[1] = "consent" -> {[trip EXCEPT !.consent = TRUE]}
      [] control[1] = "clear" -> {[trip EXCEPT !.flags = 0]}
      [] control[1] = "invoice" -> {[trip EXCEPT !.invoice = "issued"]}
      [] control[1] = "pay" -> {trip, [trip EXCEPT !.paid = TRUE]}

TripScreensInit ==
    /\ trip \in [status : {"PENDING", "OPEN_FOR_CLAIM"}, claimedBy : {NoOne}, driver : {NoOne},
                 car : {NoOne}, consent : BOOLEAN, flags : {0}, invoice : {"none"}, paid : {FALSE}]
    /\ standing \in [TripDrivers -> Standings]
    /\ serviceable \in SUBSET TripCars
    /\ intended = {}

\* A page is rendered, and somebody makes up his mind.
Intend(who, control) ==
    /\ Cardinality(intended) < MaxIntended
    /\ control \in Offers(who)
    /\ intended' = intended \cup {<<who, control>>}
    /\ UNCHANGED <<trip, standing, serviceable>>

\* Refused, the click leaves a toast.
Click(who, control) ==
    /\ intended' = intended \ {<<who, control>>}
    /\ trip' \in IF Accepts(who, control) THEN Effects(who, control) ELSE {trip}
    /\ UNCHANGED <<standing, serviceable>>

\* A flagged point of the live trip is ingested.
PointFlagged ==
    /\ trip.status \in {"CLAIMED", "ASSIGNED", "DRIVER_EN_ROUTE", "IN_PROGRESS"}
    /\ trip.consent /\ ~UnderReview
    /\ trip' = [trip EXCEPT !.flags = @ + 1]
    /\ UNCHANGED <<standing, serviceable, intended>>

\* The desk captures what is due, or voids the invoice.
PaidAtTheDesk ==
    /\ ~trip.paid
    /\ trip' = [trip EXCEPT !.paid = TRUE]
    /\ UNCHANGED <<standing, serviceable, intended>>

InvoiceVoided ==
    /\ trip.invoice = "issued"
    /\ trip' = [trip EXCEPT !.invoice = "void"]
    /\ UNCHANGED <<standing, serviceable, intended>>

DriverEdited(d, s) ==
    /\ standing' = [standing EXCEPT ![d] = s]
    /\ UNCHANGED <<trip, serviceable, intended>>

CarEdited(c) ==
    /\ serviceable' \in {serviceable \cup {c}, serviceable \ {c}}
    /\ UNCHANGED <<trip, standing, intended>>

TripScreensNext ==
    \/ \E who \in Viewers : \E control \in Offers(who) : Intend(who, control)
    \/ \E click \in intended : Click(click[1], click[2])
    \/ PointFlagged \/ PaidAtTheDesk \/ InvoiceVoided
    \/ \E d \in TripDrivers, s \in Standings : DriverEdited(d, s)
    \/ \E c \in TripCars : CarEdited(c)

-----------------------------------------------------------------------------
\* Rows have the shape of the table; who clicks is one of the viewers.
TripScreensTypeOK ==
    /\ trip \in TripRow
    /\ standing \in [TripDrivers -> Standings]
    /\ serviceable \subseteq TripCars
    /\ \A click \in intended : click[1] \in Viewers

\* Offered and refused until something else happens: a completion under
\* review, a payment before the trip is under way, a claim by the suspended.
HeldBack(who, control) ==
    \/ control = <<"to", "COMPLETED">> /\ UnderReview
    \/ control[1] = "pay" /\ ~Billable
    \/ control[1] = "claim" /\ standing[who] = "suspended"

\* Accepted from an old page alone: a trip that has found its driver is
\* cancelled; consent given twice and flags cleared twice change nothing.
OutlivesItsPage(control) ==
    \/ control = <<"to", "CANCELLED">> /\ trip.status \in {"CLAIMED", "ASSIGNED"}
    \/ control = <<"consent">> /\ trip.consent /\ ~IsTerminalStatus(trip.status)
    \/ control = <<"clear">> /\ trip.flags = 0

\* However old the page a control is clicked on, and whatever the others did
\* since: the server accepts it exactly if the page, rendered again, would
\* still offer it.  The tables of the pages and the rules of the actions are
\* kept in different files; the exceptions are the ones named above, and STAFF,
\* who see the buttons of admins and are refused.
PagesAgree ==
    \A click \in intended : click[1] # "staff" =>
        \/ Accepts(click[1], click[2]) <=> click[2] \in Offers(click[1])
        \/ click[2] \in Offers(click[1]) /\ HeldBack(click[1], click[2])
        \/ OutlivesItsPage(click[2])
=============================================================================
