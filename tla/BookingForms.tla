---------------------------- MODULE BookingForms ----------------------------
(***************************************************************************)
(* The forms of a booking that ask the server while they are filled: the    *)
(* desk's (fare and caller), the customer's (fare), and the one that assigns *)
(* a driver (the vehicle he is paired with).  An answer may come when the   *)
(* fields it was asked for are others.                                      *)
(*                                                                         *)
(* One form, of a kind chosen in the initial state, until it is saved.  The *)
(* framework runs the server actions of one page one at a time, in order.   *)
(***************************************************************************)
EXTENDS Naturals, SequencesExt

CONSTANTS Trips,       \* what a fare is asked for: type, branch, addresses
          Phones,      \* complete numbers
          KnownPhones, \* those of a customer
          Pickable,    \* drivers in the list
          Vans,        \* vehicles in the list
          PairedWith,  \* [Pickable -> the paired vehicle in the list, or Unset]
          MaxAsked,    \* bound: actions waiting
          Unset        \* an empty or incomplete field

ASSUME BookingFormsAssumption ==
    /\ PairedWith \in [Pickable -> Vans \cup {Unset}]
    /\ KnownPhones \subseteq Phones
    /\ MaxAsked \in Nat \ {0}

VARIABLES form,      \* "desk", "customer" or "assign"; once saved, "left"
          field,     \* the fields trip, phone, driver and van
          stage,     \* the customer's: 0 type, 1 journey, 2 review
          timer,     \* the trip the desk's timer will ask the fare of, or Unset
          asked,     \* actions not answered yet
          shown,     \* the trip of the fare shown, the caller's phone
          unsure,    \* history: questions whose last answer was a failure
          byHand     \* history: the van was chosen after the driver, or with him

bookingFormsVars == <<form, field, stage, timer, asked, shown, unsure, byHand>>

Topics == {"fare", "caller", "van", "save"}
Ask(topic, of) == asked' = Append(asked, [topic |-> topic, of |-> of])
MayAsk == Len(asked) < MaxAsked
Awaits(topic) == \E i \in 1..Len(asked) : asked[i].topic = topic

\* A driver is assigned, or another one, with the trip's vehicle to begin with.
BookingFormsInit ==
    /\ form \in {"desk", "customer", "assign"}
    /\ \E driver \in Pickable \cup {Unset}, van \in Vans \cup {Unset} :
         /\ (driver = Unset) <=> (van = Unset)
         /\ driver # Unset => form = "assign"
         /\ field = [trip |-> Unset, phone |-> Unset, driver |-> driver, van |-> van]
    /\ stage = 0 /\ timer = Unset /\ asked = <<>>
    /\ shown = [fare |-> Unset, caller |-> Unset]
    /\ unsure = {} /\ byHand = TRUE

-----------------------------------------------------------------------------
(* The desk's form.                                                        *)

\* Mutant: a timer that runs is not started over.
DeskTimerRunsOn(trip) ==
    /\ form = "desk" /\ trip # field.trip
    /\ field' = [field EXCEPT !.trip = trip]
    /\ timer' = IF timer = Unset THEN trip ELSE timer
    /\ UNCHANGED <<form, stage, asked, shown, unsure, byHand>>

\* Every change of the trip starts the timer over; without a type it stops.
DeskEditsTrip(trip) ==
    /\ form = "desk" /\ trip # field.trip
    /\ field' = [field EXCEPT !.trip = trip]
    /\ timer' = trip
    /\ UNCHANGED <<form, stage, asked, shown, unsure, byHand>>

TimerFires ==
    /\ timer # Unset /\ form = "desk" /\ MayAsk
    /\ Ask("fare", timer)
    /\ timer' = Unset
    /\ UNCHANGED <<form, field, stage, shown, unsure, byHand>>

\* The cursor leaves the phone: lookupPhone.
DeskEntersPhone(phone) ==
    /\ form = "desk" /\ MayAsk
    /\ field' = [field EXCEPT !.phone = phone]
    /\ IF phone = Unset
       THEN shown' = [shown EXCEPT !.caller = Unset] /\ UNCHANGED asked
       ELSE Ask("caller", phone) /\ UNCHANGED shown
    /\ UNCHANGED <<form, stage, timer, unsure, byHand>>

-----------------------------------------------------------------------------
(* The customer's form: type, journey, review.                             *)

EditsTrip(trip) ==
    /\ form = "customer" /\ stage < 2
    /\ trip # field.trip
    /\ field' = [field EXCEPT !.trip = trip]
    /\ UNCHANGED <<form, stage, timer, asked, shown, unsure, byHand>>

GoNext ==
    /\ form = "customer" /\ stage < 2
    /\ field.trip # Unset
    /\ stage' = stage + 1
    /\ IF stage = 1 THEN MayAsk /\ Ask("fare", field.trip) ELSE UNCHANGED asked
    /\ UNCHANGED <<form, field, timer, shown, unsure, byHand>>

GoBack ==
    /\ form = "customer" /\ stage > 0
    /\ stage' = stage - 1
    /\ UNCHANGED <<form, field, timer, asked, shown, unsure, byHand>>

-----------------------------------------------------------------------------
(* The form that assigns.                                                  *)

\* What was asked for the driver before is answered in vain.
WithoutVan ==
    IF Awaits("van") THEN {RemoveAt(asked, i) : i \in {j \in 1..Len(asked) : asked[j].topic = "van"}}
    ELSE {asked}

PickDriver(driver) ==
    /\ form = "assign" /\ driver # field.driver
    /\ field' = [field EXCEPT !.driver = driver]
    /\ \E others \in WithoutVan :
         asked' = IF driver = Unset THEN others
                  ELSE Append(others, [topic |-> "van", of |-> driver])
    /\ Len(asked') <= MaxAsked
    /\ byHand' = FALSE
    /\ UNCHANGED <<form, stage, timer, shown, unsure>>

PickVan(van) ==
    /\ form = "assign"
    /\ field' = [field EXCEPT !.van = van]
    /\ byHand' = TRUE
    /\ UNCHANGED <<form, stage, timer, asked, shown, unsure>>

-----------------------------------------------------------------------------
(* Saves and answers.                                                      *)

Complete ==
    CASE form = "desk" -> field.trip # Unset /\ field.phone # Unset
      [] form = "customer" -> stage = 2
      [] form = "assign" -> field.driver # Unset /\ field.van # Unset
      [] OTHER -> FALSE

\* The button is dead until the answer.
Submit ==
    /\ Complete /\ MayAsk /\ ~Awaits("save")
    /\ Ask("save", Unset)
    /\ UNCHANGED <<form, field, stage, timer, shown, unsure, byHand>>

Answered(topic) == asked # <<>> /\ Head(asked).topic = topic /\ asked' = Tail(asked)

FareComes ==
    /\ Answered("fare")
    /\ \/ /\ shown' = [shown EXCEPT !.fare = Head(asked).of]
          /\ unsure' = unsure \ {"fare"}
       \/ unsure' = unsure \cup {"fare"} /\ UNCHANGED shown
    /\ UNCHANGED <<form, field, stage, timer, byHand>>

\* A failure is taken for a number nobody has.
CallerComes ==
    /\ Answered("caller")
    /\ \E found \in {Unset} \cup ({Head(asked).of} \cap KnownPhones) :
         shown' = [shown EXCEPT !.caller = found]
    /\ UNCHANGED <<form, field, stage, timer, unsure, byHand>>

\* It takes the place of a vehicle chosen by hand since it was asked for.
VanComes ==
    LET van == PairedWith[Head(asked).of] IN
    /\ Answered("van")
    /\ \/ /\ field' = IF van = Unset THEN field ELSE [field EXCEPT !.van = van]
          /\ unsure' = unsure \ {"van"}
       \/ unsure' = unsure \cup {"van"} /\ UNCHANGED field
    /\ UNCHANGED <<form, stage, timer, shown, byHand>>

Saved ==
    /\ Answered("save")
    /\ form' = "left"
    /\ UNCHANGED <<field, stage, timer, shown, unsure, byHand>>

\* An error in a field of the journey leads the customer back to it.
NotSaved ==
    /\ Answered("save")
    /\ stage' \in {stage} \cup (IF form = "customer" THEN {1} ELSE {})
    /\ UNCHANGED <<form, field, timer, shown, unsure, byHand>>

BookingFormsNext ==
    \/ \E trip \in Trips \cup {Unset} : DeskEditsTrip(trip)
    \/ \E trip \in Trips : EditsTrip(trip)
    \/ \E phone \in Phones \cup {Unset} : DeskEntersPhone(phone)
    \/ \E driver \in Pickable \cup {Unset} : PickDriver(driver)
    \/ \E van \in Vans : PickVan(van)
    \/ TimerFires \/ GoNext \/ GoBack \/ Submit
    \/ FareComes \/ CallerComes \/ VanComes \/ Saved \/ NotSaved

BookingFormsSpec == BookingFormsInit /\ [][BookingFormsNext]_bookingFormsVars

-----------------------------------------------------------------------------
\* Fields, questions and answers are what they should be.
BookingFormsTypeOK ==
    /\ form \in {"desk", "customer", "assign", "left"}
    /\ field \in [trip : Trips \cup {Unset}, phone : Phones \cup {Unset},
                  driver : Pickable \cup {Unset}, van : Vans \cup {Unset}]
    /\ stage \in 0..2 /\ timer \in Trips \cup {Unset}
    /\ asked \in Seq([topic : Topics, of : Trips \cup Phones \cup Pickable \cup {Unset}])
    /\ Len(asked) <= MaxAsked
    /\ shown \in [fare : Trips \cup {Unset}, caller : KnownPhones \cup {Unset}]
    /\ unsure \subseteq {"fare", "van"} /\ byHand \in BOOLEAN

\* Once the answers are in, what a form shows was asked for what is in it, as
\* far as the last question was answered: the fare for the trip (the customer
\* sees one at the review alone), the caller for a complete number, the van
\* for the driver unless it was chosen by hand.
FormsSettle ==
    /\ (form = "desk" /\ timer = Unset) \/ (form = "customer" /\ stage = 2) =>
         field.trip = Unset \/ Awaits("fare") \/ "fare" \in unsure \/ shown.fare = field.trip
    /\ form = "desk" /\ field.phone # Unset /\ ~Awaits("caller") =>
         shown.caller \in {Unset, field.phone}
    /\ form = "assign" /\ field.driver # Unset /\ ~byHand =>
         \/ Awaits("van") \/ "van" \in unsure
         \/ PairedWith[field.driver] \in {Unset, field.van}
=============================================================================
