-------------------------- MODULE TripStateMachine --------------------------
(***************************************************************************)
(* What the booking component promises, with no handlers, versions or      *)
(* snapshots: a trip moves one atomic step at a time through its life,     *)
(* the driver who claims it is the only claimer it ever has, and a crew    *)
(* is attached once.                                                       *)
(***************************************************************************)
CONSTANTS Bookings, Drivers, None

VARIABLE trip  \* per booking: its status, its claimer and its assigned driver

Absent == [status |-> "ABSENT", claimer |-> None, driver |-> None]

Init == trip = [b \in Bookings |-> Absent]

\* The trip is in one of the statuses "from" and goes to "to".
Move(b, from, to) ==
    /\ trip[b].status \in from
    /\ trip' = [trip EXCEPT ![b].status = to]

Request(b) == Move(b, {"ABSENT"}, "PENDING")
Offer(b) == Move(b, {"PENDING"}, "OPEN_FOR_CLAIM")
Depart(b) == Move(b, {"ASSIGNED"}, "DRIVER_EN_ROUTE")
Board(b) == Move(b, {"DRIVER_EN_ROUTE"}, "IN_PROGRESS")
MissPassenger(b) == Move(b, {"DRIVER_EN_ROUTE"}, "NO_SHOW")
Complete(b) == Move(b, {"IN_PROGRESS"}, "COMPLETED")
Abort(b) == Move(b, {"IN_PROGRESS"}, "FAILED")
Cancel(b) ==
    Move(b, {"PENDING", "OPEN_FOR_CLAIM", "CLAIMED", "ASSIGNED"}, "CANCELLED")

Claim(b, d) ==
    /\ trip[b].status = "OPEN_FOR_CLAIM"
    /\ trip[b].claimer = None
    /\ trip' = [trip EXCEPT ![b] =
         [status |-> "CLAIMED", claimer |-> d, driver |-> @.driver]]

Assign(b, d) ==
    /\ trip[b].status \in {"PENDING", "CLAIMED"}
    /\ trip[b].driver = None
    /\ trip' = [trip EXCEPT ![b] =
         [status |-> "ASSIGNED", claimer |-> @.claimer, driver |-> d]]

Step(b) ==
    \/ Request(b) \/ Offer(b) \/ Cancel(b)
    \/ Depart(b) \/ Board(b) \/ MissPassenger(b) \/ Complete(b) \/ Abort(b)
    \/ \E d \in Drivers : Claim(b, d) \/ Assign(b, d)

Next == \E b \in Bookings : Step(b)

Spec == Init /\ [][Next]_trip
=============================================================================
