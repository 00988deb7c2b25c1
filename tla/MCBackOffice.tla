---------------------------- MODULE MCBackOffice ----------------------------
(***************************************************************************)
(* A small instance for TLC of ten components that share no state, one     *)
(* after the other: office, chosen in the initial state, says which moves, *)
(* and the others stay where they began.                                   *)
(***************************************************************************)
EXTENDS Invoices, DriverApi, RateLimit, TripScreens, Registers, FareRules,
        BookingForms, Lists, LiveMap, DispatchPolicy, TLC

CONSTANTS b1, b2, o1, o2, d1, d2, d3, v1, v2

VARIABLE office

Offices ==
    {"invoices", "api", "limiter", "screens", "registers", "fares", "forms", "lists", "map",
     "dispatch"}
officeVars ==
    <<office, vars, driverApiVars, rateLimitVars, tripScreensVars, registersVars,
      fareRulesVars, bookingFormsVars, listsVars, liveMapVars,
      dispatchPolicyVars>>

MCOrgOf == [b \in Bookings |-> o1]
MCRoom == [k \in Kinds |-> IF k = "pairings" THEN 3 ELSE 2]
MCPaired == d1 :> v1 @@ d2 :> v2 @@ d3 :> Unset

MCStaffings ==
    LET Is(role, tenant) == [role |-> role, tenant |-> tenant]
        someone == CHOOSE c \in Clerks : TRUE
        Staffing(one, other) == [c \in Clerks |-> IF c = someone THEN one ELSE other]
    IN  {Staffing(Is("ADMIN", o1), Is("ADMIN", o2)),
         Staffing(Is("ADMIN", o1), Is("SUPER_ADMIN", Nothing)),
         Staffing(Is("SUPER_ADMIN", Nothing), Is("SUPER_ADMIN", Nothing))}

\* One worker at each of two instances, or Redis.
OneAtEach == CHOOSE p \in [ApiWorkers -> Servers] : IsInjective(p)
Redis == [w \in ApiWorkers |-> "redis"]

\* The invoices' set alone: what the other components use is not in it.
MCSymmetry == Permutations(Generators)

OfficeInit ==
    /\ office \in Offices
    /\ Init /\ DriverApiInit /\ RateLimitInit
    /\ placement \in IF office = "api" THEN {OneAtEach, Redis} ELSE {Redis}
    /\ TripScreensInit
    /\ office # "screens" => /\ trip.status = "PENDING" /\ trip.consent
                             /\ serviceable = {} /\ standing = [d \in TripDrivers |-> "fit"]
    /\ RegistersInit
    /\ office # "registers" => kind = "orgs" /\ staffing = CHOOSE s \in Staffings : TRUE
    /\ FareRulesInit
    /\ office # "fares" => taxRate = 0
    /\ BookingFormsInit
    /\ office # "forms" => form = "desk"
    /\ ListsInit
    /\ office # "lists" => /\ list = CHOOSE l \in ListPages : TRUE
                           /\ There = {} /\ address = 1
    /\ LiveMapInit /\ DispatchPolicyInit

OfficeNext ==
    /\ UNCHANGED office
    /\ \/ /\ office = "invoices" /\ Next
          /\ UNCHANGED <<driverApiVars, rateLimitVars, tripScreensVars,
                         registersVars, fareRulesVars, bookingFormsVars, listsVars,
                         liveMapVars, dispatchPolicyVars>>
       \/ /\ office = "api" /\ DriverApiNext
          /\ UNCHANGED <<vars, rateLimitVars, tripScreensVars, registersVars,
                         fareRulesVars, bookingFormsVars, listsVars,
                         liveMapVars, dispatchPolicyVars>>
       \/ /\ office = "limiter" /\ RateLimitNext
          /\ UNCHANGED <<vars, driverApiVars, tripScreensVars, registersVars,
                         fareRulesVars, bookingFormsVars, listsVars,
                         liveMapVars, dispatchPolicyVars>>
       \/ /\ office = "screens" /\ TripScreensNext
          /\ UNCHANGED <<vars, driverApiVars, rateLimitVars, registersVars,
                         fareRulesVars, bookingFormsVars, listsVars,
                         liveMapVars, dispatchPolicyVars>>
       \/ /\ office = "registers" /\ RegistersNext
          /\ UNCHANGED <<vars, driverApiVars, rateLimitVars, tripScreensVars,
                         fareRulesVars, bookingFormsVars, listsVars,
                         liveMapVars, dispatchPolicyVars>>
       \/ /\ office = "fares" /\ FareRulesNext
          /\ UNCHANGED <<vars, driverApiVars, rateLimitVars, tripScreensVars,
                         registersVars, bookingFormsVars, listsVars,
                         liveMapVars, dispatchPolicyVars>>
       \/ /\ office = "forms" /\ BookingFormsNext
          /\ UNCHANGED <<vars, driverApiVars, rateLimitVars, tripScreensVars,
                         registersVars, fareRulesVars, listsVars,
                         liveMapVars, dispatchPolicyVars>>
       \/ /\ office = "lists" /\ ListsNext
          /\ UNCHANGED <<vars, driverApiVars, rateLimitVars, tripScreensVars,
                         registersVars, fareRulesVars, bookingFormsVars,
                         liveMapVars, dispatchPolicyVars>>
       \/ /\ office = "map" /\ LiveMapNext
          /\ UNCHANGED <<vars, driverApiVars, rateLimitVars, tripScreensVars,
                         registersVars, fareRulesVars, bookingFormsVars, listsVars,
                         dispatchPolicyVars>>
       \/ /\ office = "dispatch" /\ DispatchPolicyNext
          /\ UNCHANGED <<vars, driverApiVars, rateLimitVars, tripScreensVars,
                         registersVars, fareRulesVars, bookingFormsVars, listsVars,
                         liveMapVars>>

OfficeSpec == OfficeInit /\ [][OfficeNext]_officeVars

\* The type invariants of the ten.
OfficeTypesOK ==
    CASE office = "invoices" -> InvoicesTypeOK
      [] office = "api" -> DriverApiTypeOK
      [] office = "limiter" -> RateLimitTypeOK
      [] office = "screens" -> TripScreensTypeOK
      [] office = "registers" -> RegistersTypeOK
      [] office = "fares" -> FareRulesTypeOK
      [] office = "forms" -> BookingFormsTypeOK
      [] office = "lists" -> ListsTypeOK
      [] office = "map" -> LiveMapTypeOK
      [] office = "dispatch" -> DispatchPolicyTypeOK

\* However requests of the API are repeated and overlap, a key takes effect at
\* most as often as they can overlap and a day's row tells one story; and any
\* span as long as the limiter's window lets through less than twice its limit.
RequestsAddUp ==
    /\ office = "api" => RepeatsAreBounded /\ AttendanceAgrees
    /\ office = "limiter" => BurstsAreBounded

\* A page offers what the server would accept, a form shows what the server said
\* of what is in it once the questions are answered, a walk through a list shows
\* every row once unless rows moved under the reader, and a customer's map draws
\* what the driver's phone reported.
ScreensKeepUp == PagesAgree /\ FormsSettle /\ ListsTell /\ MapTells
=============================================================================
