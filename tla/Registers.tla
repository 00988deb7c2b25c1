----------------------------- MODULE Registers ------------------------------
(***************************************************************************)
(* The desk's registers: vehicles, drivers, branches, organisations, types, *)
(* rules, shifts, costs and the pairing of drivers with vehicles.  They are *)
(* built alike, one service, action file, form and page each:               *)
(*                                                                         *)
(*   list -> form -> sent -(read, check)-> checked -(transaction)-> list    *)
(*                                                                         *)
(* The transaction writes WHERE id alone whatever the reads before it saw.  *)
(* Codes (registration, licence, branch code, slug, name of a type) are     *)
(* unique over all rows of the table, deleted ones and other organisations' *)
(* included; a deleted row gives its code back by taking another.           *)
(* One register of a kind chosen in the initial state, and its clerks.      *)
(***************************************************************************)
EXTENDS FiniteSets, Naturals

CONSTANTS RoomIn,       \* bound: rows a register of a kind ever gets
          Codes,        \* codes a clerk may type
          DefaultSlug,  \* "default", one of the codes
          Clerks,       \* people at the desks
          Tenants,      \* organisations that rows belong to
          Staffings,    \* bound: who the clerks may be, [Clerks -> role and tenant]
          Nothing       \* no tenant, no row, no id

VARIABLES kind,       \* which register
          staffing,   \* [Clerks -> role and tenant]
          rows,       \* [RegisterIds -> row or Nothing]
          clerk,      \* [Clerks -> what the clerk is at]
          since,      \* history: [Clerks -> ids written since the clerk's checks]
          overtaken   \* history: ids whose edit was written over a row changed since its checks

registersVars == <<kind, staffing, rows, clerk, since, overtaken>>

-----------------------------------------------------------------------------
(* The services: which rows a code is compared with before it is written,   *)
(* which operations there are, and what a deletion leaves.                  *)

Service(operations, compares, leaves) ==
    [operations |-> operations, compares |-> compares, leaves |-> leaves]

\* "all" looks past the tenant filter and at deleted rows, "live" at neither.
VehicleService     == Service({"create", "edit", "delete"}, "all", "tombstone")
DriverService      == Service({"create", "edit", "delete"}, "all", "tombstone")
BranchService      == Service({"create", "edit", "delete"}, "live", "tombstone")
OrgService         == Service({"create", "edit", "delete"}, "live", "tombstone")
BookingTypeService == Service({"create", "delete"}, "live", "tombstone")
PricingRuleService == Service({"create", "delete"}, "none", "stamp")
DispatchRuleService == Service({"create", "delete"}, "none", "stamp")
PairingService     == Service({"create", "delete"}, "none", "stamp")
ShiftService       == Service({"create", "delete"}, "none", "no row")
FuelService        == Service({"create"}, "none", "nothing")
ExpenseService     == Service({"create"}, "none", "nothing")
MaintenanceService == Service({"create"}, "none", "nothing")

Services ==
    [vehicles |-> VehicleService, drivers |-> DriverService, branches |-> BranchService,
     orgs |-> OrgService, bookingTypes |-> BookingTypeService,
     pricingRules |-> PricingRuleService, dispatchRules |-> DispatchRuleService,
     pairings |-> PairingService, shifts |-> ShiftService, fuel |-> FuelService,
     expenses |-> ExpenseService, maintenance |-> MaintenanceService]

Kinds == DOMAIN Services

RegisterIds == 1..RoomIn[kind]
Does == Services[kind]
Coded == Does.compares # "none"

(* Whom the action files let at them.                                       *)

AnyStaff == {"STAFF", "ADMIN", "SUPER_ADMIN"}
Admins == {"ADMIN", "SUPER_ADMIN"}

VehicleActions == AnyStaff
DriverActions == AnyStaff
PairingActions == AnyStaff
ShiftActions == AnyStaff
FuelActions == AnyStaff
ExpenseActions == AnyStaff
MaintenanceActions == AnyStaff
BranchActions == Admins
BookingTypeActions == Admins
PricingRuleActions == Admins
DispatchRuleActions == Admins
OrgActions == {"SUPER_ADMIN"}

MayManage ==
    CASE kind = "orgs" -> OrgActions
      [] kind = "vehicles" -> VehicleActions
      [] kind = "drivers" -> DriverActions
      [] kind = "pairings" -> PairingActions
      [] kind = "shifts" -> ShiftActions
      [] kind = "fuel" -> FuelActions
      [] kind = "expenses" -> ExpenseActions
      [] kind = "maintenance" -> MaintenanceActions
      [] kind = "branches" -> BranchActions
      [] kind = "bookingTypes" -> BookingTypeActions
      [] kind = "pricingRules" -> PricingRuleActions
      [] kind = "dispatchRules" -> DispatchRuleActions

(* The forms: where a saved one leaves the clerk.  Those of the lists stay,  *)
(* empty or as they are.  A refused form stays as it was typed.             *)

VehicleForm == "list"
BranchForm == "list"
OrgForm == "list"
DriverEditForm == "list"
DriverInviteForm == "list"
CreateBookingTypeForm == "form"
CreatePricingRuleForm == "form"
CreateDispatchRuleForm == "form"
ShiftForm == "form"
FuelLogForm == "form"
ExpenseForm == "form"
MaintenanceLogForm == "form"
AssignVehicleForm == "form"

LeadsTo(operation) ==
    CASE operation = "delete" -> "list"
      [] kind = "vehicles" -> VehicleForm
      [] kind = "branches" -> BranchForm
      [] kind = "orgs" -> OrgForm
      [] kind = "drivers" -> IF operation = "edit" THEN DriverEditForm ELSE DriverInviteForm
      [] kind = "bookingTypes" -> CreateBookingTypeForm
      [] kind = "pricingRules" -> CreatePricingRuleForm
      [] kind = "dispatchRules" -> CreateDispatchRuleForm
      [] kind = "shifts" -> ShiftForm
      [] kind = "fuel" -> FuelLogForm
      [] kind = "expenses" -> ExpenseForm
      [] kind = "maintenance" -> MaintenanceLogForm
      [] kind = "pairings" -> AssignVehicleForm

(* The pages: the forms and delete buttons each renders.                    *)

VehicleAddPage == {<<"vehicles", "create">>}
VehiclePage == {<<"vehicles", "edit">>, <<"fuel", "create">>, <<"maintenance", "create">>,
                <<"expenses", "create">>}
DriverAddPage == {<<"drivers", "create">>}
DriverPage == {<<"drivers", "edit">>, <<"drivers", "delete">>, <<"pairings", "create">>}
BranchAddPage == {<<"branches", "create">>}
BranchPage == {<<"branches", "edit">>}
OrgAddPage == {<<"orgs", "create">>}
OrgPage == {<<"orgs", "edit">>}
BookingTypesPage == {<<"bookingTypes", "create">>, <<"bookingTypes", "delete">>}
PricingPage == {<<"pricingRules", "create">>, <<"pricingRules", "delete">>}
DispatchPage == {<<"dispatchRules", "create">>, <<"dispatchRules", "delete">>}
ShiftsPage == {<<"shifts", "create">>, <<"shifts", "delete">>}
ExpensesPage == {<<"expenses", "create">>}

OnPages ==
    UNION {VehicleAddPage, VehiclePage, DriverAddPage, DriverPage, BranchAddPage, BranchPage,
           OrgAddPage, OrgPage, BookingTypesPage, PricingPage, DispatchPage, ShiftsPage,
           ExpensesPage}

-----------------------------------------------------------------------------
(* Rows and what a clerk's calls see of them.                               *)

\* tombstoneUniqueValue
Tombstone(code, id) == <<"deleted", code, id>>

NewRow(tenant, code) == [tenant |-> tenant, code |-> code, gone |-> FALSE]

AllIds == UNION {1..RoomIn[k] : k \in Kinds}
Tombstones == {Tombstone(code, id) : code \in Codes, id \in AllIds}

RegisterRow ==
    [tenant : Tenants \cup {Nothing}, code : Codes \cup {Nothing} \cup Tombstones,
     gone : BOOLEAN]

Who == [role : AnyStaff, tenant : Tenants \cup {Nothing}]

\* Nobody types a tombstone: it ends in the row's id.
ASSUME RegistersAssumption ==
    /\ RoomIn \in [Kinds -> Nat]
    /\ DefaultSlug \in Codes
    /\ IsFiniteSet(Clerks)
    /\ Staffings \subseteq [Clerks -> Who]
    /\ Tombstones \cap Codes = {}
    /\ Nothing \notin Tenants \cup Codes \cup Nat \cup RegisterRow

\* A super admin has no tenant and is not filtered; tables of organisations
\* are not either.
Within(c, tenant) == kind = "orgs" \/ staffing[c].tenant \in {Nothing, tenant}

Seen(c) ==
    {id \in RegisterIds : /\ rows[id] # Nothing /\ Within(c, rows[id].tenant)
                          /\ ~(rows[id].gone /\ Does.leaves = "no row")}
Live(c) == {id \in Seen(c) : ~rows[id].gone}

ComparedWith(c) ==
    CASE Does.compares = "all" -> {id \in RegisterIds : rows[id] # Nothing}
      [] Does.compares = "live" -> Live(c)
      [] Does.compares = "none" -> {}

Taken(c, code) == \E id \in ComparedWith(c) : rows[id].code = code

\* The unique index.
HeldBy(code, except) ==
    {id \in RegisterIds \ {except} : Coded /\ rows[id] # Nothing /\ rows[id].code = code}

\* Mutant: the code is not given back.
StampedOnly(id, code) == [rows[id] EXCEPT !.gone = TRUE]

\* What is left of a deleted row.
Deleted(id, code) ==
    CASE Does.leaves = "tombstone" ->
           [rows[id] EXCEPT !.gone = TRUE, !.code = Tombstone(code, id)]
      [] Does.leaves \in {"stamp", "no row"} -> [rows[id] EXCEPT !.gone = TRUE]

-----------------------------------------------------------------------------
AtList == [at |-> "list", operation |-> "none", id |-> Nothing, code |-> Nothing,
           was |-> Nothing, open |-> {}]

RegistersInit ==
    /\ kind \in Kinds
    /\ staffing \in Staffings
    /\ rows = [id \in RegisterIds |-> Nothing]
    /\ clerk = [c \in Clerks |-> AtList]
    /\ since = [c \in Clerks |-> {}]
    /\ overtaken = {}

At(c, at, operation, id) ==
    clerk' = [clerk EXCEPT ![c] = [AtList EXCEPT !.at = at, !.operation = operation, !.id = id]]

\* Back on a page, a clerk's call is over.
Moves(c, at) ==
    IF at = "list" THEN clerk' = [clerk EXCEPT ![c] = AtList]
                   ELSE At(c, at, clerk[c].operation, clerk[c].id)

Checked(c) == clerk[c].at = "checked"

\* c writes a row, which ends its call; others that have checked may be concerned.
Writes(c, id) ==
    since' = [d \in Clerks |-> IF d # c /\ Checked(d) THEN since[d] \cup {id} ELSE {}]

Names(c, operation, id) ==
    IF operation = "create" THEN id = Nothing ELSE id \in Live(c)

\* A page is opened, or a delete button tapped once; its row is as rendered.
Open(c, operation, id) ==
    /\ clerk[c].at = "list" /\ <<kind, operation>> \in OnPages
    /\ Names(c, operation, id)
    /\ At(c, "form", operation, id)
    /\ UNCHANGED <<kind, staffing, rows, since, overtaken>>

\* No page deletes a vehicle, a branch or an organisation or ends a pairing;
\* the actions are there to be called.
Call(c, operation, id) ==
    /\ clerk[c].at = "list" /\ operation \in Does.operations /\ <<kind, operation>> \notin OnPages
    /\ staffing[c].role \in MayManage
    /\ Names(c, operation, id)
    /\ At(c, "sent", operation, id)
    /\ UNCHANGED <<kind, staffing, rows, since, overtaken>>

\* The clerk leaves; a delete button forgets the first tap after three seconds.
Close(c) ==
    /\ clerk[c].at = "form"
    /\ clerk' = [clerk EXCEPT ![c] = AtList]
    /\ UNCHANGED <<kind, staffing, rows, since, overtaken>>

Post(c, code) ==
    /\ clerk[c].at = "form"
    /\ IF Coded /\ clerk[c].operation # "delete" THEN code \in Codes ELSE code = Nothing
    /\ staffing[c].role \in MayManage
    /\ clerk' = [clerk EXCEPT ![c].at = "sent", ![c].code = code]
    /\ UNCHANGED <<kind, staffing, rows, since, overtaken>>

\* Refused at any step: permission, validation, a row that the new one names
\* and that is deleted, the limiter, a failure.  The form stays as typed.
RefuseSave(c) ==
    /\ clerk[c].at \in {"sent", "checked"}
    /\ Moves(c, IF clerk[c].operation = "delete" THEN "list" ELSE "form")
    /\ since' = [since EXCEPT ![c] = {}]
    /\ UNCHANGED <<kind, staffing, rows, overtaken>>

\* Rules and pairings are not read before they are deleted.
Allowed(c) ==
    CASE clerk[c].operation = "create" -> ~Taken(c, clerk[c].code)
      [] clerk[c].operation = "edit" ->
           /\ clerk[c].id \in Live(c)
           /\ clerk[c].code # rows[clerk[c].id].code => ~Taken(c, clerk[c].code)
      [] clerk[c].operation = "delete" ->
           /\ Does.leaves = "tombstone" => clerk[c].id \in Live(c)
           /\ clerk[c].id \in Seen(c)
           /\ kind = "orgs" => rows[clerk[c].id].code # DefaultSlug

Fresh == {id \in RegisterIds : rows[id] = Nothing}
FreshId == IF Fresh = {} THEN Nothing ELSE CHOOSE id \in Fresh : TRUE

\* Mutant: the driver is taken to have none.
NoPairings(c) == {}

\* The open pairings of the driver that the update of the transaction sees.
OpenPairings(c) == IF kind = "pairings" THEN Live(c) ELSE {}

Check(c) ==
    /\ clerk[c].at = "sent" /\ Allowed(c)
    /\ clerk' = [clerk EXCEPT ![c].at = "checked", ![c].open = OpenPairings(c),
           ![c].was = IF clerk[c].operation = "create" THEN Nothing ELSE rows[clerk[c].id].code]
    /\ UNCHANGED <<kind, staffing, rows, since, overtaken>>

\* The tenant filter gives the new row the tenant of the caller, if it has one.
CommitCreate(c, id) ==
    /\ Checked(c) /\ clerk[c].operation = "create"
    /\ id = FreshId
    /\ HeldBy(clerk[c].code, id) = {}
    /\ rows' = [i \in RegisterIds |->
           CASE i = id -> NewRow(staffing[c].tenant, clerk[c].code)
             [] i \in clerk[c].open -> [rows[i] EXCEPT !.gone = TRUE]
             [] OTHER -> rows[i]]
    /\ Moves(c, LeadsTo("create"))
    /\ Writes(c, id)
    /\ UNCHANGED <<kind, staffing, overtaken>>

CommitEdit(c) ==
    LET id == clerk[c].id IN
    /\ Checked(c) /\ clerk[c].operation = "edit"
    /\ HeldBy(clerk[c].code, id) = {}
    /\ rows' = [rows EXCEPT ![id].code = clerk[c].code]
    /\ overtaken' = IF id \in since[c] THEN overtaken \cup {id} ELSE overtaken
    /\ Moves(c, LeadsTo("edit"))
    /\ Writes(c, id)
    /\ UNCHANGED <<kind, staffing>>

CommitDelete(c) ==
    LET id == clerk[c].id IN
    /\ Checked(c) /\ clerk[c].operation = "delete"
    /\ id \in Seen(c)
    /\ rows' = [rows EXCEPT ![id] = Deleted(id, clerk[c].was)]
    /\ Moves(c, "list")
    /\ Writes(c, id)
    /\ UNCHANGED <<kind, staffing, overtaken>>

RegistersNext ==
    \E c \in Clerks :
        \/ \E operation \in {"create", "edit", "delete"}, id \in RegisterIds \cup {Nothing} :
             Open(c, operation, id) \/ Call(c, operation, id)
        \/ Close(c) \/ RefuseSave(c) \/ Check(c) \/ CommitEdit(c) \/ CommitDelete(c)
        \/ \E code \in Codes \cup {Nothing} : Post(c, code)
        \/ \E id \in RegisterIds : CommitCreate(c, id)

-----------------------------------------------------------------------------
\* Rows and clerks have their shapes.
RegistersTypeOK ==
    /\ kind \in Kinds
    /\ staffing \in [Clerks -> Who]
    /\ \A id \in RegisterIds : rows[id] # Nothing =>
         /\ rows[id].tenant \in Tenants \cup {Nothing}
         /\ rows[id].code \in Codes \cup {Nothing} \cup {Tombstone(code, id) : code \in Codes}
    /\ \A c \in Clerks :
         /\ clerk[c].at \in {"list", "form", "sent", "checked"}
         /\ clerk[c].id \in RegisterIds \cup {Nothing}
    /\ since \in [Clerks -> SUBSET RegisterIds]
    /\ overtaken \subseteq RegisterIds

\* A deleted row has given its code back, unless an edit that was checked
\* before the deletion was written after it.
DeletedRowsFreeCodes ==
    \A id \in RegisterIds \ overtaken :
        rows[id] # Nothing /\ rows[id].gone /\ Coded => rows[id].code \notin Codes

\* A save that passed its checks meets the unique index only if somebody wrote
\* the holder since: or, where the checks see the caller's live rows alone, if
\* the holder is another organisation's or a row that kept its code.
ChecksForeseeTheIndex ==
    \A c \in Clerks :
        Checked(c) /\ clerk[c].operation # "delete" =>
            \A id \in HeldBy(clerk[c].code, clerk[c].id) :
                \/ id \in since[c]
                \/ Does.compares = "live" /\ (~Within(c, rows[id].tenant) \/ id \in overtaken)

\* A driver has at most as many open pairings as clerks pair him at one time,
\* and every later pairing closes them all, tenants apart.
PairingsAreFew ==
    kind = "pairings" => \A t \in Tenants \cup {Nothing} :
        Cardinality({id \in RegisterIds : rows[id] # Nothing /\ rows[id].tenant = t /\ ~rows[id].gone})
            <= Cardinality({c \in Clerks : Within(c, t)})

\* However saves, deletions and pairings of several clerks overlap.
RegistersAreTidy == DeletedRowsFreeCodes /\ ChecksForeseeTheIndex /\ PairingsAreFew
=============================================================================
