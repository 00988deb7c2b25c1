------------------------------- MODULE Lists --------------------------------
(***************************************************************************)
(* The lists of the pages: a query takes a page of a table's rows in some   *)
(* order, by position, and counts the rows beside it; the toolbar walks     *)
(* from page to page by the count it was given.                             *)
(*                                                                         *)
(*   Open/Next/Prev -> address -(rows, count)-> page                        *)
(*                                                                         *)
(* No two of the reads share a snapshot, of one page or of two, and most    *)
(* orders leave ties, which the database breaks as it likes each time.  One  *)
(* reader of a list chosen in the initial state; what a search or a filter  *)
(* does not match is not in the table.                                      *)
(***************************************************************************)
EXTENDS FiniteSets, Integers

CONSTANTS ListRows,    \* rows that ever match
          Places,      \* where the order puts rows, the first first
          PageSize,
          MaxChanges,  \* bound: changes of the table
          Unread       \* not read, not there

ASSUME ListsAssumption ==
    /\ IsFiniteSet(ListRows) /\ Places \subseteq Nat /\ IsFiniteSet(Places)
    /\ PageSize \in Nat \ {0} /\ MaxChanges \in Nat
    /\ Unread \notin Nat /\ \A rows \in SUBSET ListRows : rows # Unread

VARIABLES list,     \* the list's order and paging
          place,    \* [ListRows -> Places, or Unread for a row that is not there]
          changes,  \* changes so far
          address,  \* the page number in the address bar
          loading,  \* the page being read, if any
          page,     \* the page on the screen
          walk      \* history: the walk from page 1 by Next to where the reader is

listsVars == <<list, place, changes, address, loading, page, walk>>

-----------------------------------------------------------------------------
(* The queries: where a new row comes, whether rows leave (deleted, or no    *)
(* longer matching) or move (a column of the order is edited), whether the   *)
(* order leaves ties.                                                       *)

Order(arrives, leaves, moves, ties) ==
    [arrives |-> arrives, leaves |-> leaves, moves |-> moves, ties |-> ties]

ListBookings == Order("anywhere", TRUE, TRUE, TRUE)
ListCustomerBookings == Order("anywhere", TRUE, TRUE, TRUE)
ListPayments == Order("in front", FALSE, FALSE, TRUE)
ListInvoices == Order("in front", FALSE, TRUE, TRUE)
ListRefunds == Order("in front", TRUE, FALSE, TRUE)
ListCustomers == Order("in front", TRUE, FALSE, TRUE)
ListDrivers == Order("anywhere", TRUE, TRUE, TRUE)
ListStaff == Order("anywhere", TRUE, TRUE, TRUE)
ListVehicles == Order("anywhere", TRUE, TRUE, FALSE)
ListBranches == Order("anywhere", TRUE, TRUE, TRUE)
ListOrgs == Order("anywhere", TRUE, TRUE, TRUE)
ListAuditLogs == Order("in front", FALSE, FALSE, TRUE)
ListNotificationLogs == Order("in front", TRUE, FALSE, TRUE)
ListShifts == Order("anywhere", TRUE, FALSE, TRUE)
ListAttendance == Order("in front", FALSE, FALSE, TRUE)
ListExpenses == Order("anywhere", FALSE, FALSE, TRUE)
ListFuelLogs == Order("anywhere", FALSE, FALSE, TRUE)
ListMaintenanceLogs == Order("anywhere", FALSE, FALSE, TRUE)

(* The pages: with the toolbar's buttons, or the first rows alone.           *)

WithButtons(order) == [order |-> order, buttons |-> TRUE]
FirstRows(order) == [order |-> order, buttons |-> FALSE]

BookingsPage == {WithButtons(ListBookings)}
CustomersPage == {WithButtons(ListCustomers)}
DriversPage == {WithButtons(ListDrivers)}
StaffPage == {WithButtons(ListStaff)}
VehiclesPage == {WithButtons(ListVehicles)}
BranchesPage == {WithButtons(ListBranches)}
OrgsPage == {WithButtons(ListOrgs)}
AuditPage == {WithButtons(ListAuditLogs)}
NotificationsPage == {WithButtons(ListNotificationLogs)}
MyBookingsPage == {FirstRows(ListCustomerBookings)}
PaymentsPage == {FirstRows(ListPayments)}
InvoicesPage == {FirstRows(ListInvoices)}
RefundsPage == {FirstRows(ListRefunds)}
ErasurePage == {FirstRows(ListCustomers)}
ShiftList == {FirstRows(ListShifts)}
AttendancePage == {FirstRows(ListAttendance)}
MyAttendancePage == {FirstRows(ListAttendance)}
ExpenseList == {FirstRows(ListExpenses)}
VehicleLogs == {FirstRows(ListFuelLogs), FirstRows(ListMaintenanceLogs), FirstRows(ListExpenses)}

ListPages ==
    UNION {BookingsPage, CustomersPage, DriversPage, StaffPage, VehiclesPage, BranchesPage,
           OrgsPage, AuditPage, NotificationsPage, MyBookingsPage, PaymentsPage, InvoicesPage,
           RefundsPage, ErasurePage, ShiftList, AttendancePage, MyAttendancePage, ExpenseList,
           VehicleLogs}

-----------------------------------------------------------------------------
Smaller(a, b) == IF a < b THEN a ELSE b
Larger(a, b) == IF a > b THEN a ELSE b

There == {r \in ListRows : place[r] # Unread}
Tied(r) == \E s \in There \ {r} : place[s] = place[r]

\* Rows in order, ties broken in any way.
Orders ==
    {o \in [1..Cardinality(There) -> There] :
        \A i, j \in DOMAIN o : i < j => o[i] # o[j] /\ place[o[i]] <= place[o[j]]}

\* Mutant: pages counted from zero.
SkipFromZero(number) == number * PageSize

Skip(number) == (number - 1) * PageSize

\* findMany, skip and take.
PagesAt(number) ==
    {{o[i] : i \in Skip(number) + 1 .. Smaller(Skip(number) + PageSize, Cardinality(There))} :
        o \in Orders}

TotalPages(total) == Larger(1, (total + PageSize - 1) \div PageSize)

\* The page number that the toolbar shows and counts from.
Shown(total) == Smaller(Larger(1, address), TotalPages(total))

-----------------------------------------------------------------------------
NoPage == [number |-> 0, rows |-> Unread, total |-> Unread, torn |-> FALSE]
Reading(number) == [NoPage EXCEPT !.number = number]

\* left and came: rows that left a place, or came to one, since the walk began;
\* seen: what pages have shown, by their numbers.
Walk(straight) == [left |-> {}, came |-> {}, seen |-> {}, straight |-> straight]

ListsInit ==
    /\ list \in ListPages
    /\ place \in [ListRows -> Places \cup {Unread}]
    /\ ~list.order.ties => \A r \in There : ~Tied(r)
    /\ changes = 0
    /\ address \in {1, 2}
    /\ loading = Reading(address) /\ page = NoPage
    /\ walk = Walk(address = 1)

\* Searched or filtered anew, or entered again at a page the address names.
OpenList(number) ==
    /\ address' = number
    /\ loading' = Reading(number)
    /\ page' = NoPage
    /\ walk' = Walk(number = 1)
    /\ UNCHANGED <<list, place, changes>>

\* The buttons go by the address, changed at once, and the total on the screen;
\* what was being read is forgotten.
NextPage ==
    /\ list.buttons /\ page # NoPage
    /\ Shown(page.total) < TotalPages(page.total)
    /\ address' = Shown(page.total) + 1
    /\ loading' = Reading(address')
    /\ UNCHANGED <<list, place, changes, page, walk>>

PrevPage ==
    /\ list.buttons /\ page # NoPage
    /\ Shown(page.total) > 1
    /\ address' = Shown(page.total) - 1
    /\ loading' = Reading(address')
    /\ walk' = Walk(FALSE)
    /\ UNCHANGED <<list, place, changes, page>>

\* The page is rendered when both have been read.
Loads(read) ==
    IF read.rows = Unread \/ read.total = Unread
      THEN loading' = read /\ UNCHANGED <<page, walk>>
      ELSE /\ page' = read /\ loading' = NoPage
           /\ walk' = IF walk.straight
                        THEN [walk EXCEPT !.seen = @ \cup {<<r, read.number>> : r \in read.rows}]
                        ELSE walk

ReadRows ==
    /\ loading # NoPage /\ loading.rows = Unread
    /\ \E got \in PagesAt(loading.number) : Loads([loading EXCEPT !.rows = got])
    /\ UNCHANGED <<list, place, changes, address>>

Count ==
    /\ loading # NoPage /\ loading.total = Unread
    /\ Loads([loading EXCEPT !.total = Cardinality(There)])
    /\ UNCHANGED <<list, place, changes, address>>

(* The table meanwhile.                                                     *)

Puts(r, p) ==
    /\ changes < MaxChanges /\ changes' = changes + 1
    /\ place' = [place EXCEPT ![r] = p]
    /\ ~list.order.ties => \A s \in There \ {r} : place[s] # p
    /\ walk' = IF walk.straight
                 THEN [walk EXCEPT !.left = @ \cup ({<<r, place[r]>>} \ {<<r, Unread>>}),
                                   !.came = @ \cup ({<<r, p>>} \ {<<r, Unread>>})]
                 ELSE walk
    /\ loading' = [loading EXCEPT !.torn = @ \/ loading.rows # Unread \/ loading.total # Unread]
    /\ UNCHANGED <<list, address, page>>

InFront(p) == list.order.arrives = "in front" => \A s \in There : p <= place[s]

RowArrives(r, p) == r \notin There /\ InFront(p) /\ Puts(r, p)
RowLeaves(r) == r \in There /\ list.order.leaves /\ Puts(r, Unread)
RowMoves(r, p) == r \in There /\ list.order.moves /\ p # place[r] /\ InFront(p) /\ Puts(r, p)

ListsNext ==
    \/ \E number \in {1, 2} : OpenList(number)
    \/ NextPage \/ PrevPage \/ ReadRows \/ Count
    \/ \E r \in ListRows : RowLeaves(r) \/ \E p \in Places : RowArrives(r, p) \/ RowMoves(r, p)

ListsSpec == ListsInit /\ [][ListsNext]_listsVars

-----------------------------------------------------------------------------
\* Pages and walks have their shapes.
ListsTypeOK ==
    /\ list \in ListPages
    /\ place \in [ListRows -> Places \cup {Unread}]
    /\ changes \in 0..MaxChanges /\ address \in Nat \ {0}
    /\ {loading, page} \subseteq
           [number : Nat, rows : {Unread} \cup SUBSET ListRows, total : Nat \cup {Unread},
            torn : BOOLEAN]
    /\ walk \in [left : SUBSET (ListRows \X Places), came : SUBSET (ListRows \X Places),
                 seen : SUBSET (ListRows \X Nat), straight : BOOLEAN]

Stayed == {r \in There : \A p \in Places : <<r, p>> \notin walk.left \cup walk.came}
Before(r, moved) == \E m \in moved : m[2] <= place[r]
HadATie(r) == Tied(r) \/ \E m \in walk.left \cup walk.came : m[2] = place[r]
SeenOn(r) == {m[2] : m \in {n \in walk.seen : n[1] = r}}

\* Every page from the first to the one on the screen has been on it.
Walked ==
    /\ walk.straight /\ page # NoPage /\ loading = NoPage
    /\ \A i \in 1..page.number : i = page.number \/ \E n \in walk.seen : n[2] = i

\* A row that was there all the way to the last page has been shown, unless a
\* row before it left, the last page was read in the midst of a change, or it has
\* had a tie.
MissesAreExplained ==
    Walked /\ list.buttons /\ page.number >= TotalPages(page.total) =>
        \A r \in Stayed :
            SeenOn(r) # {} \/ Before(r, walk.left) \/ page.torn \/ HadATie(r)

\* It is shown on two pages only if a row came before it or it has had a tie.
DoublesAreExplained ==
    Walked => \A r \in Stayed :
        Cardinality(SeenOn(r)) <= 1 \/ Before(r, walk.came) \/ HadATie(r)

\* The table is as long as the count says, unless it changed between the two
\* reads; by the buttons one comes to an empty table only if rows left.
SizesAgree ==
    page # NoPage =>
        /\ page.torn \/ Cardinality(page.rows) =
             Larger(0, Smaller(PageSize, page.total - Skip(page.number)))
        /\ walk.straight /\ page.total > 0 /\ page.rows = {} => page.torn \/ walk.left # {}

\* However the table changes while a list is read.
ListsTell == MissesAreExplained /\ DoublesAreExplained /\ SizesAgree
=============================================================================
