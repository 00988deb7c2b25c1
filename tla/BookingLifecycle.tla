-------------------------- MODULE BookingLifecycle --------------------------
(***************************************************************************)
(* The life of a booking row under concurrent request handlers.            *)
(*                                                                         *)
(* A handler is a serverless invocation: it reads rows in one database     *)
(* round trip and writes them in a later one, so other handlers run        *)
(* between the two, and it may die between them.  Each await that reaches  *)
(* the database is a step of its own; a $transaction is one step.          *)
(*                                                                         *)
(*   idle --(validation read)--> checked --(snapshot read)--> ready        *)
(*        --(transaction)--> idle                                          *)
(*                                                                         *)
(* Handlers that validate nothing before the snapshot go straight from     *)
(* idle to ready.  A refusal (NOT_FOUND, VALIDATION, FORBIDDEN,            *)
(* ALREADY_CLAIMED, CONFLICT) writes nothing and frees the handler.        *)
(*                                                                         *)
(* Operators called "wrong variant" are mistakes the code could contain:   *)
(* none is used by Spec, and each breaks a property at the end.            *)
(***************************************************************************)
EXTENDS Integers, BookingRules

CONSTANTS
    Bookings,    \* booking ids
    Drivers,     \* driver ids
    Vehicles,    \* vehicle ids
    Quotes,      \* the price fields of a row: [base |-> ., extras |-> .]
    Workers,     \* handlers serving staff, customers and drivers
    Crons,       \* invocations of the promote-hybrid cron
    None,        \* null / undefined
    MaxCrashes   \* bound: how many handlers may die half-way

ASSUME ConstantsAssumption ==
    /\ Quotes \subseteq [base : Nat, extras : Nat]
    /\ None \notin Drivers \cup Vehicles \cup Bookings \cup Quotes \cup Nat
    /\ None \notin DispatchModes
    /\ Drivers \cap {"staff", "customer", "cron"} = {}
    /\ Workers \cap Crons = {}
    /\ MaxCrashes \in Nat

VARIABLES
    row,             \* table Booking
    req,             \* the request each handler is serving
    auditLog,        \* table AuditLog, the rows written by transitions
    assignmentLog,   \* table AssignmentHistory
    outbox,          \* table NotificationOutbox, as enqueued
    deletedVersion,  \* history: version of the row when it was first soft-deleted
    crashes          \* how many handlers died so far

vars == <<row, req, auditLog, assignmentLog, outbox, deletedVersion, crashes>>
logs == <<auditLog, assignmentLog, outbox>>

Handlers == Workers \cup Crons
Actors == Drivers \cup {"staff", "customer", "cron"}
MaybeDriver == Drivers \cup {None}
MaybeVehicle == Vehicles \cup {None}

BookingRow ==
    [status : Statuses \cup {"ABSENT"}, version : Nat,
     mode : DispatchModes \cup {None}, timer : {"none", "running", "expired"},
     claimedBy : MaybeDriver, driver : MaybeDriver, vehicle : MaybeVehicle,
     quote : Quotes \cup {None}, fareFinal : Nat \cup {None},
     deleted : BOOLEAN]

NoRow ==
    [status |-> "ABSENT", version |-> 0, mode |-> None, timer |-> "none",
     claimedBy |-> None, driver |-> None, vehicle |-> None, quote |-> None,
     fareFinal |-> None, deleted |-> FALSE]

\* TxCurrentBooking: what transitionBookingStatus selects before its transaction.
Snapshot ==
    [status : Statuses, version : Nat, driver : MaybeDriver,
     vehicle : MaybeVehicle, quote : Quotes]

SnapshotOf(r) ==
    [status |-> r.status, version |-> r.version, driver |-> r.driver,
     vehicle |-> r.vehicle, quote |-> r.quote]

Request ==
    [stage : {"idle", "checked", "ready"},
     op : {"none", "transition", "claim", "delete", "edit"},
     b : Bookings \cup {None}, to : Statuses \cup {None},
     by : Actors \cup {None}, driver : MaybeDriver, vehicle : MaybeVehicle,
     quote : Quotes \cup {None}, snap : Snapshot \cup {None}]

NoRequest ==
    [stage |-> "idle", op |-> "none", b |-> None, to |-> None, by |-> None,
     driver |-> None, vehicle |-> None, quote |-> None, snap |-> None]

AuditRow ==
    [b : Bookings, version : Nat, from : Statuses, to : Statuses,
     by : Actors]

AssignmentRow ==
    [b : Bookings, version : Nat, action : {"CLAIM", "ASSIGN"},
     driver : Drivers, vehicle : MaybeVehicle, by : Actors]

OutboxRow == [b : Bookings, version : Nat, to : Statuses]

Init ==
    /\ row = [b \in Bookings |-> NoRow]
    /\ req = [w \in Handlers |-> NoRequest]
    /\ auditLog = {}
    /\ assignmentLog = {}
    /\ outbox = {}
    /\ deletedVersion = [b \in Bookings |-> None]
    /\ crashes = 0

-----------------------------------------------------------------------------
(* Reads shared by the handlers. *)

\* Wrong variant: the filter on deletedAt is forgotten.
ExistsDeletedToo(b) == row[b].status # "ABSENT"

\* where: { id, deletedAt: null }
Exists(b) == row[b].status # "ABSENT" /\ ~row[b].deleted

Idle(w) == req[w].stage = "idle"

\* A handler answers its caller: it holds nothing any more.
Release(w) == req' = [req EXCEPT ![w] = NoRequest]

TransitionRequest(b, to, by) ==
    [NoRequest EXCEPT !.op = "transition", !.b = b, !.to = to, !.by = by]

\* A request that has passed its own validation and is about to call
\* transitionBookingStatus or claimBooking.
Checked(w, q) == req' = [req EXCEPT ![w] = [q EXCEPT !.stage = "checked"]]

\* Wrong variant: the allow-list is not consulted.
LoadableFromAnyStatus(q, gateOpen) ==
    Exists(q.b) /\ (q.to = "COMPLETED" => gateOpen)

\* transitionBookingStatus, first half: the snapshot read and its two
\* refusals.  gateOpen is the verdict of assertCanCompleteTrip, which only
\* a target of COMPLETED consults.
Loadable(q, gateOpen) ==
    /\ Exists(q.b)
    /\ CanTransition(row[q.b].status, q.to)
    /\ q.to = "COMPLETED" => gateOpen

Loaded(w, q) ==
    req' = [req EXCEPT
        ![w] = [q EXCEPT !.stage = "ready", !.snap = SnapshotOf(row[q.b])]]

-----------------------------------------------------------------------------
(* applyBookingTransitionTx: the writes of one transition, in one          *)
(* transaction.  The optimistic lock is WHERE id = ? AND version = ?; the  *)
(* row's deletedAt is not part of it.                                      *)

\* Wrong variant: WHERE id = ? alone.
VersionIgnored(b, snap) == TRUE

VersionMatches(b, snap) == row[b].version = snap.version

\* Math.round((base + extras) * 100) / 100 on two-decimal columns: the sum.
FareFinal(quote) == quote.base + quote.extras

\* Wrong variant: the version is compared but not incremented.
TransitionedRowSameVersion(r, snap, q) ==
    [r EXCEPT
        !.status = q.to,
        !.driver = IF q.to = "ASSIGNED" THEN q.driver ELSE @,
        !.vehicle = IF q.to = "ASSIGNED" THEN q.vehicle ELSE @,
        !.claimedBy = IF q.to = "CLAIMED" THEN q.by ELSE @]

TransitionedRow(r, snap, q) ==
    [r EXCEPT
        !.status = q.to,
        !.version = r.version + 1,
        !.driver = IF q.to = "ASSIGNED" THEN q.driver ELSE @,
        !.vehicle = IF q.to = "ASSIGNED" THEN q.vehicle ELSE @,
        !.claimedBy = IF q.to = "CLAIMED" THEN q.by ELSE @,
        !.fareFinal = IF q.to = "COMPLETED" THEN FareFinal(snap.quote) ELSE @]

\* driverChanged || vehicleChanged: undefined ids (None) change nothing.
CrewChanged(snap, q) ==
    \/ q.driver # None /\ q.driver # snap.driver
    \/ q.vehicle # None /\ q.vehicle # snap.vehicle

\* Wrong variant: a claim is recorded under the request's driver, not its actor.
AssignmentRowsOfRequest(snap, q) ==
    {[b |-> q.b, version |-> snap.version, action |-> a,
      driver |-> q.driver, vehicle |-> q.vehicle, by |-> q.by] :
        a \in {x \in {"CLAIM", "ASSIGN"} :
                 IF q.to = "CLAIMED" THEN x = "CLAIM"
                 ELSE x = "ASSIGN" /\ CrewChanged(snap, q)}}

AssignmentRows(snap, q) ==
    {[b |-> q.b, version |-> snap.version, action |-> a,
      driver |-> IF a = "CLAIM" THEN q.by ELSE q.driver,
      vehicle |-> q.vehicle, by |-> q.by] :
        a \in {x \in {"CLAIM", "ASSIGN"} :
                 IF q.to = "CLAIMED" THEN x = "CLAIM"
                 ELSE x = "ASSIGN" /\ CrewChanged(snap, q)}}

ApplyBookingTransitionTx(snap, q) ==
    /\ row' = [row EXCEPT ![q.b] = TransitionedRow(@, snap, q)]
    /\ auditLog' = auditLog \cup
         {[b |-> q.b, version |-> snap.version, from |-> snap.status,
           to |-> q.to, by |-> q.by]}
    /\ assignmentLog' = assignmentLog \cup AssignmentRows(snap, q)
    /\ outbox' = outbox \cup
         {n \in {[b |-> q.b, version |-> snap.version, to |-> q.to]} :
             HasTemplate(snap.status, q.to)}

-----------------------------------------------------------------------------
(* createBooking: the row is PENDING whatever the mode; CLAIM mode then    *)
(* calls transitionBookingStatus, a second transaction.  The actor of that *)
(* call is whoever created the booking, written "staff" here.              *)
(*                                                                         *)
(* auditLog holds the STATUS_CHANGE and CLAIM rows; the CREATE, UPDATE and *)
(* DELETE rows, written in the same transactions as the row they describe, *)
(* are left out.  An outbox row stands for the fan-out over channels.      *)

CreateBooking(w, b, mode, quote) ==
    /\ Idle(w)
    /\ row[b].status = "ABSENT"
    /\ row' = [row EXCEPT ![b] =
         [@ EXCEPT !.status = "PENDING", !.mode = mode, !.quote = quote,
                   !.timer = IF mode = "HYBRID" THEN "running" ELSE "none"]]
    /\ IF mode = "CLAIM"
       THEN Checked(w, TransitionRequest(b, "OPEN_FOR_CLAIM", "staff"))
       ELSE UNCHANGED req
    /\ UNCHANGED <<logs, deletedVersion, crashes>>

\* claimTimeoutAt <= now from here on.
ExpireClaimTimeout(b) ==
    /\ row[b].timer = "running"
    /\ row' = [row EXCEPT ![b].timer = "expired"]
    /\ UNCHANGED <<req, logs, deletedVersion, crashes>>

-----------------------------------------------------------------------------
(* First reads of the handlers. *)

\* transitionByStaff and cancelBooking by staff: nothing before the snapshot.
StaffTransition(w, b, to, gateOpen) ==
    /\ Idle(w)
    /\ Loadable(TransitionRequest(b, to, "staff"), gateOpen)
    /\ Loaded(w, TransitionRequest(b, to, "staff"))
    /\ UNCHANGED <<row, logs, deletedVersion, crashes>>

\* cancelOwnBookingAction: reads the (immutable) owner, then cancels.
CancelOwnBooking(w, b) ==
    /\ Idle(w)
    /\ Exists(b)
    /\ Checked(w, TransitionRequest(b, "CANCELLED", "customer"))
    /\ UNCHANGED <<row, logs, deletedVersion, crashes>>

\* assignDriverToBooking: branch, driver and vehicle are validated first.
\* The roster is not modelled: any driver and vehicle may pass.
AssignDriverToBooking(w, b, d, v) ==
    /\ Idle(w)
    /\ Exists(b)
    /\ Checked(w, [TransitionRequest(b, "ASSIGNED", "staff") EXCEPT
                      !.driver = d, !.vehicle = v])
    /\ UNCHANGED <<row, logs, deletedVersion, crashes>>

\* Wrong variant: the ownership read is left out.
DriverTransitionUnowned(w, b, d, to) ==
    /\ Idle(w)
    /\ Exists(b)
    /\ to \in DriverAllowedTargets
    /\ Checked(w, TransitionRequest(b, to, d))
    /\ UNCHANGED <<row, logs, deletedVersion, crashes>>

\* driverTransitionAction and POST /trips/:id/transition: the ownership read.
DriverTransition(w, b, d, to) ==
    /\ Idle(w)
    /\ Exists(b)
    /\ to \in DriverAllowedTargets
    /\ row[b].claimedBy = d \/ row[b].driver = d
    /\ Checked(w, TransitionRequest(b, to, d))
    /\ UNCHANGED <<row, logs, deletedVersion, crashes>>

\* ensureCanClaim: driver status and branch, before the claim's transaction.
EnsureCanClaim(w, b, d) ==
    /\ Idle(w)
    /\ Exists(b)
    /\ Checked(w, [NoRequest EXCEPT !.op = "claim", !.b = b,
                                    !.to = "CLAIMED", !.by = d])
    /\ UNCHANGED <<row, logs, deletedVersion, crashes>>

\* Wrong variant: the cron looks for bookings of the CLAIM mode.
PromoteClaimMode(c, b) ==
    /\ Idle(c)
    /\ Exists(b)
    /\ row[b].status = "PENDING"
    /\ row[b].mode = "CLAIM"
    /\ Checked(c, TransitionRequest(b, "OPEN_FOR_CLAIM", "cron"))
    /\ UNCHANGED <<row, logs, deletedVersion, crashes>>

\* The promote-hybrid cron lists the expired bookings, then promotes each
\* concurrently: one handler here is one element of that batch.
PromoteHybrid(c, b) ==
    /\ Idle(c)
    /\ Exists(b)
    /\ row[b].status = "PENDING"
    /\ row[b].timer = "expired"
    /\ Checked(c, TransitionRequest(b, "OPEN_FOR_CLAIM", "cron"))
    /\ UNCHANGED <<row, logs, deletedVersion, crashes>>

\* softDeleteBooking: any status may be deleted.
ReadForDelete(w, b) ==
    /\ Idle(w)
    /\ Exists(b)
    /\ req' = [req EXCEPT ![w] = [NoRequest EXCEPT
         !.stage = "ready", !.op = "delete", !.b = b]]
    /\ UNCHANGED <<row, logs, deletedVersion, crashes>>

\* updatePendingBooking: the status is checked, then the route is geocoded.
ReadForEdit(w, b, quote) ==
    /\ Idle(w)
    /\ Exists(b)
    /\ row[b].status = "PENDING"
    /\ req' = [req EXCEPT ![w] = [NoRequest EXCEPT
         !.stage = "ready", !.op = "edit", !.b = b, !.quote = quote]]
    /\ UNCHANGED <<row, logs, deletedVersion, crashes>>

-----------------------------------------------------------------------------
(* Second halves: the snapshot read of a checked transition, and the       *)
(* transactions.                                                           *)

LoadTransition(w, gateOpen) ==
    /\ req[w].stage = "checked"
    /\ req[w].op = "transition"
    /\ IF Loadable(req[w], gateOpen) THEN Loaded(w, req[w]) ELSE Release(w)
    /\ UNCHANGED <<row, logs, deletedVersion, crashes>>

\* Wrong variant: the notification is enqueued outside the transaction, and a
\* conflict does not take it back.
CommitTransitionNotifyAlways(w) ==
    /\ req[w].stage = "ready"
    /\ req[w].op = "transition"
    /\ IF VersionMatches(req[w].b, req[w].snap)
       THEN ApplyBookingTransitionTx(req[w].snap, req[w])
       ELSE /\ outbox' = outbox \cup
                 {[b |-> req[w].b, version |-> req[w].snap.version,
                   to |-> req[w].to]}
            /\ UNCHANGED <<row, auditLog, assignmentLog>>
    /\ Release(w)
    /\ UNCHANGED <<deletedVersion, crashes>>

\* The transaction of transitionBookingStatus; with a stale version the update
\* finds no row, the transaction rolls back and the caller gets an error.
CommitTransition(w) ==
    /\ req[w].stage = "ready"
    /\ req[w].op = "transition"
    /\ IF VersionMatches(req[w].b, req[w].snap)
       THEN ApplyBookingTransitionTx(req[w].snap, req[w])
       ELSE UNCHANGED <<row, logs>>
    /\ Release(w)
    /\ UNCHANGED <<deletedVersion, crashes>>

\* claimBooking: SELECT ... FOR UPDATE SKIP LOCKED and the transition in one
\* transaction, so the version it passes on is the current one.
\* Wrong variant: the status is not part of the locking SELECT.
ClaimableAtAnyStatus(b) == ~row[b].deleted

Claimable(b) == row[b].status = "OPEN_FOR_CLAIM" /\ ~row[b].deleted

ClaimBooking(w) ==
    /\ req[w].stage = "checked"
    /\ req[w].op = "claim"
    /\ IF Claimable(req[w].b)
       THEN ApplyBookingTransitionTx(
              [status |-> "OPEN_FOR_CLAIM", version |-> row[req[w].b].version,
               driver |-> None, vehicle |-> None, quote |-> None], req[w])
       ELSE UNCHANGED <<row, logs>>
    /\ Release(w)
    /\ UNCHANGED <<deletedVersion, crashes>>

\* Another transaction holds the row lock: SKIP LOCKED sees no row, and the
\* claim is refused with ALREADY_CLAIMED.
SkipLocked(w) ==
    /\ req[w].stage = "checked"
    /\ req[w].op = "claim"
    /\ Release(w)
    /\ UNCHANGED <<row, logs, deletedVersion, crashes>>

\* UPDATE ... SET deletedAt WHERE id = ?: no version, no re-check.
CommitDelete(w) ==
    LET b == req[w].b IN
    /\ req[w].stage = "ready"
    /\ req[w].op = "delete"
    /\ row' = [row EXCEPT ![b].deleted = TRUE]
    /\ deletedVersion' = [deletedVersion EXCEPT ![b] =
         IF @ = None THEN row[b].version ELSE @]
    /\ Release(w)
    /\ UNCHANGED <<logs, crashes>>

\* UPDATE ... SET fareEstimate, toll, parking WHERE id = ?: neither the
\* status nor the version is looked at again, and the version is not bumped.
CommitEdit(w) ==
    /\ req[w].stage = "ready"
    /\ req[w].op = "edit"
    /\ row' = [row EXCEPT ![req[w].b].quote = req[w].quote]
    /\ Release(w)
    /\ UNCHANGED <<logs, deletedVersion, crashes>>

\* The invocation is killed (timeout, frozen function, lost connection).
Crash(w) ==
    /\ ~Idle(w)
    /\ crashes < MaxCrashes
    /\ crashes' = crashes + 1
    /\ Release(w)
    /\ UNCHANGED <<row, logs, deletedVersion>>

-----------------------------------------------------------------------------
Begin(w) ==
    \E b \in Bookings :
        \/ \E mode \in DispatchModes, quote \in Quotes :
              CreateBooking(w, b, mode, quote)
        \/ CancelOwnBooking(w, b)
        \/ \E d \in Drivers, v \in Vehicles : AssignDriverToBooking(w, b, d, v)
        \/ \E d \in Drivers, to \in DriverAllowedTargets :
              DriverTransition(w, b, d, to)
        \/ \E d \in Drivers : EnsureCanClaim(w, b, d)
        \/ ReadForDelete(w, b)
        \/ \E quote \in Quotes : ReadForEdit(w, b, quote)

Finish(w) ==
    \/ CommitTransition(w)
    \/ ClaimBooking(w)
    \/ SkipLocked(w)
    \/ CommitDelete(w)
    \/ CommitEdit(w)

UngatedStep ==
    \/ \E w \in Workers : Begin(w)
    \/ \E c \in Crons, b \in Bookings : PromoteHybrid(c, b)
    \/ \E b \in Bookings : ExpireClaimTimeout(b)
    \/ \E w \in Handlers : Finish(w) \/ Crash(w)

\* The verdict of assertCanCompleteTrip depends on the tracking component:
\* TripTracking supplies it, here either is possible.
GatedStep(gateOpen) ==
    \/ \E w \in Workers, b \in Bookings, to \in StaffTargets \cup {"CANCELLED"} :
          StaffTransition(w, b, to, gateOpen)
    \/ \E w \in Handlers : LoadTransition(w, gateOpen)

Next ==
    \/ UngatedStep
    \/ \E gateOpen \in BOOLEAN : GatedStep(gateOpen)

Spec == Init /\ [][Next]_vars

(***************************************************************************)
(* Fairness.  A handler that was started runs to its end unless it is      *)
(* killed, the cron fires every minute, and time passes.  Nothing obliges  *)
(* staff, customers or drivers to start a request.                         *)
(***************************************************************************)
Fairness ==
    /\ \A w \in Handlers :
         /\ WF_vars(\E gateOpen \in BOOLEAN : LoadTransition(w, gateOpen))
         /\ WF_vars(CommitTransition(w))
         /\ WF_vars(ClaimBooking(w))
         /\ WF_vars(CommitDelete(w))
         /\ WF_vars(CommitEdit(w))
    /\ \A c \in Crons, b \in Bookings : WF_vars(PromoteHybrid(c, b))
    /\ \A b \in Bookings : WF_vars(ExpireClaimTimeout(b))

FairSpec == Spec /\ Fairness

-----------------------------------------------------------------------------
(* Properties *)

\* Every table and request keeps the shape of its schema.
TypeOK ==
    /\ row \in [Bookings -> BookingRow]
    /\ \A b \in Bookings :
         row[b].status # "ABSENT" => row[b].mode # None /\ row[b].quote # None
    /\ req \in [Handlers -> Request]
    /\ auditLog \subseteq AuditRow
    /\ assignmentLog \subseteq AssignmentRow
    /\ outbox \subseteq OutboxRow
    /\ deletedVersion \in [Bookings -> Nat \cup {None}]
    /\ crashes \in 0..MaxCrashes

AuditOf(b) == {a \in auditLog : a.b = b}

\* No update is lost and none is applied twice: the audit rows of a booking
\* form one path of the state machine, from PENDING at version 0 to the
\* current status at the current version, with exactly one row per version.
\* This is what the optimistic lock of applyBookingTransitionTx is for.
AuditIsOnePath ==
    \A b \in Bookings :
        /\ \A a \in AuditOf(b) :
             /\ a.version < row[b].version
             /\ CanTransition(a.from, a.to)
             /\ a.version = 0 => a.from = "PENDING"
             /\ a.version + 1 = row[b].version => a.to = row[b].status
        /\ \A v \in 0..(row[b].version - 1) : \E a \in AuditOf(b) : a.version = v
        /\ \A a1, a2 \in AuditOf(b) :
             /\ a1.version = a2.version => a1 = a2
             /\ a1.version + 1 = a2.version => a1.to = a2.from

\* A booking has at most one claimer and one crew for ever, and the history
\* names exactly them: however many drivers race for an open booking, the
\* row, AssignmentHistory and AuditLog agree on who won.
AssignmentHistoryAgrees ==
    \A b \in Bookings :
        /\ \A h \in assignmentLog : h.b = b =>
             /\ IF h.action = "CLAIM"
                THEN h.driver = row[b].claimedBy
                ELSE h.driver = row[b].driver /\ h.vehicle = row[b].vehicle
             /\ \E a \in AuditOf(b) :
                  /\ a.version = h.version
                  /\ a.by = h.by
                  /\ a.to = IF h.action = "CLAIM" THEN "CLAIMED" ELSE "ASSIGNED"
        /\ \A a \in AuditOf(b) : a.to \in {"CLAIMED", "ASSIGNED"} =>
             \E h \in assignmentLog : h.b = b /\ h.version = a.version
        /\ \A h1, h2 \in assignmentLog :
             h1.b = b /\ h2.b = b /\ h1.action = h2.action => h1 = h2

\* The outbox announces the committed transitions that have a template, each
\* once, and nothing else: a conflicting or crashed handler announces nothing.
OutboxMatchesAudit ==
    outbox = {[b |-> a.b, version |-> a.version, to |-> a.to] :
                a \in {x \in auditLog : HasTemplate(x.from, x.to)}}

\* softDeleteBooking does not stop handlers that already hold a snapshot, but
\* at most one of them can still commit: the first moves the version, and no
\* handler can read a newer snapshot of a deleted row.
AtMostOneLateTransition ==
    \A b \in Bookings :
        /\ row[b].deleted <=> deletedVersion[b] # None
        /\ row[b].deleted => row[b].version <= deletedVersion[b] + 1

\* Whoever advances a trip as a driver has claimed it or been assigned to it,
\* even though ownership was read before the snapshot and the commit.
DriversAdvanceOwnTrips ==
    \A b \in Bookings : \A a \in AuditOf(b) :
        a.by \in Drivers => a.by \in {row[b].claimedBy, row[b].driver}

\* What a handler has read and still holds is either true or detectably stale:
\* between its reads and its transaction the booking may move, but then the
\* version it holds is behind; and a handler that holds a snapshot of a deleted
\* booking took it before the deletion.
RequestAgrees(q) ==
    /\ q.stage # "idle" => q.b \in Bookings /\ row[q.b].status # "ABSENT"
    /\ q.op = "transition" =>
         /\ q.to \in Statuses \ {"CLAIMED"}
         /\ q.by \in Actors
         /\ IF q.to = "ASSIGNED"
            THEN q.driver \in Drivers /\ q.vehicle \in Vehicles
            ELSE q.driver = None /\ q.vehicle = None
         /\ q.by \in Drivers => q.by \in {row[q.b].claimedBy, row[q.b].driver}
    /\ q.op = "claim" => q.to = "CLAIMED" /\ q.by \in Drivers
    /\ q.op = "edit" => q.quote \in Quotes
    /\ q.op = "transition" /\ q.stage = "ready" =>
         /\ q.snap \in Snapshot
         /\ CanTransition(q.snap.status, q.to)
         /\ q.snap.version <= row[q.b].version
         /\ VersionMatches(q.b, q.snap) =>
              /\ q.snap.status = row[q.b].status
              /\ q.snap.driver = row[q.b].driver
              /\ q.snap.vehicle = row[q.b].vehicle
         /\ row[q.b].deleted => q.snap.version <= deletedVersion[q.b]

RequestsAgree ==
    \A w \in Handlers :
        /\ req[w].stage = "idle" <=> req[w].op = "none"
        /\ RequestAgrees(req[w])

\* A HYBRID booking whose claim timeout has passed is opened, taken or
\* cancelled (or deleted): the cron retries it whatever races with it.
HybridBookingsOpen ==
    \A b \in Bookings :
        (Exists(b) /\ row[b].timer = "expired")
            ~> (row[b].status # "PENDING" \/ row[b].deleted)

=============================================================================
