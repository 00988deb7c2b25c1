----------------------- MODULE BookingLifecycle_proofs -----------------------
(***************************************************************************)
(* Proofs about BookingLifecycle and its refinement of TripStateMachine,   *)
(* for any sets of bookings, drivers, vehicles, prices and handlers.       *)
(*                                                                         *)
(* Every step of the lifecycle is of one of a few kinds, and each kind is  *)
(* shown to preserve each part of the inductive invariant IInv:            *)
(*   - a read step puts an agreeing request (or none) in a handler's hands *)
(*     and touches no table (ReadStep);                                    *)
(*   - an apply step runs applyBookingTransitionTx on a true snapshot      *)
(*     (ApplyStep);                                                        *)
(*   - the rest write one row and leave its version and status alone.      *)
(***************************************************************************)
EXTENDS BookingImplementsTrip, TLAPS

\* The statuses order a booking's life: version 0 is a booking nobody moved,
\* an unclaimed one has no claimer and one never assigned has no crew.
RowsAreConsistent ==
    \A b \in Bookings :
        /\ row[b].version = 0 <=> row[b].status \in {"ABSENT", "PENDING"}
        /\ row[b].status \in {"ABSENT", "PENDING", "OPEN_FOR_CLAIM"} =>
             row[b].claimedBy = None
        /\ row[b].status \in {"ABSENT", "PENDING", "OPEN_FOR_CLAIM", "CLAIMED"} =>
             row[b].driver = None /\ row[b].vehicle = None

\* The inductive invariant: each of its parts needs the others.
IInv ==
    /\ TypeOK
    /\ RequestsAgree
    /\ RowsAreConsistent
    /\ AuditIsOnePath
    /\ OutboxMatchesAudit
    /\ AtMostOneLateTransition
    /\ DriversAdvanceOwnTrips
    /\ AssignmentHistoryAgrees

\* Handler w now holds q, and no table changed.
ReadStep(w, q) ==
    /\ q \in Request
    /\ q.stage = "idle" <=> q.op = "none"
    /\ RequestAgrees(q)
    /\ req' = [req EXCEPT ![w] = q]
    /\ UNCHANGED <<row, logs, deletedVersion>>
    /\ crashes' \in 0..MaxCrashes

\* Handler w committed the transition q on a snapshot that is still true.
ApplyStep(w, snap, q) ==
    /\ q = req[w]
    /\ q.b \in Bookings
    /\ row[q.b].status # "ABSENT"
    /\ q.to \in Statuses
    /\ q.by \in Actors
    /\ CanTransition(row[q.b].status, q.to)
    /\ IF q.to = "ASSIGNED"
       THEN q.driver \in Drivers /\ q.vehicle \in Vehicles
       ELSE q.op = "transition" => q.driver = None /\ q.vehicle = None
    /\ q.to = "CLAIMED" => q.by \in Drivers
    /\ q.op \in {"transition", "claim"}
    /\ q.op = "claim" <=> q.to = "CLAIMED"
    /\ snap.status = row[q.b].status
    /\ snap.version = row[q.b].version
    /\ q.to = "COMPLETED" => snap.quote \in Quotes
    /\ q.to = "ASSIGNED" => snap.driver = row[q.b].driver
    /\ q.op = "transition" /\ q.by \in Drivers =>
         q.by \in {row[q.b].claimedBy, row[q.b].driver}
    /\ row[q.b].deleted => snap.version <= deletedVersion[q.b]
    /\ ApplyBookingTransitionTx(snap, q)
    /\ Release(w)
    /\ UNCHANGED <<deletedVersion, crashes>>

-----------------------------------------------------------------------------
(* Facts about the data. *)

\* A transition leaves a live status for another one, and never PENDING.
LEMMA TransitionFacts ==
    ASSUME NEW from, NEW to, CanTransition(from, to)
    PROVE  /\ from \in LiveStatuses
           /\ to \in Statuses \ {"PENDING"}
           /\ to = "OPEN_FOR_CLAIM" => from = "PENDING"
           /\ to = "CLAIMED" => from = "OPEN_FOR_CLAIM"
           /\ to = "ASSIGNED" => from \in {"PENDING", "CLAIMED"}
           /\ from # to
BY DEF CanTransition, AllowedTransitions, LiveStatuses, Statuses

\* The empty request agrees with any state.
LEMMA NoRequestAgrees ==
    /\ NoRequest \in Request
    /\ NoRequest.stage = "idle"
    /\ NoRequest.op = "none"
    /\ RequestAgrees(NoRequest)
BY DEF NoRequest, Request, RequestAgrees, MaybeDriver, MaybeVehicle

-----------------------------------------------------------------------------
(* The first reads of the handlers are read steps. *)

\* A request that loads a snapshot of an existing booking agrees with it.
LEMMA LoadAgrees ==
    ASSUME IInv, NEW w \in Handlers, NEW q \in Request, NEW gateOpen,
           q.op = "transition", q.b \in Bookings, RequestAgrees(q),
           Loadable(q, gateOpen), Loaded(w, q),
           UNCHANGED <<row, logs, deletedVersion, crashes>>
    PROVE  \E p : ReadStep(w, p)
<1> DEFINE p == [q EXCEPT !.stage = "ready", !.snap = SnapshotOf(row[q.b])]
<1>1. row[q.b] \in BookingRow /\ row[q.b].quote \in Quotes
      /\ row[q.b].status \in Statuses
  BY DEF IInv, TypeOK, Loadable, Exists, BookingRow
<1>2. SnapshotOf(row[q.b]) \in Snapshot
  BY <1>1 DEF SnapshotOf, Snapshot, BookingRow
<1>3. /\ p \in Request
      /\ p.stage = "ready"
      /\ p.op = "transition"
      /\ p.b = q.b /\ p.to = q.to /\ p.by = q.by
      /\ p.driver = q.driver /\ p.vehicle = q.vehicle
      /\ p.quote = q.quote
      /\ p.snap = SnapshotOf(row[q.b])
  BY <1>2 DEF Request
<1>4. ~row[q.b].deleted /\ row[q.b].status # "ABSENT"
      /\ CanTransition(row[q.b].status, q.to)
  BY DEF Loadable, Exists
<1>5. row[q.b].version \in Nat
  BY <1>1 DEF BookingRow
<1>6. RequestAgrees(p)
  BY <1>2, <1>3, <1>4, <1>5 DEF RequestAgrees, SnapshotOf, VersionMatches
<1>7. crashes' \in 0..MaxCrashes
  BY DEF IInv, TypeOK
<1> QED
  BY <1>3, <1>6, <1>7 DEF ReadStep, Loaded

\* A handler that answers or dies is a read step with nothing in hand.
LEMMA ReleaseReads ==
    ASSUME NEW w \in Handlers, Release(w), crashes' \in 0..MaxCrashes,
           UNCHANGED <<row, logs, deletedVersion>>
    PROVE  ReadStep(w, NoRequest)
BY NoRequestAgrees DEF ReadStep, Release

\* Every action that begins a request on an existing booking is a read step.
LEMMA BeginReads ==
    ASSUME IInv, NEW w \in Handlers, NEW b \in Bookings,
           \/ CancelOwnBooking(w, b)
           \/ \E d \in Drivers, v \in Vehicles :
                AssignDriverToBooking(w, b, d, v)
           \/ \E d \in Drivers, to \in DriverAllowedTargets :
                DriverTransition(w, b, d, to)
           \/ \E d \in Drivers : EnsureCanClaim(w, b, d)
           \/ PromoteHybrid(w, b)
           \/ ReadForDelete(w, b)
           \/ \E quote \in Quotes : ReadForEdit(w, b, quote)
    PROVE  \E p : ReadStep(w, p)
<1> USE ConstantsAssumption
<1>0. crashes' \in 0..MaxCrashes
  <2>1. UNCHANGED crashes
    BY DEF CancelOwnBooking, AssignDriverToBooking, DriverTransition,
           EnsureCanClaim, PromoteHybrid, ReadForDelete, ReadForEdit
  <2> QED  BY <2>1 DEF IInv, TypeOK
<1>1. CASE CancelOwnBooking(w, b)
  <2> DEFINE q == TransitionRequest(b, "CANCELLED", "customer")
             p == [q EXCEPT !.stage = "checked"]
  <2>1. "CANCELLED" \in Statuses /\ "customer" \in Actors
        /\ "customer" \notin Drivers
    BY DEF Statuses, Actors
  <2>2. p \in Request /\ p.stage = "checked" /\ p.op = "transition"
        /\ p.b = b /\ p.to = "CANCELLED" /\ p.by = "customer"
        /\ p.driver = None /\ p.vehicle = None
    BY <2>1 DEF TransitionRequest, NoRequest, Request, MaybeDriver, MaybeVehicle
  <2>3. RequestAgrees(p)
    BY <1>1, <2>1, <2>2 DEF RequestAgrees, CancelOwnBooking, Exists
  <2> QED
    BY <1>0, <1>1, <2>2, <2>3 DEF ReadStep, CancelOwnBooking, Checked
<1>2. ASSUME NEW d \in Drivers, NEW v \in Vehicles,
             AssignDriverToBooking(w, b, d, v)
      PROVE  \E p : ReadStep(w, p)
  <2> DEFINE q == [TransitionRequest(b, "ASSIGNED", "staff") EXCEPT
                      !.driver = d, !.vehicle = v]
             p == [q EXCEPT !.stage = "checked"]
  <2>1. "ASSIGNED" \in Statuses /\ "staff" \in Actors /\ "staff" \notin Drivers
    BY DEF Statuses, LiveStatuses, Actors
  <2>2. p \in Request /\ p.stage = "checked" /\ p.op = "transition"
        /\ p.b = b /\ p.to = "ASSIGNED" /\ p.by = "staff" /\ p.driver = d
        /\ p.vehicle = v
    BY <2>1 DEF TransitionRequest, NoRequest, Request, MaybeDriver, MaybeVehicle
  <2>3. RequestAgrees(p)
    BY <1>2, <2>1, <2>2 DEF RequestAgrees, AssignDriverToBooking, Exists
  <2> QED
    BY <1>0, <1>2, <2>2, <2>3 DEF ReadStep, AssignDriverToBooking, Checked
<1>3. ASSUME NEW d \in Drivers, NEW to \in DriverAllowedTargets,
             DriverTransition(w, b, d, to)
      PROVE  \E p : ReadStep(w, p)
  <2> DEFINE q == TransitionRequest(b, to, d)
             p == [q EXCEPT !.stage = "checked"]
  <2>1. to \in Statuses \ {"CLAIMED", "ASSIGNED"} /\ d \in Actors
    BY DEF Statuses, LiveStatuses, Actors, DriverAllowedTargets
  <2>2. p \in Request /\ p.stage = "checked" /\ p.op = "transition"
        /\ p.b = b /\ p.to = to /\ p.by = d
        /\ p.driver = None /\ p.vehicle = None
    BY <2>1 DEF TransitionRequest, NoRequest, Request, MaybeDriver, MaybeVehicle
  <2>3. RequestAgrees(p)
    BY <1>3, <2>1, <2>2 DEF RequestAgrees, DriverTransition, Exists
  <2> QED
    BY <1>0, <1>3, <2>2, <2>3 DEF ReadStep, DriverTransition, Checked
<1>4. ASSUME NEW d \in Drivers, EnsureCanClaim(w, b, d)
      PROVE  \E p : ReadStep(w, p)
  <2> DEFINE q == [NoRequest EXCEPT !.op = "claim", !.b = b,
                                    !.to = "CLAIMED", !.by = d]
             p == [q EXCEPT !.stage = "checked"]
  <2>1. "CLAIMED" \in Statuses /\ d \in Actors
    BY DEF Statuses, LiveStatuses, Actors
  <2>2. p \in Request /\ p.stage = "checked" /\ p.op = "claim"
        /\ p.b = b /\ p.to = "CLAIMED" /\ p.by = d
    BY <2>1 DEF NoRequest, Request, MaybeDriver, MaybeVehicle
  <2>3. RequestAgrees(p)
    BY <1>4, <2>1, <2>2 DEF RequestAgrees, EnsureCanClaim, Exists
  <2> QED
    BY <1>0, <1>4, <2>2, <2>3 DEF ReadStep, EnsureCanClaim, Checked
<1>5. CASE PromoteHybrid(w, b)
  <2> DEFINE q == TransitionRequest(b, "OPEN_FOR_CLAIM", "cron")
             p == [q EXCEPT !.stage = "checked"]
  <2>1. "OPEN_FOR_CLAIM" \in Statuses /\ "cron" \in Actors /\ "cron" \notin Drivers
    BY DEF Statuses, LiveStatuses, Actors
  <2>2. p \in Request /\ p.stage = "checked" /\ p.op = "transition"
        /\ p.b = b /\ p.to = "OPEN_FOR_CLAIM" /\ p.by = "cron"
        /\ p.driver = None /\ p.vehicle = None
    BY <2>1 DEF TransitionRequest, NoRequest, Request, MaybeDriver, MaybeVehicle
  <2>3. RequestAgrees(p)
    BY <1>5, <2>1, <2>2 DEF RequestAgrees, PromoteHybrid, Exists
  <2> QED
    BY <1>0, <1>5, <2>2, <2>3 DEF ReadStep, PromoteHybrid, Checked
<1>6. CASE ReadForDelete(w, b)
  <2> DEFINE p == [NoRequest EXCEPT !.stage = "ready", !.op = "delete", !.b = b]
  <2>1. p \in Request /\ p.stage = "ready" /\ p.op = "delete" /\ p.b = b
    BY DEF NoRequest, Request, MaybeDriver, MaybeVehicle
  <2>2. RequestAgrees(p)
    BY <1>6, <2>1 DEF RequestAgrees, ReadForDelete, Exists
  <2> QED
    BY <1>0, <1>6, <2>1, <2>2 DEF ReadStep, ReadForDelete
<1>7. ASSUME NEW quote \in Quotes, ReadForEdit(w, b, quote)
      PROVE  \E p : ReadStep(w, p)
  <2> DEFINE p == [NoRequest EXCEPT !.stage = "ready", !.op = "edit",
                                    !.b = b, !.quote = quote]
  <2>1. p \in Request /\ p.stage = "ready" /\ p.op = "edit" /\ p.b = b
        /\ p.quote = quote
    BY DEF NoRequest, Request, MaybeDriver, MaybeVehicle
  <2>2. RequestAgrees(p)
    BY <1>7, <2>1 DEF RequestAgrees, ReadForEdit, Exists
  <2> QED
    BY <1>0, <1>7, <2>1, <2>2 DEF ReadStep, ReadForEdit
<1> QED
  BY <1>1, <1>2, <1>3, <1>4, <1>5, <1>6, <1>7

\* So are the two that read the snapshot.
LEMMA LoadReads ==
    ASSUME IInv, NEW gateOpen,
           \/ \E w \in Workers, b \in Bookings, to \in StaffTargets \cup {"CANCELLED"} :
                StaffTransition(w, b, to, gateOpen)
           \/ \E w \in Handlers : LoadTransition(w, gateOpen)
    PROVE  \E w \in Handlers : \E p : ReadStep(w, p)
<1>1. ASSUME NEW w \in Workers, NEW b \in Bookings,
             NEW to \in StaffTargets \cup {"CANCELLED"},
             StaffTransition(w, b, to, gateOpen)
      PROVE  \E p : ReadStep(w, p)
  <2> DEFINE q == TransitionRequest(b, to, "staff")
  <2>1. to \in Statuses \ {"CLAIMED", "ASSIGNED"} /\ "staff" \in Actors
        /\ "staff" \notin Drivers
    BY ConstantsAssumption DEF Statuses, LiveStatuses, StaffTargets, Actors
  <2>2. q \in Request /\ q.stage = "idle" /\ q.op = "transition"
        /\ q.b = b /\ q.to = to /\ q.by = "staff"
        /\ q.driver = None /\ q.vehicle = None
    BY <2>1 DEF TransitionRequest, NoRequest, Request, MaybeDriver, MaybeVehicle
  <2>3. RequestAgrees(q)
    BY <2>1, <2>2 DEF RequestAgrees
  <2>4. w \in Handlers /\ Loadable(q, gateOpen) /\ Loaded(w, q)
        /\ UNCHANGED <<row, logs, deletedVersion, crashes>>
    BY <1>1 DEF StaffTransition, Handlers
  <2> QED
    BY <2>2, <2>3, <2>4, LoadAgrees
<1>2. ASSUME NEW w \in Handlers, LoadTransition(w, gateOpen)
      PROVE  \E p : ReadStep(w, p)
  <2>1. req[w] \in Request /\ RequestAgrees(req[w]) /\ req[w].b \in Bookings
        /\ req[w].op = "transition" /\ crashes \in 0..MaxCrashes
    BY <1>2 DEF IInv, TypeOK, RequestsAgree, RequestAgrees, LoadTransition
  <2>2. CASE Loadable(req[w], gateOpen)
    BY <1>2, <2>1, <2>2, LoadAgrees DEF LoadTransition
  <2>3. CASE ~Loadable(req[w], gateOpen)
    BY <1>2, <2>1, <2>3, ReleaseReads DEF LoadTransition
  <2> QED  BY <2>2, <2>3
<1> QED
  BY <1>1, <1>2 DEF Handlers

-----------------------------------------------------------------------------
(* The transactions are apply steps, or read steps when they are refused. *)

\* A commit that finds its version applies a true snapshot.
LEMMA CommitApplies ==
    ASSUME IInv, NEW w \in Handlers, CommitTransition(w)
    PROVE  (\E p : ReadStep(w, p)) \/ (\E snap : ApplyStep(w, snap, req[w]))
<1> DEFINE q == req[w]
<1>1. /\ q \in Request /\ RequestAgrees(q) /\ q.stage = "ready"
      /\ q.op = "transition" /\ q.b \in Bookings
      /\ crashes \in 0..MaxCrashes
  BY DEF IInv, TypeOK, RequestsAgree, RequestAgrees, CommitTransition
<1>2. CASE ~VersionMatches(q.b, q.snap)
  BY <1>1, <1>2, ReleaseReads DEF CommitTransition
<1>3. CASE VersionMatches(q.b, q.snap)
  <2>1. /\ row[q.b].status # "ABSENT"
        /\ q.to \in Statuses \ {"CLAIMED"}
        /\ q.by \in Actors
        /\ IF q.to = "ASSIGNED"
           THEN q.driver \in Drivers /\ q.vehicle \in Vehicles
           ELSE q.driver = None /\ q.vehicle = None
        /\ q.snap \in Snapshot
        /\ CanTransition(q.snap.status, q.to)
        /\ q.snap.status = row[q.b].status
        /\ q.snap.driver = row[q.b].driver
        /\ q.by \in Drivers => q.by \in {row[q.b].claimedBy, row[q.b].driver}
        /\ row[q.b].deleted => q.snap.version <= deletedVersion[q.b]
    BY <1>1, <1>3 DEF RequestAgrees
  <2>2. q.snap.version = row[q.b].version /\ q.snap.quote \in Quotes
    BY <1>3, <2>1 DEF VersionMatches, Snapshot
  <2>3. /\ ApplyBookingTransitionTx(q.snap, q)
        /\ Release(w)
        /\ UNCHANGED <<deletedVersion, crashes>>
    BY <1>3 DEF CommitTransition
  <2>4. ApplyStep(w, q.snap, q)
    BY <1>1, <2>1, <2>2, <2>3 DEF ApplyStep
  <2> QED  BY <2>4
<1> QED  BY <1>2, <1>3

\* So does a claim, which reads under the lock it writes under.
LEMMA ClaimApplies ==
    ASSUME IInv, NEW w \in Handlers, ClaimBooking(w)
    PROVE  (\E p : ReadStep(w, p)) \/ (\E snap : ApplyStep(w, snap, req[w]))
<1> DEFINE q == req[w]
<1>1. /\ q \in Request /\ q.stage = "checked" /\ q.op = "claim"
      /\ q.b \in Bookings /\ q.to = "CLAIMED" /\ q.by \in Drivers
      /\ row[q.b].status # "ABSENT"
      /\ crashes \in 0..MaxCrashes
  BY DEF IInv, TypeOK, RequestsAgree, RequestAgrees, ClaimBooking
<1>2. CASE ~Claimable(q.b)
  BY <1>1, <1>2, ReleaseReads DEF ClaimBooking
<1>3. CASE Claimable(q.b)
  <2> DEFINE snap ==
        [status |-> "OPEN_FOR_CLAIM", version |-> row[q.b].version,
         driver |-> None, vehicle |-> None, quote |-> None]
  <2>1. snap.status = row[q.b].status /\ snap.version = row[q.b].version
        /\ ~row[q.b].deleted
    BY <1>3 DEF Claimable
  <2>2. q.to \in Statuses /\ q.by \in Actors /\ CanTransition(snap.status, q.to)
    BY <1>1 DEF Statuses, LiveStatuses, Actors, CanTransition, AllowedTransitions
  <2>3. /\ ApplyBookingTransitionTx(snap, q)
        /\ Release(w)
        /\ UNCHANGED <<deletedVersion, crashes>>
    BY <1>3 DEF ClaimBooking
  <2>4. ApplyStep(w, snap, q)
    BY <1>1, <2>1, <2>2, <2>3 DEF ApplyStep
  <2> QED  BY <2>4
<1> QED  BY <1>2, <1>3

\* Every step of the lifecycle is of one of these kinds.
LEMMA StepKinds ==
    ASSUME IInv, Next
    PROVE  \/ \E w \in Handlers : \E p : ReadStep(w, p)
           \/ \E w \in Handlers : \E snap : ApplyStep(w, snap, req[w])
           \/ \E w \in Workers, b \in Bookings, mode \in DispatchModes,
                quote \in Quotes : CreateBooking(w, b, mode, quote)
           \/ \E b \in Bookings : ExpireClaimTimeout(b)
           \/ \E w \in Handlers : CommitDelete(w) \/ CommitEdit(w)
<1>1. ASSUME NEW w \in Workers, NEW b \in Bookings, Begin(w)
      PROVE  \/ \E p : ReadStep(w, p)
             \/ \E c \in Bookings, mode \in DispatchModes, quote \in Quotes :
                   CreateBooking(w, c, mode, quote)
  BY <1>1, BeginReads DEF Begin, Handlers
<1>2. ASSUME NEW c \in Crons, NEW b \in Bookings, PromoteHybrid(c, b)
      PROVE  \E p : ReadStep(c, p)
  BY <1>2, BeginReads DEF Handlers
<1>3. ASSUME NEW w \in Handlers, SkipLocked(w) \/ Crash(w)
      PROVE  \E p : ReadStep(w, p)
  <2>1. crashes' \in 0..MaxCrashes
    BY <1>3, ConstantsAssumption DEF IInv, TypeOK, SkipLocked, Crash
  <2> QED
    BY <1>3, <2>1, ReleaseReads DEF SkipLocked, Crash
<1>4. CASE UngatedStep
  BY <1>1, <1>2, <1>3, <1>4, CommitApplies, ClaimApplies
  DEF UngatedStep, Begin, Finish, Handlers
<1>5. CASE \E gateOpen \in BOOLEAN : GatedStep(gateOpen)
  BY <1>5, LoadReads DEF GatedStep
<1> QED
  BY <1>4, <1>5 DEF Next

-----------------------------------------------------------------------------
(* Each kind of step preserves the invariant. *)

\* No booking, no request.
LEMMA InitEstablishes ==
    ASSUME Init
    PROVE  IInv
<1> USE ConstantsAssumption DEF Init
<1>1. TypeOK
  BY DEF TypeOK, BookingRow, NoRow, Request, NoRequest, MaybeDriver,
         MaybeVehicle, Statuses, LiveStatuses
<1>2. RequestsAgree
  BY NoRequestAgrees DEF RequestsAgree
<1>3. RowsAreConsistent
  BY DEF RowsAreConsistent, NoRow
<1>4. AuditIsOnePath
  BY DEF AuditIsOnePath, AuditOf, NoRow
<1>5. OutboxMatchesAudit
  BY DEF OutboxMatchesAudit
<1>6. AtMostOneLateTransition
  BY DEF AtMostOneLateTransition, NoRow
<1>7. DriversAdvanceOwnTrips /\ AssignmentHistoryAgrees
  BY DEF DriversAdvanceOwnTrips, AssignmentHistoryAgrees, AuditOf
<1> QED
  BY <1>1, <1>2, <1>3, <1>4, <1>5, <1>6, <1>7 DEF IInv

\* The tables are untouched, and the handlers other than w hold what they held.
LEMMA ReadPreserves ==
    ASSUME IInv, NEW w \in Handlers, NEW p, ReadStep(w, p)
    PROVE  IInv'
<1>1. TypeOK'
  BY DEF IInv, TypeOK, ReadStep, logs
<1>2. RequestsAgree'
  <2> SUFFICES ASSUME NEW v \in Handlers
               PROVE  /\ (req[v].stage = "idle")' <=> (req[v].op = "none")'
                      /\ RequestAgrees(req[v])'
    BY DEF RequestsAgree
  <2>1. req'[v] = IF v = w THEN p ELSE req[v]
    BY DEF IInv, TypeOK, ReadStep
  <2>2. row' = row /\ deletedVersion' = deletedVersion
    BY DEF ReadStep
  <2>3. CASE v = w
    BY <2>1, <2>2, <2>3 DEF ReadStep, RequestAgrees, VersionMatches
  <2>4. CASE v # w
    BY <2>1, <2>2, <2>4 DEF IInv, RequestsAgree, RequestAgrees, VersionMatches
  <2> QED  BY <2>3, <2>4
<1>3. RowsAreConsistent'
  BY DEF IInv, RowsAreConsistent, ReadStep
<1>4. AuditIsOnePath'
  BY DEF IInv, AuditIsOnePath, AuditOf, ReadStep, logs
<1>5. OutboxMatchesAudit'
  BY DEF IInv, OutboxMatchesAudit, ReadStep, logs
<1>6. AtMostOneLateTransition'
  BY DEF IInv, AtMostOneLateTransition, ReadStep
<1>7. DriversAdvanceOwnTrips' /\ AssignmentHistoryAgrees'
  BY DEF IInv, DriversAdvanceOwnTrips, AssignmentHistoryAgrees, AuditOf,
         ReadStep, logs
<1> QED
  BY <1>1, <1>2, <1>3, <1>4, <1>5, <1>6, <1>7 DEF IInv

\* An update of one row that moves neither its status, its version nor its
\* crew leaves every part of the invariant about them alone.
RowTouch(b) ==
    /\ \E r \in BookingRow :
         /\ row' = [row EXCEPT ![b] = r]
         /\ r.status = row[b].status
         /\ r.version = row[b].version
         /\ r.claimedBy = row[b].claimedBy
         /\ r.driver = row[b].driver
         /\ r.vehicle = row[b].vehicle
         /\ r.mode = row[b].mode
         /\ r.status # "ABSENT" => r.quote # None
         /\ row[b].deleted => r.deleted
         /\ deletedVersion' = [deletedVersion EXCEPT ![b] =
              IF r.deleted /\ @ = None THEN row[b].version ELSE @]
    /\ \/ req' = req
       \/ \E w \in Handlers : Release(w)
    /\ UNCHANGED <<logs, crashes>>

\* A row touched without a move of status or version keeps everything.
LEMMA TouchPreserves ==
    ASSUME IInv, NEW b \in Bookings, RowTouch(b)
    PROVE  IInv'
<1> USE ConstantsAssumption
<1>1. PICK r \in BookingRow :
         /\ row' = [row EXCEPT ![b] = r]
         /\ r.status = row[b].status
         /\ r.version = row[b].version
         /\ r.claimedBy = row[b].claimedBy
         /\ r.driver = row[b].driver
         /\ r.vehicle = row[b].vehicle
         /\ r.mode = row[b].mode
         /\ r.status # "ABSENT" => r.quote # None
         /\ row[b].deleted => r.deleted
         /\ deletedVersion' = [deletedVersion EXCEPT ![b] =
              IF r.deleted /\ @ = None THEN row[b].version ELSE @]
  BY DEF RowTouch
<1>2. /\ row \in [Bookings -> BookingRow]
      /\ deletedVersion \in [Bookings -> Nat \cup {None}]
      /\ req \in [Handlers -> Request]
  BY DEF IInv, TypeOK
<1>3. \A c \in Bookings :
         /\ row'[c].status = row[c].status
         /\ row'[c].version = row[c].version
         /\ row'[c].claimedBy = row[c].claimedBy
         /\ row'[c].driver = row[c].driver
         /\ row'[c].vehicle = row[c].vehicle
         /\ row'[c].mode = row[c].mode
         /\ row[c].deleted => row'[c].deleted
         /\ row[c].version \in Nat
         /\ row'[c].deleted \in BOOLEAN
         /\ row[c].deleted \in BOOLEAN
         /\ deletedVersion'[c] =
              IF c = b /\ r.deleted /\ deletedVersion[c] = None
              THEN row[c].version ELSE deletedVersion[c]
  BY <1>1, <1>2 DEF BookingRow
<1>4. \A w \in Handlers : req'[w] = req[w] \/ req'[w] = NoRequest
  BY <1>2 DEF RowTouch, Release
<1>5. TypeOK'
  <2>1. row' \in [Bookings -> BookingRow]
    BY <1>1, <1>2
  <2>2. \A c \in Bookings :
          row'[c].status # "ABSENT" => row'[c].mode # None /\ row'[c].quote # None
    BY <1>1, <1>2, <1>3 DEF IInv, TypeOK
  <2>3. req' \in [Handlers -> Request]
    BY <1>2, NoRequestAgrees DEF RowTouch, Release
  <2>4. deletedVersion' \in [Bookings -> Nat \cup {None}]
    BY <1>1, <1>2 DEF BookingRow
  <2> QED
    BY <2>1, <2>2, <2>3, <2>4 DEF IInv, TypeOK, RowTouch, logs
<1>6. RequestsAgree'
  <2> SUFFICES ASSUME NEW v \in Handlers
               PROVE  /\ (req[v].stage = "idle")' <=> (req[v].op = "none")'
                      /\ RequestAgrees(req[v])'
    BY DEF RequestsAgree
  <2>1. CASE req'[v] = NoRequest
    BY <2>1 DEF NoRequest, RequestAgrees
  <2>2. CASE req'[v] = req[v]
    <3>1. /\ req[v].stage = "idle" <=> req[v].op = "none"
          /\ RequestAgrees(req[v])
      BY DEF IInv, RequestsAgree
    <3>2. CASE req[v].stage = "idle"
      BY <2>2, <3>1, <3>2 DEF RequestAgrees
    <3>3. CASE req[v].stage # "idle"
      <4>1. req[v].b \in Bookings
        BY <3>1, <3>3 DEF RequestAgrees
      <4>2. deletedVersion[req[v].b] = None <=> ~row[req[v].b].deleted
        BY <4>1 DEF IInv, AtMostOneLateTransition
      <4>3. row'[req[v].b].deleted /\ ~row[req[v].b].deleted
               => deletedVersion'[req[v].b] = row[req[v].b].version
        BY <1>1, <1>2, <1>3, <4>1, <4>2
      <4>4. row[req[v].b].deleted
               => deletedVersion'[req[v].b] = deletedVersion[req[v].b]
        BY <1>3, <4>1, <4>2
      <4> QED
        BY <1>3, <2>2, <3>1, <4>1, <4>3, <4>4
        DEF RequestAgrees, VersionMatches
    <3> QED  BY <3>2, <3>3
  <2> QED  BY <1>4, <2>1, <2>2
<1>7. RowsAreConsistent'
  BY <1>3 DEF IInv, RowsAreConsistent
<1>8. AuditIsOnePath'
  BY <1>3 DEF IInv, AuditIsOnePath, AuditOf, RowTouch, logs
<1>9. OutboxMatchesAudit'
  BY DEF IInv, OutboxMatchesAudit, RowTouch, logs
<1>10. AtMostOneLateTransition'
  BY <1>1, <1>2, <1>3 DEF IInv, AtMostOneLateTransition, BookingRow
<1>11. DriversAdvanceOwnTrips' /\ AssignmentHistoryAgrees'
  <2>1. auditLog' = auditLog /\ assignmentLog' = assignmentLog
    BY DEF RowTouch, logs
  <2>2. \A c \in Bookings : AuditOf(c)' = AuditOf(c)
    BY <2>1 DEF AuditOf
  <2>3. DriversAdvanceOwnTrips'
    BY <1>3, <2>2 DEF IInv, DriversAdvanceOwnTrips
  <2>4. AssignmentHistoryAgrees'
    BY <1>3, <2>1, <2>2 DEF IInv, AssignmentHistoryAgrees
  <2> QED  BY <2>3, <2>4
<1> QED
  BY <1>5, <1>6, <1>7, <1>8, <1>9, <1>10, <1>11 DEF IInv

\* The timer, a soft delete and an edit are such updates.
LEMMA TouchSteps ==
    ASSUME IInv,
           \/ \E b \in Bookings : ExpireClaimTimeout(b)
           \/ \E w \in Handlers : CommitDelete(w) \/ CommitEdit(w)
    PROVE  \E b \in Bookings : RowTouch(b)
<1>0. /\ row \in [Bookings -> BookingRow]
      /\ deletedVersion \in [Bookings -> Nat \cup {None}]
      /\ req \in [Handlers -> Request]
  BY DEF IInv, TypeOK
<1>1. \A b \in Bookings :
        /\ row[b].status # "ABSENT" => row[b].quote # None
        /\ row[b].deleted => deletedVersion[b] # None
  BY DEF IInv, TypeOK, AtMostOneLateTransition
<1>2. ASSUME NEW b \in Bookings, ExpireClaimTimeout(b)
      PROVE  RowTouch(b)
  <2> DEFINE r == [row[b] EXCEPT !.timer = "expired"]
  <2>1. r \in BookingRow /\ row' = [row EXCEPT ![b] = r]
    BY <1>0, <1>2 DEF ExpireClaimTimeout, BookingRow
  <2>2. /\ r.status = row[b].status /\ r.version = row[b].version
        /\ r.claimedBy = row[b].claimedBy /\ r.driver = row[b].driver
        /\ r.vehicle = row[b].vehicle /\ r.mode = row[b].mode
        /\ r.quote = row[b].quote /\ r.deleted = row[b].deleted
    BY <1>0 DEF BookingRow
  <2>3. deletedVersion' = [deletedVersion EXCEPT ![b] =
          IF r.deleted /\ @ = None THEN row[b].version ELSE @]
    BY <1>0, <1>1, <1>2, <2>2 DEF ExpireClaimTimeout
  <2> QED
    BY <1>1, <1>2, <2>1, <2>2, <2>3 DEF RowTouch, ExpireClaimTimeout
<1>3. ASSUME NEW w \in Handlers, CommitDelete(w)
      PROVE  req[w].b \in Bookings /\ RowTouch(req[w].b)
  <2> DEFINE b == req[w].b
             r == [row[b] EXCEPT !.deleted = TRUE]
  <2>0. b \in Bookings
    BY <1>3 DEF IInv, RequestsAgree, RequestAgrees, CommitDelete
  <2>1. r \in BookingRow /\ row' = [row EXCEPT ![b] = r]
    BY <1>0, <1>3, <2>0 DEF CommitDelete, BookingRow
  <2>2. /\ r.status = row[b].status /\ r.version = row[b].version
        /\ r.claimedBy = row[b].claimedBy /\ r.driver = row[b].driver
        /\ r.vehicle = row[b].vehicle /\ r.mode = row[b].mode
        /\ r.quote = row[b].quote /\ r.deleted
    BY <1>0, <2>0 DEF BookingRow
  <2>3. deletedVersion' = [deletedVersion EXCEPT ![b] =
          IF r.deleted /\ @ = None THEN row[b].version ELSE @]
    BY <1>0, <1>3, <2>0, <2>2 DEF CommitDelete
  <2> QED
    BY <1>1, <1>3, <2>0, <2>1, <2>2, <2>3 DEF RowTouch, CommitDelete
<1>4. ASSUME NEW w \in Handlers, CommitEdit(w)
      PROVE  req[w].b \in Bookings /\ RowTouch(req[w].b)
  <2> DEFINE b == req[w].b
             r == [row[b] EXCEPT !.quote = req[w].quote]
  <2>0. b \in Bookings /\ req[w].quote \in Quotes /\ req[w].quote # None
    BY <1>4, ConstantsAssumption
    DEF IInv, RequestsAgree, RequestAgrees, CommitEdit
  <2>1. r \in BookingRow /\ row' = [row EXCEPT ![b] = r]
    BY <1>0, <1>4, <2>0 DEF CommitEdit, BookingRow
  <2>2. /\ r.status = row[b].status /\ r.version = row[b].version
        /\ r.claimedBy = row[b].claimedBy /\ r.driver = row[b].driver
        /\ r.vehicle = row[b].vehicle /\ r.mode = row[b].mode
        /\ r.quote = req[w].quote /\ r.deleted = row[b].deleted
    BY <1>0, <2>0 DEF BookingRow
  <2>3. deletedVersion' = [deletedVersion EXCEPT ![b] =
          IF r.deleted /\ @ = None THEN row[b].version ELSE @]
    BY <1>0, <1>1, <1>4, <2>0, <2>2 DEF CommitEdit
  <2> QED
    BY <1>1, <1>4, <2>0, <2>1, <2>2, <2>3 DEF RowTouch, CommitEdit
<1> QED
  BY <1>2, <1>3, <1>4

\* A new booking is PENDING at version 0, and no handler held it before.
LEMMA CreatePreserves ==
    ASSUME IInv, NEW w \in Workers, NEW b \in Bookings,
           NEW mode \in DispatchModes, NEW quote \in Quotes,
           CreateBooking(w, b, mode, quote)
    PROVE  IInv'
<1> USE ConstantsAssumption
<1> DEFINE r == [row[b] EXCEPT !.status = "PENDING", !.mode = mode,
                   !.quote = quote,
                   !.timer = IF mode = "HYBRID" THEN "running" ELSE "none"]
           q == [TransitionRequest(b, "OPEN_FOR_CLAIM", "staff")
                   EXCEPT !.stage = "checked"]
<1>1. /\ row \in [Bookings -> BookingRow]
      /\ req \in [Handlers -> Request]
      /\ deletedVersion \in [Bookings -> Nat \cup {None}]
      /\ w \in Handlers
  BY DEF IInv, TypeOK, Handlers
<1>2. row[b].status = "ABSENT" /\ row[b].version = 0
      /\ row[b].claimedBy = None /\ row[b].driver = None /\ row[b].vehicle = None
  BY DEF IInv, RowsAreConsistent, CreateBooking
<1>3. row' = [row EXCEPT ![b] = r]
  BY DEF CreateBooking
<1>4. r \in BookingRow
  <2>1. (IF mode = "HYBRID" THEN "running" ELSE "none")
           \in {"none", "running", "expired"}
    OBVIOUS
  <2>2. row[b] \in BookingRow /\ "PENDING" \in Statuses
    BY <1>1 DEF Statuses, LiveStatuses
  <2> QED
    BY <2>1, <2>2 DEF BookingRow
<1>5. /\ r.status = "PENDING" /\ r.version = 0
      /\ r.mode # None /\ r.quote # None
      /\ r.claimedBy = None /\ r.driver = None /\ r.vehicle = None
      /\ r.deleted = row[b].deleted
  BY <1>1, <1>2 DEF BookingRow
<1>6. \A c \in Bookings : c # b => row'[c] = row[c]
  BY <1>1, <1>3
<1>7. row'[b] = r
  BY <1>1, <1>3
<1>8. /\ q \in Request /\ q.stage = "checked" /\ q.op = "transition"
      /\ q.b = b /\ q.to = "OPEN_FOR_CLAIM" /\ q.by = "staff"
      /\ q.driver = None /\ q.vehicle = None
  BY DEF TransitionRequest, NoRequest, Request, MaybeDriver, MaybeVehicle,
         Actors, Statuses, LiveStatuses
<1>9. \A v \in Handlers : req'[v] = req[v] \/ req'[v] = q
  BY <1>1 DEF CreateBooking, Checked
<1>10. TypeOK'
  <2>1. row' \in [Bookings -> BookingRow]
    BY <1>1, <1>3, <1>4
  <2>2. \A c \in Bookings :
          row'[c].status # "ABSENT" => row'[c].mode # None /\ row'[c].quote # None
    BY <1>5, <1>6, <1>7 DEF IInv, TypeOK
  <2>3. req' \in [Handlers -> Request]
    BY <1>1, <1>8 DEF CreateBooking, Checked
  <2> QED
    BY <2>1, <2>2, <2>3 DEF IInv, TypeOK, CreateBooking, logs
<1>11. RequestsAgree'
  <2> SUFFICES ASSUME NEW v \in Handlers
               PROVE  /\ (req[v].stage = "idle")' <=> (req[v].op = "none")'
                      /\ RequestAgrees(req[v])'
    BY DEF RequestsAgree
  <2>1. CASE req'[v] = q
    <3>1. "staff" \in Actors /\ "staff" \notin Drivers
          /\ "OPEN_FOR_CLAIM" \in Statuses
      BY DEF Actors, Statuses, LiveStatuses
    <3> QED
      BY <1>5, <1>7, <1>8, <2>1, <3>1 DEF RequestAgrees
  <2>2. CASE req'[v] = req[v]
    <3>1. req[v].stage # "idle" => req[v].b # b
      BY <1>2 DEF IInv, RequestsAgree, RequestAgrees
    <3>2. deletedVersion' = deletedVersion
      BY DEF CreateBooking
    <3> QED
      BY <1>6, <2>2, <3>1, <3>2
      DEF IInv, RequestsAgree, RequestAgrees, VersionMatches
  <2> QED  BY <1>9, <2>1, <2>2
<1>12. RowsAreConsistent'
  BY <1>5, <1>6, <1>7 DEF IInv, RowsAreConsistent
<1>13. AuditIsOnePath'
  <2>1. auditLog' = auditLog
    BY DEF CreateBooking, logs
  <2>2. AuditOf(b) = {}
    BY <1>2 DEF IInv, TypeOK, AuditIsOnePath, AuditOf, AuditRow
  <2>3. \A c \in Bookings : row'[c].version = row[c].version
    BY <1>2, <1>5, <1>6, <1>7
  <2> QED
    BY <1>6, <2>1, <2>2, <2>3 DEF IInv, AuditIsOnePath, AuditOf
<1>14. OutboxMatchesAudit'
  BY DEF IInv, OutboxMatchesAudit, CreateBooking, logs
<1>15. AtMostOneLateTransition'
  BY <1>2, <1>5, <1>6, <1>7 DEF IInv, AtMostOneLateTransition, CreateBooking
<1>16. DriversAdvanceOwnTrips' /\ AssignmentHistoryAgrees'
  <2>1. auditLog' = auditLog /\ assignmentLog' = assignmentLog
    BY DEF CreateBooking, logs
  <2>2. \A c \in Bookings :
          /\ AuditOf(c)' = AuditOf(c)
          /\ row'[c].claimedBy = row[c].claimedBy
          /\ row'[c].driver = row[c].driver
          /\ row'[c].vehicle = row[c].vehicle
    BY <1>2, <1>5, <1>6, <1>7, <2>1 DEF AuditOf
  <2>3. DriversAdvanceOwnTrips'
    BY <2>2 DEF IInv, DriversAdvanceOwnTrips
  <2>4. AssignmentHistoryAgrees'
    BY <2>1, <2>2 DEF IInv, AssignmentHistoryAgrees
  <2> QED  BY <2>3, <2>4
<1> QED
  BY <1>10, <1>11, <1>12, <1>13, <1>14, <1>15, <1>16 DEF IInv

\* What applyBookingTransitionTx does to the row, field by field.
LEMMA ApplyRow ==
    ASSUME IInv, NEW w \in Handlers, NEW snap, ApplyStep(w, snap, req[w])
    PROVE  LET q == req[w]  b == req[w].b  old == row[req[w].b]
               new == row'[req[w].b]
           IN  /\ row' \in [Bookings -> BookingRow]
               /\ \A c \in Bookings : c # b => row'[c] = row[c]
               /\ old.version \in Nat
               /\ new.status = q.to
               /\ new.version = old.version + 1
               /\ new.mode = old.mode
               /\ new.quote = old.quote
               /\ new.deleted = old.deleted
               /\ new.driver = IF q.to = "ASSIGNED" THEN q.driver ELSE old.driver
               /\ new.vehicle = IF q.to = "ASSIGNED" THEN q.vehicle ELSE old.vehicle
               /\ new.claimedBy = IF q.to = "CLAIMED" THEN q.by ELSE old.claimedBy
<1> DEFINE q == req[w]
           b == q.b
           old == row[b]
           new == TransitionedRow(old, snap, q)
<1>1. /\ q \in Request /\ b \in Bookings /\ q.to \in Statuses
      /\ row \in [Bookings -> BookingRow] /\ old \in BookingRow
      /\ q.to = "CLAIMED" => q.by \in Drivers
      /\ q.to = "COMPLETED" => snap.quote \in Quotes
  BY DEF IInv, TypeOK, ApplyStep
<1>2. row' = [row EXCEPT ![b] = new]
  BY DEF ApplyStep, ApplyBookingTransitionTx
<1>3. old.version \in Nat /\ old.version + 1 \in Nat
  BY <1>1 DEF BookingRow
<1>4. q.to = "COMPLETED" => FareFinal(snap.quote) \in Nat
  BY <1>1, ConstantsAssumption DEF FareFinal
<1>5. /\ q.driver \in MaybeDriver /\ q.vehicle \in MaybeVehicle
      /\ q.to = "CLAIMED" => q.by \in MaybeDriver
  BY <1>1 DEF Request, MaybeDriver
<1>6. new \in BookingRow
  BY <1>1, <1>3, <1>4, <1>5 DEF TransitionedRow, BookingRow
<1>7. /\ new.status = q.to
      /\ new.version = old.version + 1
      /\ new.mode = old.mode
      /\ new.quote = old.quote
      /\ new.deleted = old.deleted
      /\ new.driver = IF q.to = "ASSIGNED" THEN q.driver ELSE old.driver
      /\ new.vehicle = IF q.to = "ASSIGNED" THEN q.vehicle ELSE old.vehicle
      /\ new.claimedBy = IF q.to = "CLAIMED" THEN q.by ELSE old.claimedBy
  BY <1>1 DEF TransitionedRow, BookingRow
<1> QED
  BY <1>1, <1>2, <1>3, <1>6, <1>7

\* The rows it appends to the logs.
LEMMA ApplyLogs ==
    ASSUME IInv, NEW w \in Handlers, NEW snap, ApplyStep(w, snap, req[w])
    PROVE  LET q == req[w]
               a == [b |-> q.b, version |-> row[q.b].version,
                     from |-> row[q.b].status, to |-> q.to, by |-> q.by]
           IN  /\ a \in AuditRow
               /\ auditLog' = auditLog \cup {a}
               /\ outbox' = outbox \cup
                    {n \in {[b |-> a.b, version |-> a.version, to |-> a.to]} :
                        HasTemplate(a.from, a.to)}
               /\ assignmentLog' = assignmentLog \cup AssignmentRows(snap, q)
               /\ AssignmentRows(snap, q) \subseteq AssignmentRow
<1> DEFINE q == req[w]
           b == q.b
           a == [b |-> b, version |-> row[b].version,
                 from |-> row[b].status, to |-> q.to, by |-> q.by]
<1>1. /\ q \in Request /\ b \in Bookings /\ q.to \in Statuses /\ q.by \in Actors
      /\ row[b].status \in Statuses /\ row[b].version \in Nat
      /\ snap.status = row[b].status /\ snap.version = row[b].version
      /\ q.to = "CLAIMED" => q.by \in Drivers
      /\ q.op \in {"transition", "claim"}
      /\ q.op = "claim" => q.to = "CLAIMED"
      /\ IF q.to = "ASSIGNED"
         THEN q.driver \in Drivers /\ q.vehicle \in Vehicles
         ELSE q.op = "transition" => q.driver = None /\ q.vehicle = None
      /\ ApplyBookingTransitionTx(snap, q)
  BY DEF IInv, TypeOK, ApplyStep, BookingRow
<1>2. a \in AuditRow
  BY <1>1 DEF AuditRow
<1>3. auditLog' = auditLog \cup {a}
  BY <1>1 DEF ApplyBookingTransitionTx
<1>4. outbox' = outbox \cup
        {n \in {[b |-> a.b, version |-> a.version, to |-> a.to]} :
            HasTemplate(a.from, a.to)}
  BY <1>1 DEF ApplyBookingTransitionTx
<1>5. AssignmentRows(snap, q) \subseteq AssignmentRow
  BY <1>1 DEF AssignmentRows, AssignmentRow, Request, CrewChanged, MaybeDriver,
              MaybeVehicle
<1> QED
  BY <1>1, <1>2, <1>3, <1>4, <1>5 DEF ApplyBookingTransitionTx

\* The history of a booking gains the claim of its only claimer or the
\* assignment of its only crew, under the version of the audit row.
LEMMA ApplyHistory ==
    ASSUME IInv, NEW w \in Handlers, NEW snap, ApplyStep(w, snap, req[w])
    PROVE  AssignmentHistoryAgrees'
<1> USE ConstantsAssumption
<1> DEFINE q == req[w]
           b == q.b
           old == row[b]
           new == row'[b]
           a == [b |-> b, version |-> old.version,
                 from |-> old.status, to |-> q.to, by |-> q.by]
           HistoryOf(c) == {h \in assignmentLog : h.b = c}
<1>1. /\ \A c \in Bookings : c # b => row'[c] = row[c]
      /\ new.driver = IF q.to = "ASSIGNED" THEN q.driver ELSE old.driver
      /\ new.vehicle = IF q.to = "ASSIGNED" THEN q.vehicle ELSE old.vehicle
      /\ new.claimedBy = IF q.to = "CLAIMED" THEN q.by ELSE old.claimedBy
  BY ApplyRow
<1>2. /\ auditLog' = auditLog \cup {a}
      /\ assignmentLog' = assignmentLog \cup AssignmentRows(snap, q)
  BY ApplyLogs
<1>3. /\ b \in Bookings
      /\ CanTransition(old.status, q.to)
      /\ q.op \in {"transition", "claim"}
      /\ q.op = "claim" <=> q.to = "CLAIMED"
      /\ IF q.to = "ASSIGNED"
         THEN q.driver \in Drivers /\ q.vehicle \in Vehicles
         ELSE q.op = "transition" => q.driver = None /\ q.vehicle = None
      /\ q.to = "CLAIMED" => q.by \in Drivers
      /\ q.to = "ASSIGNED" => snap.driver = old.driver
      /\ snap.version = old.version
  BY DEF ApplyStep
<1>4. /\ q.to = "CLAIMED" => old.claimedBy = None
      /\ q.to = "ASSIGNED" => old.driver = None
  BY <1>3, TransitionFacts DEF IInv, RowsAreConsistent
<1>5. \A h \in assignmentLog : h.driver \in Drivers /\ h.action \in {"CLAIM", "ASSIGN"}
  BY DEF IInv, TypeOK, AssignmentRow
<1>6. \A c \in Bookings :
        /\ \A h \in HistoryOf(c) :
             /\ IF h.action = "CLAIM"
                THEN h.driver = row[c].claimedBy
                ELSE h.driver = row[c].driver /\ h.vehicle = row[c].vehicle
             /\ \E x \in AuditOf(c) :
                  /\ x.version = h.version
                  /\ x.by = h.by
                  /\ x.to = IF h.action = "CLAIM" THEN "CLAIMED" ELSE "ASSIGNED"
        /\ \A x \in AuditOf(c) : x.to \in {"CLAIMED", "ASSIGNED"} =>
             \E h \in HistoryOf(c) : h.version = x.version
        /\ \A h1, h2 \in HistoryOf(c) : h1.action = h2.action => h1 = h2
  BY DEF IInv, AssignmentHistoryAgrees
<1>7. /\ q.to = "CLAIMED" => \A h \in HistoryOf(b) : h.action # "CLAIM"
      /\ q.to = "ASSIGNED" => \A h \in HistoryOf(b) : h.action # "ASSIGN"
  BY <1>3, <1>4, <1>5, <1>6
<1>8. AssignmentRows(snap, q) =
        IF q.to = "CLAIMED"
        THEN {[b |-> b, version |-> old.version, action |-> "CLAIM",
               driver |-> q.by, vehicle |-> q.vehicle, by |-> q.by]}
        ELSE IF q.to = "ASSIGNED"
        THEN {[b |-> b, version |-> old.version, action |-> "ASSIGN",
               driver |-> q.driver, vehicle |-> q.vehicle, by |-> q.by]}
        ELSE {}
  BY <1>3, <1>4 DEF AssignmentRows, CrewChanged
<1>9. SUFFICES ASSUME NEW c \in Bookings
               PROVE  /\ \A h \in HistoryOf(c)' :
                           /\ IF h.action = "CLAIM"
                              THEN h.driver = row'[c].claimedBy
                              ELSE h.driver = row'[c].driver
                                   /\ h.vehicle = row'[c].vehicle
                           /\ \E x \in AuditOf(c)' :
                                /\ x.version = h.version
                                /\ x.by = h.by
                                /\ x.to = IF h.action = "CLAIM"
                                          THEN "CLAIMED" ELSE "ASSIGNED"
                      /\ \A x \in AuditOf(c)' : x.to \in {"CLAIMED", "ASSIGNED"} =>
                           \E h \in HistoryOf(c)' : h.version = x.version
                      /\ \A h1, h2 \in HistoryOf(c)' :
                           h1.action = h2.action => h1 = h2
  BY DEF AssignmentHistoryAgrees
<1>10. CASE c # b
  <2>1. HistoryOf(c)' = HistoryOf(c) /\ AuditOf(c)' = AuditOf(c)
    BY <1>2, <1>8, <1>10 DEF AuditOf
  <2> QED
    BY <1>1, <1>6, <1>10, <2>1
<1>11. CASE c = b
  <2>1. AuditOf(c)' = AuditOf(c) \cup {a}
    BY <1>2, <1>11 DEF AuditOf
  <2>2. CASE q.to \notin {"CLAIMED", "ASSIGNED"}
    <3>1. HistoryOf(c)' = HistoryOf(c)
      BY <1>2, <1>8, <2>2
    <3> QED
      BY <1>1, <1>6, <1>11, <2>1, <2>2, <3>1
  <2>3. CASE q.to = "CLAIMED"
    <3> DEFINE h0 == [b |-> b, version |-> old.version, action |-> "CLAIM",
                      driver |-> q.by, vehicle |-> q.vehicle, by |-> q.by]
    <3>1. HistoryOf(c)' = HistoryOf(c) \cup {h0}
      BY <1>2, <1>8, <1>11, <2>3
    <3>2. /\ a \in AuditOf(c)'
          /\ a.version = h0.version /\ a.by = h0.by /\ a.to = "CLAIMED"
          /\ h0.action = "CLAIM"
      BY <2>1, <2>3
    <3>3. ASSUME NEW h \in HistoryOf(c)'
          PROVE  /\ IF h.action = "CLAIM"
                    THEN h.driver = row'[c].claimedBy
                    ELSE h.driver = row'[c].driver /\ h.vehicle = row'[c].vehicle
                 /\ \E x \in AuditOf(c)' :
                      /\ x.version = h.version
                      /\ x.by = h.by
                      /\ x.to = IF h.action = "CLAIM" THEN "CLAIMED" ELSE "ASSIGNED"
      <4>1. CASE h = h0
        BY <1>1, <1>11, <2>3, <3>2, <4>1
      <4>2. CASE h \in HistoryOf(c)
        BY <1>1, <1>6, <1>7, <1>11, <2>1, <2>3, <4>2
      <4> QED  BY <3>1, <3>3, <4>1, <4>2
    <3>4. ASSUME NEW x \in AuditOf(c)', x.to \in {"CLAIMED", "ASSIGNED"}
          PROVE  \E h \in HistoryOf(c)' : h.version = x.version
      <4>1. CASE x = a
        BY <3>1, <3>2, <4>1
      <4>2. CASE x \in AuditOf(c)
        BY <1>6, <3>1, <3>4, <4>2
      <4> QED  BY <2>1, <3>4, <4>1, <4>2
    <3>5. ASSUME NEW h1 \in HistoryOf(c)', NEW h2 \in HistoryOf(c)',
                 h1.action = h2.action
          PROVE  h1 = h2
      BY <1>6, <1>7, <1>11, <2>3, <3>1, <3>2, <3>5
    <3> QED
      BY <3>3, <3>4, <3>5
  <2>4. CASE q.to = "ASSIGNED"
    <3> DEFINE h0 == [b |-> b, version |-> old.version, action |-> "ASSIGN",
                      driver |-> q.driver, vehicle |-> q.vehicle, by |-> q.by]
    <3>1. HistoryOf(c)' = HistoryOf(c) \cup {h0}
      BY <1>2, <1>8, <1>11, <2>4
    <3>2. /\ a \in AuditOf(c)'
          /\ a.version = h0.version /\ a.by = h0.by /\ a.to = "ASSIGNED"
          /\ h0.action = "ASSIGN"
      BY <2>1, <2>4
    <3>3. ASSUME NEW h \in HistoryOf(c)'
          PROVE  /\ IF h.action = "CLAIM"
                    THEN h.driver = row'[c].claimedBy
                    ELSE h.driver = row'[c].driver /\ h.vehicle = row'[c].vehicle
                 /\ \E x \in AuditOf(c)' :
                      /\ x.version = h.version
                      /\ x.by = h.by
                      /\ x.to = IF h.action = "CLAIM" THEN "CLAIMED" ELSE "ASSIGNED"
      <4>1. CASE h = h0
        BY <1>1, <1>11, <2>4, <3>2, <4>1
      <4>2. CASE h \in HistoryOf(c)
        <5>1. h.action = "CLAIM"
          BY <1>5, <1>7, <1>11, <2>4, <4>2
        <5>2. row'[c].claimedBy = row[c].claimedBy
          BY <1>1, <1>11, <2>4
        <5> QED
          BY <1>6, <2>1, <4>2, <5>1, <5>2
      <4> QED  BY <3>1, <3>3, <4>1, <4>2
    <3>4. ASSUME NEW x \in AuditOf(c)', x.to \in {"CLAIMED", "ASSIGNED"}
          PROVE  \E h \in HistoryOf(c)' : h.version = x.version
      <4>1. CASE x = a
        BY <3>1, <3>2, <4>1
      <4>2. CASE x \in AuditOf(c)
        BY <1>6, <3>1, <3>4, <4>2
      <4> QED  BY <2>1, <3>4, <4>1, <4>2
    <3>5. ASSUME NEW h1 \in HistoryOf(c)', NEW h2 \in HistoryOf(c)',
                 h1.action = h2.action
          PROVE  h1 = h2
      BY <1>6, <1>7, <1>11, <2>4, <3>1, <3>2, <3>5
    <3> QED
      BY <3>3, <3>4, <3>5
  <2> QED  BY <2>2, <2>3, <2>4
<1> QED
  BY <1>10, <1>11

\* A committed transition moves one booking from the status the handler read
\* to the next, so the audit path grows by one edge and every other handler's
\* snapshot of that booking falls behind.
LEMMA ApplyPreserves ==
    ASSUME IInv, NEW w \in Handlers, NEW snap, ApplyStep(w, snap, req[w])
    PROVE  IInv'
<1> USE ConstantsAssumption
<1> DEFINE q == req[w]
           b == q.b
           old == row[b]
           new == row'[b]
           a == [b |-> b, version |-> old.version,
                 from |-> old.status, to |-> q.to, by |-> q.by]
<1>1. /\ row' \in [Bookings -> BookingRow]
      /\ \A c \in Bookings : c # b => row'[c] = row[c]
      /\ old.version \in Nat
      /\ new.status = q.to
      /\ new.version = old.version + 1
      /\ new.mode = old.mode
      /\ new.quote = old.quote
      /\ new.deleted = old.deleted
      /\ new.driver = IF q.to = "ASSIGNED" THEN q.driver ELSE old.driver
      /\ new.vehicle = IF q.to = "ASSIGNED" THEN q.vehicle ELSE old.vehicle
      /\ new.claimedBy = IF q.to = "CLAIMED" THEN q.by ELSE old.claimedBy
  BY ApplyRow
<1>2. /\ a \in AuditRow
      /\ auditLog' = auditLog \cup {a}
      /\ outbox' = outbox \cup
           {n \in {[b |-> a.b, version |-> a.version, to |-> a.to]} :
               HasTemplate(a.from, a.to)}
      /\ assignmentLog' = assignmentLog \cup AssignmentRows(snap, q)
      /\ AssignmentRows(snap, q) \subseteq AssignmentRow
  BY ApplyLogs
<1>3. /\ b \in Bookings
      /\ old.status # "ABSENT"
      /\ CanTransition(old.status, q.to)
      /\ q.to \in Statuses
      /\ q.op \in {"transition", "claim"}
      /\ q.op = "claim" <=> q.to = "CLAIMED"
      /\ old.deleted => old.version <= deletedVersion[b]
      /\ UNCHANGED <<deletedVersion, crashes>>
      /\ req' = [req EXCEPT ![w] = NoRequest]
  BY DEF ApplyStep, Release
<1>4. /\ old.status \in LiveStatuses
      /\ q.to \in Statuses \ {"PENDING"}
      /\ q.to = "OPEN_FOR_CLAIM" => old.status = "PENDING"
      /\ q.to = "CLAIMED" => old.status = "OPEN_FOR_CLAIM"
      /\ q.to = "ASSIGNED" => old.status \in {"PENDING", "CLAIMED"}
  BY <1>3, TransitionFacts
<1>5. TypeOK'
  <2>1. \A c \in Bookings :
          row'[c].status # "ABSENT" => row'[c].mode # None /\ row'[c].quote # None
    BY <1>1, <1>3 DEF IInv, TypeOK
  <2>2. req' \in [Handlers -> Request]
    BY <1>3, NoRequestAgrees DEF IInv, TypeOK
  <2>3. outbox' \subseteq OutboxRow
    BY <1>2 DEF IInv, TypeOK, OutboxRow, AuditRow
  <2>4. auditLog' \subseteq AuditRow /\ assignmentLog' \subseteq AssignmentRow
    BY <1>2 DEF IInv, TypeOK
  <2> QED
    BY <1>1, <1>3, <2>1, <2>2, <2>3, <2>4 DEF IInv, TypeOK
<1>6. RequestsAgree'
  <2> SUFFICES ASSUME NEW v \in Handlers
               PROVE  /\ (req[v].stage = "idle")' <=> (req[v].op = "none")'
                      /\ RequestAgrees(req[v])'
    BY DEF RequestsAgree
  <2>1. CASE v = w
    <3>1. req'[v] = NoRequest
      BY <1>3, <2>1 DEF IInv, TypeOK
    <3> QED
      BY <3>1 DEF NoRequest, RequestAgrees
  <2>2. CASE v # w
    <3> DEFINE p == req[v]
    <3>1. /\ req'[v] = p
          /\ p.stage = "idle" <=> p.op = "none"
          /\ RequestAgrees(p)
      BY <1>3, <2>2 DEF IInv, TypeOK, RequestsAgree
    <3>2. CASE p.b # b
      <4>1. p.stage # "idle" => p.b \in Bookings /\ row'[p.b] = row[p.b]
        BY <1>1, <3>1, <3>2 DEF RequestAgrees
      <4> QED
        BY <1>3, <3>1, <4>1 DEF RequestAgrees, VersionMatches
    <3>3. CASE p.b = b
      \* The claimer and the driver of a row are set once.
      <4>1. p.op = "transition" /\ p.by \in Drivers
              => p.by \in {new.claimedBy, new.driver}
        <5>1. old.claimedBy # None => new.claimedBy = old.claimedBy
          BY <1>1, <1>3, <1>4 DEF IInv, RowsAreConsistent
        <5>2. old.driver # None => new.driver = old.driver
          BY <1>1, <1>3, <1>4 DEF IInv, RowsAreConsistent
        <5> QED
          BY <3>1, <3>3, <5>1, <5>2 DEF RequestAgrees
      <4>2. p.op = "transition" /\ p.stage = "ready" =>
              /\ p.snap.version \in Nat
              /\ p.snap.version <= old.version
        BY <3>1, <3>3 DEF RequestAgrees, Snapshot
      <4>3. p.op = "transition" /\ p.stage = "ready" =>
              /\ p.snap.version <= new.version
              /\ p.snap.version # new.version
        BY <1>1, <4>2
      <4>4. new.status # "ABSENT"
        BY <1>1, <1>4 DEF Statuses, LiveStatuses
      <4> QED
        BY <1>1, <1>3, <3>1, <3>3, <4>1, <4>3, <4>4
        DEF RequestAgrees, VersionMatches
    <3> QED  BY <3>2, <3>3
  <2> QED  BY <2>1, <2>2
<1>7. RowsAreConsistent'
  <2> SUFFICES ASSUME NEW c \in Bookings
               PROVE  /\ row'[c].version = 0 <=> row'[c].status \in {"ABSENT", "PENDING"}
                      /\ row'[c].status \in {"ABSENT", "PENDING", "OPEN_FOR_CLAIM"} =>
                           row'[c].claimedBy = None
                      /\ row'[c].status \in
                           {"ABSENT", "PENDING", "OPEN_FOR_CLAIM", "CLAIMED"} =>
                           row'[c].driver = None /\ row'[c].vehicle = None
    BY DEF RowsAreConsistent
  <2>1. CASE c # b
    BY <1>1, <2>1 DEF IInv, RowsAreConsistent
  <2>2. CASE c = b
    <3>1. new.version # 0 /\ new.status \notin {"ABSENT", "PENDING"}
      BY <1>1, <1>4 DEF Statuses, LiveStatuses
    <3>2. new.status = "OPEN_FOR_CLAIM" =>
            new.claimedBy = None /\ new.driver = None /\ new.vehicle = None
      BY <1>1, <1>3, <1>4 DEF IInv, RowsAreConsistent
    <3>3. new.status = "CLAIMED" => new.driver = None /\ new.vehicle = None
      BY <1>1, <1>3, <1>4 DEF IInv, RowsAreConsistent
    <3> QED  BY <2>2, <3>1, <3>2, <3>3
  <2> QED  BY <2>1, <2>2
<1>8. AuditIsOnePath'
  <2> SUFFICES ASSUME NEW c \in Bookings
               PROVE  /\ \A x \in AuditOf(c)' :
                           /\ x.version < row'[c].version
                           /\ CanTransition(x.from, x.to)
                           /\ x.version = 0 => x.from = "PENDING"
                           /\ x.version + 1 = row'[c].version => x.to = row'[c].status
                      /\ \A v \in 0..(row'[c].version - 1) :
                           \E x \in AuditOf(c)' : x.version = v
                      /\ \A x, y \in AuditOf(c)' :
                           /\ x.version = y.version => x = y
                           /\ x.version + 1 = y.version => x.to = y.from
    BY DEF AuditIsOnePath
  <2>0. \A x \in AuditOf(c) : x.version \in Nat
    BY DEF IInv, TypeOK, AuditOf, AuditRow
  <2>1. /\ \A x \in AuditOf(c) :
             /\ x.version < row[c].version
             /\ CanTransition(x.from, x.to)
             /\ x.version = 0 => x.from = "PENDING"
             /\ x.version + 1 = row[c].version => x.to = row[c].status
        /\ \A v \in 0..(row[c].version - 1) : \E x \in AuditOf(c) : x.version = v
        /\ \A x, y \in AuditOf(c) :
             /\ x.version = y.version => x = y
             /\ x.version + 1 = y.version => x.to = y.from
    BY DEF IInv, AuditIsOnePath
  <2>2. CASE c # b
    <3>1. AuditOf(c)' = AuditOf(c)
      BY <1>2, <2>2 DEF AuditOf
    <3> QED
      BY <1>1, <2>1, <2>2, <3>1
  <2>3. CASE c = b
    <3>1. AuditOf(c)' = AuditOf(c) \cup {a}
      BY <1>2, <2>3 DEF AuditOf
    <3>2. a.version = old.version /\ a.from = old.status /\ a.to = q.to
      OBVIOUS
    <3>3. old.version = 0 => old.status = "PENDING"
      BY <1>3 DEF IInv, RowsAreConsistent
    <3>4. ASSUME NEW x \in AuditOf(c)'
          PROVE  /\ x.version < new.version
                 /\ CanTransition(x.from, x.to)
                 /\ x.version = 0 => x.from = "PENDING"
                 /\ x.version + 1 = new.version => x.to = new.status
      <4>1. CASE x = a
        BY <1>1, <1>3, <3>2, <3>3, <4>1
      <4>2. CASE x \in AuditOf(c)
        BY <1>1, <2>0, <2>1, <2>3, <4>2
      <4> QED  BY <3>1, <3>4, <4>1, <4>2
    <3>5. ASSUME NEW v \in 0..(new.version - 1)
          PROVE  \E x \in AuditOf(c)' : x.version = v
      <4>1. CASE v = old.version
        BY <3>1, <3>2, <4>1
      <4>2. CASE v # old.version
        <5>1. v \in 0..(old.version - 1)
          BY <1>1, <4>2
        <5> QED
          BY <2>1, <2>3, <3>1, <5>1
      <4> QED  BY <4>1, <4>2
    <3>6. ASSUME NEW x \in AuditOf(c)', NEW y \in AuditOf(c)'
          PROVE  /\ x.version = y.version => x = y
                 /\ x.version + 1 = y.version => x.to = y.from
      <4>1. CASE x = a /\ y = a
        BY <1>1, <3>2, <4>1
      <4>2. CASE x \in AuditOf(c) /\ y = a
        BY <1>1, <2>0, <2>1, <2>3, <3>2, <4>2
      <4>3. CASE x = a /\ y \in AuditOf(c)
        BY <1>1, <2>0, <2>1, <2>3, <3>2, <4>3
      <4>4. CASE x \in AuditOf(c) /\ y \in AuditOf(c)
        BY <2>1, <4>4
      <4> QED  BY <3>1, <3>6, <4>1, <4>2, <4>3, <4>4
    <3> QED  BY <2>3, <3>4, <3>5, <3>6
  <2> QED  BY <2>2, <2>3
<1>9. OutboxMatchesAudit'
  <2> DEFINE Said(x) == [b |-> x.b, version |-> x.version, to |-> x.to]
  <2>1. outbox = {Said(x) : x \in {y \in auditLog : HasTemplate(y.from, y.to)}}
    BY DEF IInv, OutboxMatchesAudit
  <2>2. outbox' = outbox \cup
          {Said(x) : x \in {y \in {a} : HasTemplate(y.from, y.to)}}
    BY <1>2
  <2>3. outbox' = {Said(x) : x \in {y \in auditLog' : HasTemplate(y.from, y.to)}}
    BY <1>2, <2>1, <2>2
  <2> QED  BY <2>3 DEF OutboxMatchesAudit
<1>10. AtMostOneLateTransition'
  <2>1. /\ old.deleted <=> deletedVersion[b] # None
        /\ old.deleted => old.version <= deletedVersion[b]
        /\ deletedVersion[b] \in Nat \cup {None}
    BY <1>3 DEF IInv, AtMostOneLateTransition, TypeOK
  <2>2. old.deleted => old.version + 1 <= deletedVersion[b] + 1
    BY <1>1, <2>1
  <2> QED
    BY <1>1, <1>3, <2>1, <2>2 DEF IInv, AtMostOneLateTransition
<1>11. /\ old.claimedBy # None => new.claimedBy = old.claimedBy
       /\ old.driver # None => new.driver = old.driver /\ new.vehicle = old.vehicle
       /\ q.to = "CLAIMED" => old.claimedBy = None
       /\ q.to = "ASSIGNED" => old.driver = None
  BY <1>1, <1>3, <1>4 DEF IInv, RowsAreConsistent
<1>12. DriversAdvanceOwnTrips'
  <2> SUFFICES ASSUME NEW c \in Bookings, NEW x \in AuditOf(c)', x.by \in Drivers
               PROVE  x.by \in {row'[c].claimedBy, row'[c].driver}
    BY DEF DriversAdvanceOwnTrips
  <2>1. CASE x = a
    <3>1. c = b /\ x.by = q.by
      BY <2>1 DEF AuditOf
    <3>2. CASE q.op = "claim"
      BY <1>1, <1>3, <3>1, <3>2
    <3>3. CASE q.op = "transition"
      <4>1. q.by \in {old.claimedBy, old.driver}
        BY <3>1, <3>3 DEF ApplyStep
      <4> QED  BY <1>11, <3>1, <4>1
    <3> QED  BY <1>3, <3>2, <3>3
  <2>2. CASE x # a
    <3>1. x \in AuditOf(c)
      BY <1>2, <2>2 DEF AuditOf
    <3>2. x.by \in {row[c].claimedBy, row[c].driver}
      BY <3>1 DEF IInv, DriversAdvanceOwnTrips
    <3> QED  BY <1>1, <1>11, <3>2
  <2> QED  BY <2>1, <2>2
<1>13. AssignmentHistoryAgrees'
  BY ApplyHistory DEF IInv
<1> QED
  BY <1>5, <1>6, <1>7, <1>8, <1>9, <1>10, <1>12, <1>13 DEF IInv

\* Every step reads, applies, touches or kills.
LEMMA NextPreserves ==
    ASSUME IInv, [Next]_vars
    PROVE  IInv'
<1>1. CASE Next
  BY <1>1, StepKinds, ReadPreserves, ApplyPreserves, CreatePreserves,
     TouchSteps, TouchPreserves
<1>2. CASE UNCHANGED vars
  <2>1. /\ row' = row /\ req' = req /\ auditLog' = auditLog
        /\ assignmentLog' = assignmentLog /\ outbox' = outbox
        /\ deletedVersion' = deletedVersion /\ crashes' = crashes
    BY <1>2 DEF vars
  <2>2. TypeOK' /\ RowsAreConsistent'
    BY <2>1 DEF IInv, TypeOK, RowsAreConsistent
  <2>3. RequestsAgree'
    BY <2>1 DEF IInv, RequestsAgree, RequestAgrees, VersionMatches
  <2>4. AuditIsOnePath' /\ OutboxMatchesAudit' /\ AtMostOneLateTransition'
    BY <2>1 DEF IInv, AuditIsOnePath, AuditOf, OutboxMatchesAudit,
                AtMostOneLateTransition
  <2>5. DriversAdvanceOwnTrips' /\ AssignmentHistoryAgrees'
    BY <2>1 DEF IInv, AuditOf, DriversAdvanceOwnTrips, AssignmentHistoryAgrees
  <2> QED  BY <2>2, <2>3, <2>4, <2>5 DEF IInv
<1> QED
  BY <1>1, <1>2

-----------------------------------------------------------------------------
(* The results. *)

\* The strengthened invariant holds in every reachable state, whatever the
\* number of bookings, handlers and crashes.
THEOREM Invariance == Spec => []IInv
<1>1. Init => IInv
  BY InitEstablishes
<1>2. IInv /\ [Next]_vars => IInv'
  BY NextPreserves
<1> QED
  BY <1>1, <1>2, PTL DEF Spec

\* Every table and every request keeps its shape.
THEOREM TypeCorrect == Spec => []TypeOK
<1>1. IInv => TypeOK
  BY DEF IInv
<1> QED  BY <1>1, Invariance, PTL

\* What a handler holds between its awaits is true or detectably stale.
THEOREM HandlersAgree == Spec => []RequestsAgree
<1>1. IInv => RequestsAgree
  BY DEF IInv
<1> QED  BY <1>1, Invariance, PTL

\* The optimistic lock of applyBookingTransitionTx loses no update: the audit
\* trail of a booking is one path to its current status.
THEOREM AuditTrail == Spec => []AuditIsOnePath
<1>1. IInv => AuditIsOnePath
  BY DEF IInv
<1> QED  BY <1>1, Invariance, PTL

\* A notification is enqueued for every announced transition that committed,
\* and for no other.
THEOREM Outbox == Spec => []OutboxMatchesAudit
<1>1. IInv => OutboxMatchesAudit
  BY DEF IInv
<1> QED  BY <1>1, Invariance, PTL

\* After a soft delete at most one handler commits a transition.
THEOREM LateTransitions == Spec => []AtMostOneLateTransition
<1>1. IInv => AtMostOneLateTransition
  BY DEF IInv
<1> QED  BY <1>1, Invariance, PTL

\* However many drivers race, a booking has one claimer and one crew for ever,
\* and AssignmentHistory and AuditLog name them.
THEOREM OneClaimer == Spec => []AssignmentHistoryAgrees
<1>1. IInv => AssignmentHistoryAgrees
  BY DEF IInv
<1> QED  BY <1>1, Invariance, PTL

\* The ownership read stays true until the commit that relies on it.
THEOREM OwnTrips == Spec => []DriversAdvanceOwnTrips
<1>1. IInv => DriversAdvanceOwnTrips
  BY DEF IInv
<1> QED  BY <1>1, Invariance, PTL

-----------------------------------------------------------------------------
(* The refinement. *)

TripMap == [b \in Bookings |-> TripOf(row[b])]

\* A committed transition is one step of the abstract trip.
LEMMA ApplyIsTripStep ==
    ASSUME IInv, NEW w \in Handlers, NEW snap, ApplyStep(w, snap, req[w])
    PROVE  Trip!Next
<1> DEFINE q == req[w]
           b == q.b
           old == row[b]
           new == row'[b]
           trip == [c \in Bookings |-> TripOf(row[c])]
<1>1. /\ row' \in [Bookings -> BookingRow]
      /\ \A c \in Bookings : c # b => row'[c] = row[c]
      /\ new.status = q.to
      /\ new.driver = IF q.to = "ASSIGNED" THEN q.driver ELSE old.driver
      /\ new.claimedBy = IF q.to = "CLAIMED" THEN q.by ELSE old.claimedBy
  BY ApplyRow
<1>2. /\ b \in Bookings
      /\ CanTransition(old.status, q.to)
      /\ q.to = "CLAIMED" => q.by \in Drivers
      /\ q.to = "ASSIGNED" => q.driver \in Drivers
  BY DEF ApplyStep
<1>3. /\ q.to = "CLAIMED" => old.status = "OPEN_FOR_CLAIM" /\ old.claimedBy = None
      /\ q.to = "ASSIGNED" => old.status \in {"PENDING", "CLAIMED"}
                              /\ old.driver = None
  BY <1>2, TransitionFacts DEF IInv, RowsAreConsistent
<1>4. trip[b] = TripOf(old) /\ trip' = [trip EXCEPT ![b] = TripOf(new)]
  BY <1>1, <1>2
<1>5. trip[b].status = old.status /\ trip[b].claimer = old.claimedBy
      /\ trip[b].driver = old.driver
  BY <1>4 DEF TripOf
<1>6. CASE q.to = "CLAIMED"
  <2>1. TripOf(new) = [status |-> "CLAIMED", claimer |-> q.by,
                       driver |-> trip[b].driver]
    BY <1>1, <1>5, <1>6 DEF TripOf
  <2>2. Trip!Claim(b, q.by)
    BY <1>3, <1>4, <1>5, <1>6, <2>1 DEF Trip!Claim
  <2> QED
    BY <1>2, <1>6, <2>2 DEF Trip!Next, Trip!Step
<1>7. CASE q.to = "ASSIGNED"
  <2>1. TripOf(new) = [status |-> "ASSIGNED", claimer |-> trip[b].claimer,
                       driver |-> q.driver]
    BY <1>1, <1>5, <1>7 DEF TripOf
  <2>2. Trip!Assign(b, q.driver)
    BY <1>3, <1>4, <1>5, <1>7, <2>1 DEF Trip!Assign
  <2> QED
    BY <1>2, <1>7, <2>2 DEF Trip!Next, Trip!Step
<1>8. CASE q.to \notin {"CLAIMED", "ASSIGNED"}
  <2>1. trip' = [trip EXCEPT ![b].status = q.to]
    BY <1>1, <1>4, <1>8 DEF TripOf
  <2>2. \/ old.status = "PENDING" /\ q.to = "OPEN_FOR_CLAIM"
        \/ /\ old.status \in {"PENDING", "OPEN_FOR_CLAIM", "CLAIMED", "ASSIGNED"}
           /\ q.to = "CANCELLED"
        \/ old.status = "ASSIGNED" /\ q.to = "DRIVER_EN_ROUTE"
        \/ old.status = "DRIVER_EN_ROUTE" /\ q.to \in {"IN_PROGRESS", "NO_SHOW"}
        \/ old.status = "IN_PROGRESS" /\ q.to \in {"COMPLETED", "FAILED"}
    BY <1>2, <1>8 DEF CanTransition, AllowedTransitions
  <2>3. Trip!Offer(b) \/ Trip!Cancel(b) \/ Trip!Depart(b) \/ Trip!Board(b)
        \/ Trip!MissPassenger(b) \/ Trip!Complete(b) \/ Trip!Abort(b)
    BY <1>5, <2>1, <2>2
    DEF Trip!Offer, Trip!Cancel, Trip!Depart, Trip!Board, Trip!MissPassenger,
        Trip!Complete, Trip!Abort, Trip!Move
  <2> QED
    BY <1>2, <2>3 DEF Trip!Next, Trip!Step
<1> QED
  BY <1>6, <1>7, <1>8

\* Every other step either requests a trip or is a stutter of it.
LEMMA StepIsTripStep ==
    ASSUME IInv, [Next]_vars
    PROVE  [Trip!Next]_TripMap
<1>1. ASSUME NEW w \in Handlers, NEW p, ReadStep(w, p)
      PROVE  UNCHANGED TripMap
  BY <1>1 DEF ReadStep, TripMap
<1>2. ASSUME NEW w \in Workers, NEW b \in Bookings, NEW mode \in DispatchModes,
             NEW quote \in Quotes, CreateBooking(w, b, mode, quote)
      PROVE  Trip!Next
  <2> DEFINE trip == [c \in Bookings |-> TripOf(row[c])]
             r == [row[b] EXCEPT !.status = "PENDING", !.mode = mode,
                     !.quote = quote,
                     !.timer = IF mode = "HYBRID" THEN "running" ELSE "none"]
  <2>1. row \in [Bookings -> BookingRow] /\ row' = [row EXCEPT ![b] = r]
    BY <1>2 DEF IInv, TypeOK, CreateBooking
  <2>2. r.status = "PENDING" /\ r.claimedBy = row[b].claimedBy
        /\ r.driver = row[b].driver
    BY <2>1 DEF BookingRow
  <2>3. trip' = [trip EXCEPT ![b].status = "PENDING"]
    BY <2>1, <2>2 DEF TripOf
  <2>4. trip[b].status = "ABSENT"
    BY <1>2 DEF CreateBooking, TripOf
  <2> QED
    BY <2>3, <2>4 DEF Trip!Next, Trip!Step, Trip!Request, Trip!Move
<1>3. ASSUME NEW b \in Bookings, RowTouch(b)
      PROVE  UNCHANGED TripMap
  <2>1. \A c \in Bookings : TripOf(row[c])' = TripOf(row[c])
    BY <1>3 DEF RowTouch, TripOf, IInv, TypeOK
  <2> QED  BY <2>1 DEF TripMap
<1>4. CASE Next
  BY <1>1, <1>2, <1>3, <1>4, StepKinds, TouchSteps, ApplyIsTripStep
<1>5. CASE UNCHANGED vars
  BY <1>5 DEF vars, TripMap
<1> QED
  BY <1>4, <1>5

\* Concurrent handlers behind the optimistic lock implement the atomic trip.
THEOREM Refinement == Spec => ImplementsTrip
<1>1. Init => Trip!Init
  BY DEF Init, Trip!Init, Trip!Absent, TripOf, NoRow
<1>2. IInv /\ [Next]_vars => [Trip!Next]_TripMap
  BY StepIsTripStep
<1> QED
  BY <1>1, <1>2, Invariance, PTL DEF Spec, ImplementsTrip, Trip!Spec, TripMap
=============================================================================
