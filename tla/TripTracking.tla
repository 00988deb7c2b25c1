---------------------------- MODULE TripTracking ----------------------------
(***************************************************************************)
(* Live location composed with the booking lifecycle.  Driver phones post  *)
(* batches of points; implausible points raise the booking's suspicious    *)
(* counter, and the counter gates the COMPLETED transition until an        *)
(* administrator clears it.  The counter is a column of the booking row    *)
(* but none of its writers touches the version, so the optimistic lock of  *)
(* the lifecycle does not protect it.                                      *)
(***************************************************************************)
EXTENDS BookingLifecycle, FiniteSets

CONSTANTS
    Trackers,   \* handlers serving location posts, consents, reviews, erasures
    Threshold,  \* env.LOCATION_SUSPICIOUS_THRESHOLD; 0 disables the gate
    MaxBatch,   \* bound: flagged points in one post
    MaxPosts    \* bound: posts accepted in a behaviour

ASSUME TrackingAssumption ==
    /\ Threshold \in Nat
    /\ MaxBatch \in Nat
    /\ MaxPosts \in Nat
    /\ IsFiniteSet(Trackers)

VARIABLES
    flags,         \* Booking.suspiciousLocationCount
    consent,       \* Booking.locationConsentAt is set
    points,        \* table TripLocation: which drivers have points of a booking
    treq,          \* the request each tracker is serving
    posts,         \* number of posts so far
    flaggedEver,   \* history: flagged points ever stored for a booking
    reviewed,      \* history: sum of the counts recorded by clearing audits
    lateBatches    \* history: batches stored after the trip ended

trackingVars ==
    <<flags, consent, points, treq, posts, flaggedEver, reviewed, lateBatches>>
allVars == <<vars, trackingVars>>

NoPost == [op |-> "none", b |-> None, driver |-> None, count |-> 0]

TrackingRequest ==
    [op : {"none", "ingest", "clear", "consent"}, b : Bookings \cup {None},
     driver : MaybeDriver, count : Nat]

\* INGEST_ACCEPTED_STATUSES
IngestAccepted == {"CLAIMED", "ASSIGNED", "DRIVER_EN_ROUTE", "IN_PROGRESS"}

\* assertCanCompleteTrip
CanCompleteTrip(b) == Threshold = 0 \/ flags[b] < Threshold

TrackingInit ==
    /\ Init
    /\ flags = [b \in Bookings |-> 0]
    /\ consent \in [Bookings -> BOOLEAN]   \* the box the customer ticks at creation
    /\ points = [b \in Bookings |-> {}]
    /\ treq = [t \in Trackers |-> NoPost]
    /\ posts = 0
    /\ flaggedEver = [b \in Bookings |-> 0]
    /\ reviewed = [b \in Bookings |-> 0]
    /\ lateBatches = [b \in Bookings |-> 0]

TrackerIdle(t) == treq[t].op = "none"

\* The posting driver is the claimer or the assigned driver.
OwnsTrip(b, d) == row[b].claimedBy = d \/ row[b].driver = d

\* Wrong variants of the refusals: consent, or the status, is not asked for.
IngestWithoutConsent(b, d) ==
    Exists(b) /\ OwnsTrip(b, d) /\ row[b].status \in IngestAccepted

IngestAtAnyStatus(b, d) ==
    Exists(b) /\ OwnsTrip(b, d) /\ consent[b]

\* recordLocation's refusals: NOT_FOUND, FORBIDDEN, VALIDATION, no consent.
IngestAllowed(b, d) ==
    /\ Exists(b)
    /\ OwnsTrip(b, d)
    /\ row[b].status \in IngestAccepted
    /\ consent[b]

\* recordLocation: all its checks are on one read; n of the points will be
\* found implausible against the last stored point.
ReadForIngest(t, b, d, n) ==
    /\ TrackerIdle(t)
    /\ posts < MaxPosts
    /\ IngestAllowed(b, d)
    /\ treq' = [treq EXCEPT ![t] =
         [op |-> "ingest", b |-> b, driver |-> d, count |-> n]]
    /\ posts' = posts + 1
    /\ UNCHANGED <<vars, flags, consent, points, flaggedEver, reviewed,
                   lateBatches>>

\* Wrong variant: the first flagged point of a batch is not counted.
CommitIngestOffByOne(t) ==
    LET b == treq[t].b
        n == treq[t].count - 1
    IN  /\ treq[t].op = "ingest"
        /\ points' = [points EXCEPT ![b] = @ \cup {treq[t].driver}]
        /\ flags' = [flags EXCEPT ![b] = @ + n]
        /\ treq' = [treq EXCEPT ![t] = NoPost]
        /\ UNCHANGED <<vars, consent, posts, flaggedEver, reviewed, lateBatches>>

\* recordLocation's transaction: rows, and an increment WHERE id = ?.
CommitIngest(t) ==
    LET b == treq[t].b
        n == treq[t].count
    IN  /\ treq[t].op = "ingest"
        /\ points' = [points EXCEPT ![b] = @ \cup {treq[t].driver}]
        /\ flags' = [flags EXCEPT ![b] = @ + n]
        /\ flaggedEver' = [flaggedEver EXCEPT ![b] = @ + n]
        /\ lateBatches' = [lateBatches EXCEPT ![b] =
             IF row[b].status \in IngestAccepted THEN @ ELSE @ + 1]
        /\ treq' = [treq EXCEPT ![t] = NoPost]
        /\ UNCHANGED <<vars, consent, posts, reviewed>>

\* clearSuspiciousCounter: a zero count is a no-op.
ReadForClear(t, b) ==
    /\ TrackerIdle(t)
    /\ Exists(b)
    /\ flags[b] > 0
    /\ treq' = [treq EXCEPT ![t] =
         [op |-> "clear", b |-> b, driver |-> None, count |-> flags[b]]]
    /\ UNCHANGED <<vars, flags, consent, points, posts, flaggedEver, reviewed,
                   lateBatches>>

\* Wrong variant: the reset moves the version like a transition does.
CommitClearMovesVersion(t) ==
    LET b == treq[t].b IN
    /\ treq[t].op = "clear"
    /\ flags' = [flags EXCEPT ![b] = 0]
    /\ row' = [row EXCEPT ![b].version = @ + 1]
    /\ treq' = [treq EXCEPT ![t] = NoPost]
    /\ UNCHANGED <<req, logs, deletedVersion, crashes, consent, points, posts,
                   flaggedEver, reviewed, lateBatches>>

\* SET suspiciousLocationCount = 0 WHERE id = ?; the audit row keeps the
\* count that was read, not the one that is overwritten.
CommitClear(t) ==
    LET b == treq[t].b IN
    /\ treq[t].op = "clear"
    /\ flags' = [flags EXCEPT ![b] = 0]
    /\ reviewed' = [reviewed EXCEPT ![b] = @ + treq[t].count]
    /\ treq' = [treq EXCEPT ![t] = NoPost]
    /\ UNCHANGED <<vars, consent, points, posts, flaggedEver, lateBatches>>

\* grantLocationConsent: refused once the trip has ended.
ReadForConsent(t, b) ==
    /\ TrackerIdle(t)
    /\ Exists(b)
    /\ ~IsTerminalStatus(row[b].status)
    /\ ~consent[b]
    /\ treq' = [treq EXCEPT ![t] =
         [op |-> "consent", b |-> b, driver |-> None, count |-> 0]]
    /\ UNCHANGED <<vars, flags, consent, points, posts, flaggedEver, reviewed,
                   lateBatches>>

CommitConsent(t) ==
    /\ treq[t].op = "consent"
    /\ consent' = [consent EXCEPT ![treq[t].b] = TRUE]
    /\ treq' = [treq EXCEPT ![t] = NoPost]
    /\ UNCHANGED <<vars, flags, points, posts, flaggedEver, reviewed, lateBatches>>

\* eraseCustomer and the retention cron delete stored points and nothing else
\* of this component: the counter and the consent stay.
DeletePoints(b) ==
    /\ points[b] # {}
    /\ points' = [points EXCEPT ![b] = {}]
    /\ UNCHANGED <<vars, flags, consent, treq, posts, flaggedEver, reviewed,
                   lateBatches>>

\* The invocation is killed between its read and its transaction.
TrackerCrash(t) ==
    /\ ~TrackerIdle(t)
    /\ treq' = [treq EXCEPT ![t] = NoPost]
    /\ UNCHANGED <<vars, flags, consent, points, posts, flaggedEver, reviewed,
                   lateBatches>>

-----------------------------------------------------------------------------
\* The lifecycle, with the gate read from the counter in the same snapshot.
BookingStep ==
    /\ \/ UngatedStep
       \/ \E w \in Workers, b \in Bookings, to \in StaffTargets \cup {"CANCELLED"} :
             StaffTransition(w, b, to, CanCompleteTrip(b))
       \/ \E w \in Handlers :
             /\ req[w].stage = "checked"
             /\ LoadTransition(w, CanCompleteTrip(req[w].b))
    /\ UNCHANGED trackingVars

TrackingStep ==
    \/ \E t \in Trackers, b \in Bookings :
         \/ \E d \in Drivers, n \in 0..MaxBatch : ReadForIngest(t, b, d, n)
         \/ ReadForClear(t, b)
         \/ ReadForConsent(t, b)
    \/ \E t \in Trackers :
         CommitIngest(t) \/ CommitClear(t) \/ CommitConsent(t) \/ TrackerCrash(t)
    \/ \E b \in Bookings : DeletePoints(b)

TrackingNext == BookingStep \/ TrackingStep

TrackingSpec == TrackingInit /\ [][TrackingNext]_allVars

-----------------------------------------------------------------------------
(* Properties *)

\* Shape of the tracking state.
TrackingTypeOK ==
    /\ flags \in [Bookings -> Nat]
    /\ consent \in [Bookings -> BOOLEAN]
    /\ points \in [Bookings -> SUBSET Drivers]
    /\ treq \in [Trackers -> TrackingRequest]
    /\ posts \in 0..MaxPosts
    /\ \A h \in {flaggedEver, reviewed, lateBatches} : h \in [Bookings -> Nat]

\* Every stored point belongs to a trip whose customer agreed to be located
\* and to a driver who claimed it or was assigned to it, although both were
\* checked before the transaction that stores the point.
PointsNeedConsentAndOwner ==
    \A b \in Bookings : \A d \in points[b] : consent[b] /\ OwnsTrip(b, d)

\* Points can still be stored after the trip has ended, but only by posts that
\* were accepted before: at most one batch per handler.
LateBatchesBounded ==
    \A b \in Bookings : lateBatches[b] <= Cardinality(Trackers)

\* Tracking never interferes with the lifecycle: composed with it, the booking
\* handlers still behave as BookingLifecycle says, and keep its invariants.
ImplementsBookingLifecycle == Spec

(* What the code or its documents say, and the code does not do. *)

\* "the trip cannot transition to COMPLETED until ops reviews the flagged
\* points" (clearSuspicious.ts): when a trip completes, the flagged points that
\* no review has counted are below the threshold.
NoUnreviewedCompletion ==
    [][\A b \in Bookings :
         row[b].status = "IN_PROGRESS" /\ row'[b].status = "COMPLETED" =>
            Threshold = 0 \/ flaggedEver[b] - reviewed[b] < Threshold]_allVars
=============================================================================
