------------------------ MODULE TripTracking_proofs ------------------------
(***************************************************************************)
(* Proofs about TripTracking: the composed system implements the booking   *)
(* lifecycle, so every invariant proved there holds here, no point is ever *)
(* stored without the customer's consent or by a stranger, and few are     *)
(* stored after the trip has ended.                                        *)
(***************************************************************************)
EXTENDS TripTracking, BookingLifecycle_proofs, FiniteSetTheorems

\* A tracker between its read and its transaction holds checks that stay true.
TrackersAgree ==
    \A t \in Trackers :
        /\ treq[t].op # "none" => treq[t].b \in Bookings
        /\ treq[t].op = "ingest" =>
             /\ treq[t].driver \in Drivers
             /\ consent[treq[t].b]
             /\ OwnsTrip(treq[t].b, treq[t].driver)

TInv ==
    /\ TrackingTypeOK
    /\ TrackersAgree
    /\ PointsNeedConsentAndOwner

-----------------------------------------------------------------------------
(* The lifecycle underneath. *)

\* A step of the composed system is a step of the lifecycle or leaves it alone.
LEMMA TrackingNextIsNext ==
    ASSUME [TrackingNext]_allVars
    PROVE  [Next]_vars
<1>1. CASE BookingStep
  <2>1. \A b \in Bookings : CanCompleteTrip(b) \in BOOLEAN
    BY DEF CanCompleteTrip
  <2>2. ASSUME NEW w \in Workers, NEW b \in Bookings,
               NEW to \in StaffTargets \cup {"CANCELLED"},
               StaffTransition(w, b, to, CanCompleteTrip(b))
        PROVE  \E gateOpen \in BOOLEAN : GatedStep(gateOpen)
    BY <2>1, <2>2 DEF GatedStep
  <2>3. ASSUME NEW w \in Handlers, LoadTransition(w, CanCompleteTrip(req[w].b))
        PROVE  \E gateOpen \in BOOLEAN : GatedStep(gateOpen)
    <3>1. CanCompleteTrip(req[w].b) \in BOOLEAN
      BY DEF CanCompleteTrip
    <3> QED  BY <2>3, <3>1 DEF GatedStep
  <2> QED
    BY <1>1, <2>2, <2>3 DEF BookingStep, Next
<1>2. CASE TrackingStep
  BY <1>2 DEF TrackingStep, ReadForIngest, CommitIngest, ReadForClear,
              CommitClear, ReadForConsent, CommitConsent, TrackerCrash,
              DeletePoints
<1>3. CASE UNCHANGED allVars
  BY <1>3 DEF allVars
<1> QED
  BY <1>1, <1>2, <1>3 DEF TrackingNext

\* Tracking never interferes with the lifecycle.
THEOREM TrackingRefinement == TrackingSpec => ImplementsBookingLifecycle
<1>1. TrackingInit => Init
  BY DEF TrackingInit
<1> QED
  BY <1>1, TrackingNextIsNext, PTL DEF TrackingSpec, ImplementsBookingLifecycle, Spec

\* A driver who owns a trip keeps it: claimer and crew are set once.
LEMMA OwnersStay ==
    ASSUME IInv, [Next]_vars, NEW b \in Bookings, NEW d \in Drivers,
           OwnsTrip(b, d)
    PROVE  OwnsTrip(b, d)'
<1> USE ConstantsAssumption
<1>1. row[b].claimedBy = d \/ row[b].driver = d
  BY DEF OwnsTrip
<1>2. SUFFICES row'[b].claimedBy = d \/ row'[b].driver = d
  BY DEF OwnsTrip
<1>3. ASSUME NEW w \in Handlers, NEW p, ReadStep(w, p)
      PROVE  row'[b].claimedBy = d \/ row'[b].driver = d
  BY <1>1, <1>3 DEF ReadStep
<1>4. ASSUME NEW w \in Handlers, NEW snap, ApplyStep(w, snap, req[w])
      PROVE  row'[b].claimedBy = d \/ row'[b].driver = d
  <2> DEFINE q == req[w]
  <2>1. /\ \A c \in Bookings : c # q.b => row'[c] = row[c]
        /\ row'[q.b].driver =
             IF q.to = "ASSIGNED" THEN q.driver ELSE row[q.b].driver
        /\ row'[q.b].claimedBy =
             IF q.to = "CLAIMED" THEN q.by ELSE row[q.b].claimedBy
    BY <1>4, ApplyRow
  <2>2. /\ q.b \in Bookings
        /\ CanTransition(row[q.b].status, q.to)
    BY <1>4 DEF ApplyStep
  <2>3. /\ q.to = "CLAIMED" => row[q.b].claimedBy = None
        /\ q.to = "ASSIGNED" => row[q.b].driver = None
    BY <2>2, TransitionFacts DEF IInv, RowsAreConsistent
  <2> QED
    BY <1>1, <2>1, <2>3
<1>5. ASSUME NEW w \in Workers, NEW c \in Bookings, NEW mode \in DispatchModes,
             NEW quote \in Quotes, CreateBooking(w, c, mode, quote)
      PROVE  row'[b].claimedBy = d \/ row'[b].driver = d
  <2>1. row[c].claimedBy = None /\ row[c].driver = None
    BY <1>5 DEF CreateBooking, IInv, RowsAreConsistent
  <2>2. b # c
    BY <1>1, <2>1
  <2>3. row'[b] = row[b]
    BY <1>5, <2>2 DEF CreateBooking, IInv, TypeOK
  <2> QED  BY <1>1, <2>3
<1>6. ASSUME NEW c \in Bookings, RowTouch(c)
      PROVE  row'[b].claimedBy = d \/ row'[b].driver = d
  BY <1>1, <1>6 DEF RowTouch, IInv, TypeOK
<1>7. CASE Next
  BY <1>3, <1>4, <1>5, <1>6, <1>7, StepKinds, TouchSteps
<1>8. CASE UNCHANGED vars
  BY <1>1, <1>8 DEF vars
<1> QED
  BY <1>7, <1>8

-----------------------------------------------------------------------------
(* Consent and ownership of the stored points. *)

\* No tracker, no point.
LEMMA TrackingInitEstablishes ==
    ASSUME TrackingInit
    PROVE  TInv
<1> USE TrackingAssumption DEF TrackingInit
<1>1. TrackingTypeOK
  BY DEF TrackingTypeOK, TrackingRequest, NoPost, MaybeDriver
<1>2. TrackersAgree /\ PointsNeedConsentAndOwner
  BY DEF TrackersAgree, PointsNeedConsentAndOwner, NoPost
<1> QED  BY <1>1, <1>2 DEF TInv

\* A tracker's step, while the lifecycle stands still.
LEMMA TrackingStepPreserves ==
    ASSUME TInv, TrackingStep
    PROVE  TInv'
<1>0. /\ flags \in [Bookings -> Nat]
      /\ consent \in [Bookings -> BOOLEAN]
      /\ points \in [Bookings -> SUBSET Drivers]
      /\ treq \in [Trackers -> TrackingRequest]
      /\ posts \in 0..MaxPosts
      /\ flaggedEver \in [Bookings -> Nat]
      /\ reviewed \in [Bookings -> Nat]
      /\ lateBatches \in [Bookings -> Nat]
  BY DEF TInv, TrackingTypeOK
<1>00. row' = row
  BY DEF TrackingStep, ReadForIngest, CommitIngest, ReadForClear, CommitClear,
         ReadForConsent, CommitConsent, TrackerCrash, DeletePoints, vars
<1> USE TrackingAssumption
<1>1. ASSUME NEW t \in Trackers, NEW b \in Bookings, NEW d \in Drivers,
             NEW n \in 0..MaxBatch, ReadForIngest(t, b, d, n)
      PROVE  TInv'
  <2>1. [op |-> "ingest", b |-> b, driver |-> d, count |-> n] \in TrackingRequest
    BY DEF TrackingRequest, MaybeDriver
  <2>2. TrackingTypeOK'
    BY <1>0, <1>1, <2>1 DEF TrackingTypeOK, ReadForIngest
  <2>3. TrackersAgree'
    BY <1>0, <1>00, <1>1
    DEF TInv, TrackersAgree, ReadForIngest, IngestAllowed, OwnsTrip
  <2>4. PointsNeedConsentAndOwner'
    BY <1>00, <1>1 DEF TInv, PointsNeedConsentAndOwner, ReadForIngest, OwnsTrip
  <2> QED  BY <2>2, <2>3, <2>4 DEF TInv
<1>2. ASSUME NEW t \in Trackers, CommitIngest(t)
      PROVE  TInv'
  <2>1. /\ treq[t].op = "ingest" /\ treq[t].b \in Bookings
        /\ treq[t].driver \in Drivers /\ treq[t].count \in Nat
        /\ consent[treq[t].b] /\ OwnsTrip(treq[t].b, treq[t].driver)
    BY <1>0, <1>2 DEF TInv, TrackersAgree, CommitIngest, TrackingRequest
  <2>2. NoPost \in TrackingRequest
    BY DEF NoPost, TrackingRequest, MaybeDriver
  <2>3. TrackingTypeOK'
    <3>1. flags' \in [Bookings -> Nat] /\ flaggedEver' \in [Bookings -> Nat]
      BY <1>0, <1>2, <2>1 DEF CommitIngest
    <3>2. lateBatches' \in [Bookings -> Nat]
      BY <1>0, <1>2, <2>1 DEF CommitIngest
    <3>3. points' \in [Bookings -> SUBSET Drivers]
      BY <1>0, <1>2, <2>1 DEF CommitIngest
    <3>4. treq' \in [Trackers -> TrackingRequest]
      BY <1>0, <1>2, <2>2 DEF CommitIngest
    <3>5. UNCHANGED <<consent, posts, reviewed>>
      BY <1>2 DEF CommitIngest
    <3> QED
      BY <1>0, <3>1, <3>2, <3>3, <3>4, <3>5 DEF TrackingTypeOK
  <2>4. TrackersAgree'
    BY <1>0, <1>00, <1>2 DEF TInv, TrackersAgree, CommitIngest, OwnsTrip, NoPost
  <2>5. PointsNeedConsentAndOwner'
    BY <1>0, <1>00, <1>2, <2>1
    DEF TInv, PointsNeedConsentAndOwner, CommitIngest, OwnsTrip
  <2> QED  BY <2>3, <2>4, <2>5 DEF TInv
<1>3. ASSUME NEW t \in Trackers, NEW b \in Bookings,
             ReadForClear(t, b) \/ ReadForConsent(t, b)
      PROVE  TInv'
  <2>1. /\ [op |-> "clear", b |-> b, driver |-> None, count |-> flags[b]]
             \in TrackingRequest
        /\ [op |-> "consent", b |-> b, driver |-> None, count |-> 0]
             \in TrackingRequest
    BY <1>0 DEF TrackingRequest, MaybeDriver
  <2>2. TrackingTypeOK'
    BY <1>0, <1>3, <2>1 DEF TrackingTypeOK, ReadForClear, ReadForConsent
  <2>3. TrackersAgree'
    BY <1>0, <1>00, <1>3
    DEF TInv, TrackersAgree, ReadForClear, ReadForConsent, OwnsTrip
  <2>4. PointsNeedConsentAndOwner'
    BY <1>00, <1>3
    DEF TInv, PointsNeedConsentAndOwner, ReadForClear, ReadForConsent, OwnsTrip
  <2> QED  BY <2>2, <2>3, <2>4 DEF TInv
<1>4. ASSUME NEW t \in Trackers,
             CommitClear(t) \/ CommitConsent(t) \/ TrackerCrash(t)
      PROVE  TInv'
  <2>1. NoPost \in TrackingRequest
    BY DEF NoPost, TrackingRequest, MaybeDriver
  <2>2. treq[t] \in TrackingRequest
        /\ (treq[t].op # "none" => treq[t].b \in Bookings)
    BY <1>0 DEF TInv, TrackersAgree
  <2>3. TrackingTypeOK'
    <3>1. CASE CommitClear(t)
      <4>1. treq[t].b \in Bookings /\ treq[t].count \in Nat
        BY <2>2, <3>1 DEF CommitClear, TrackingRequest
      <4> QED
        BY <1>0, <2>1, <3>1, <4>1 DEF TrackingTypeOK, CommitClear
    <3>2. CASE CommitConsent(t)
      BY <1>0, <2>1, <3>2 DEF TrackingTypeOK, CommitConsent
    <3>3. CASE TrackerCrash(t)
      BY <1>0, <2>1, <3>3 DEF TrackingTypeOK, TrackerCrash
    <3> QED  BY <1>4, <3>1, <3>2, <3>3
  <2>4. /\ treq' = [treq EXCEPT ![t] = NoPost]
        /\ \A b \in Bookings : consent[b] => consent'[b]
        /\ points' = points
    BY <1>0, <1>4 DEF CommitClear, CommitConsent, TrackerCrash
  <2>5. TrackersAgree'
    BY <1>0, <1>00, <2>4 DEF TInv, TrackersAgree, OwnsTrip, NoPost
  <2>6. PointsNeedConsentAndOwner'
    BY <1>00, <2>4 DEF TInv, PointsNeedConsentAndOwner, OwnsTrip
  <2> QED  BY <2>3, <2>5, <2>6 DEF TInv
<1>5. ASSUME NEW b \in Bookings, DeletePoints(b)
      PROVE  TInv'
  <2>1. TrackingTypeOK'
    BY <1>0, <1>5 DEF TrackingTypeOK, DeletePoints
  <2>2. TrackersAgree'
    BY <1>00, <1>5 DEF TInv, TrackersAgree, DeletePoints, OwnsTrip
  <2>3. PointsNeedConsentAndOwner'
    BY <1>0, <1>00, <1>5
    DEF TInv, PointsNeedConsentAndOwner, DeletePoints, OwnsTrip
  <2> QED  BY <2>1, <2>2, <2>3 DEF TInv
<1> QED
  BY <1>1, <1>2, <1>3, <1>4, <1>5 DEF TrackingStep

\* A lifecycle step leaves what the trackers read true.
LEMMA TrackingNextPreserves ==
    ASSUME IInv, TInv, [TrackingNext]_allVars
    PROVE  TInv'
<1>1. CASE TrackingStep
  BY <1>1, TrackingStepPreserves
<1>2. CASE BookingStep \/ UNCHANGED allVars
  <2>1. UNCHANGED trackingVars
    BY <1>2 DEF BookingStep, allVars
  <2>2. \A b \in Bookings, d \in Drivers : OwnsTrip(b, d) => OwnsTrip(b, d)'
    BY TrackingNextIsNext, OwnersStay
  <2>3. TrackingTypeOK'
    BY <2>1 DEF TInv, TrackingTypeOK, trackingVars
  <2>4. TrackersAgree'
    BY <2>1, <2>2 DEF TInv, TrackersAgree, trackingVars
  <2>5. PointsNeedConsentAndOwner'
    BY <2>1, <2>2 DEF TInv, TrackingTypeOK, PointsNeedConsentAndOwner, trackingVars
  <2> QED  BY <2>3, <2>4, <2>5 DEF TInv
<1> QED
  BY <1>1, <1>2 DEF TrackingNext

\* Types, the trackers' checks, and consent and owner of every stored point hold
\* in every state of the composed system.
THEOREM TrackingInvariance == TrackingSpec => []TInv
<1>1. TrackingInit => TInv
  BY TrackingInitEstablishes
<1>2. IInv /\ TInv /\ [TrackingNext]_allVars => TInv'
  BY TrackingNextPreserves
<1>3. TrackingSpec => []IInv
  BY TrackingRefinement, Invariance, PTL DEF ImplementsBookingLifecycle
<1> QED
  BY <1>1, <1>2, <1>3, PTL DEF TrackingSpec

\* Every stored location belongs to a customer who agreed and to a driver of
\* the trip, although both were checked before the transaction that stores it.
THEOREM StoredPoints == TrackingSpec => []PointsNeedConsentAndOwner
<1>1. TInv => PointsNeedConsentAndOwner
  BY DEF TInv
<1> QED  BY <1>1, TrackingInvariance, PTL

\* The tracking state keeps its shape.
THEOREM TrackingTypeCorrect == TrackingSpec => []TrackingTypeOK
<1>1. TInv => TrackingTypeOK
  BY DEF TInv
<1> QED  BY <1>1, TrackingInvariance, PTL

-----------------------------------------------------------------------------
(* Posts that land after the trip has ended. *)

\* The handlers whose accepted post on b is not stored yet.
Posting(b) == {t \in Trackers : treq[t].op = "ingest" /\ treq[t].b = b}

\* A late batch has used up one of the posts that were in flight when the trip
\* ended, and none is accepted from then on: the two counts never exceed the
\* handlers.  While a trip lives, nothing is late.
LInv ==
    \A b \in Bookings :
        /\ row[b].status \in LiveStatuses \cup {"ABSENT"} => lateBatches[b] = 0
        /\ lateBatches[b] + Cardinality(Posting(b)) <= Cardinality(Trackers)

\* The posts in flight are at most one per handler.
LEMMA PostingBounds ==
    ASSUME NEW b
    PROVE  /\ IsFiniteSet(Posting(b))
           /\ Cardinality(Posting(b)) \in Nat
           /\ Cardinality(Trackers) \in Nat
           /\ Cardinality(Posting(b)) <= Cardinality(Trackers)
BY TrackingAssumption, FS_Subset, FS_CardinalityType DEF Posting

\* A trip that has ended stays ended.
LEMMA EndedStays ==
    ASSUME IInv, [Next]_vars, NEW b \in Bookings,
           row'[b].status \in LiveStatuses \cup {"ABSENT"}
    PROVE  row[b].status \in LiveStatuses \cup {"ABSENT"}
<1>1. ASSUME NEW w \in Handlers, NEW p, ReadStep(w, p)
      PROVE  row[b].status \in LiveStatuses \cup {"ABSENT"}
  BY <1>1 DEF ReadStep
<1>2. ASSUME NEW w \in Handlers, NEW snap, ApplyStep(w, snap, req[w])
      PROVE  row[b].status \in LiveStatuses \cup {"ABSENT"}
  <2>1. \A c \in Bookings : c # req[w].b => row'[c] = row[c]
    BY <1>2, ApplyRow
  <2>2. req[w].b = b => row[b].status \in LiveStatuses
    BY <1>2, TransitionFacts DEF ApplyStep
  <2> QED  BY <2>1, <2>2
<1>3. ASSUME NEW w \in Workers, NEW c \in Bookings, NEW mode \in DispatchModes,
             NEW quote \in Quotes, CreateBooking(w, c, mode, quote)
      PROVE  row[b].status \in LiveStatuses \cup {"ABSENT"}
  <2>1. row[c].status = "ABSENT" /\ (b # c => row'[b] = row[b])
    BY <1>3 DEF CreateBooking, IInv, TypeOK
  <2> QED  BY <2>1
<1>4. ASSUME NEW c \in Bookings, RowTouch(c)
      PROVE  row[b].status \in LiveStatuses \cup {"ABSENT"}
  BY <1>4 DEF RowTouch, IInv, TypeOK
<1>5. CASE Next
  BY <1>1, <1>2, <1>3, <1>4, <1>5, StepKinds, TouchSteps
<1>6. CASE UNCHANGED vars
  BY <1>6 DEF vars
<1> QED
  BY <1>5, <1>6

\* A post in flight belongs to somebody's trip, so the trip is under way or over.
LEMMA PostedTripsBegan ==
    ASSUME IInv, TInv, NEW t \in Trackers, treq[t].op = "ingest"
    PROVE  /\ treq[t].b \in Bookings
           /\ row[treq[t].b].status \in LiveStatuses \cup {"ABSENT"} =>
                row[treq[t].b].status \in IngestAccepted
<1> DEFINE b == treq[t].b
<1>1. /\ b \in Bookings /\ treq[t].driver \in Drivers
      /\ row[b].claimedBy = treq[t].driver \/ row[b].driver = treq[t].driver
  BY DEF TInv, TrackersAgree, OwnsTrip
<1>2. row[b].status \notin {"ABSENT", "PENDING", "OPEN_FOR_CLAIM"}
  BY <1>1, ConstantsAssumption DEF IInv, RowsAreConsistent
<1> QED
  BY <1>1, <1>2 DEF LiveStatuses, IngestAccepted

\* Nothing is late before a trip has ended.
LEMMA LateInitEstablishes ==
    ASSUME TrackingInit
    PROVE  LInv
<1> SUFFICES ASSUME NEW b \in Bookings
             PROVE  /\ lateBatches[b] = 0
                    /\ lateBatches[b] + Cardinality(Posting(b))
                         <= Cardinality(Trackers)
  BY DEF LInv
<1>1. lateBatches[b] = 0
  BY DEF TrackingInit
<1> QED
  BY <1>1, PostingBounds

\* Storing a post trades it for at most one late batch.
LEMMA CommitIngestPreservesLate ==
    ASSUME IInv, TInv, LInv, NEW t \in Trackers, CommitIngest(t)
    PROVE  LInv'
<1> DEFINE c == treq[t].b
<1>1. /\ row' = row
      /\ c \in Bookings
      /\ lateBatches' = [lateBatches EXCEPT ![c] =
           IF row[c].status \in IngestAccepted THEN @ ELSE @ + 1]
      /\ treq' = [treq EXCEPT ![t] = NoPost]
      /\ treq[t].op = "ingest"
  BY PostedTripsBegan DEF CommitIngest, vars
<1>2. treq \in [Trackers -> TrackingRequest] /\ lateBatches \in [Bookings -> Nat]
  BY DEF TInv, TrackingTypeOK
<1> SUFFICES ASSUME NEW b \in Bookings
             PROVE  /\ row[b].status \in LiveStatuses \cup {"ABSENT"} =>
                         lateBatches'[b] = 0
                    /\ lateBatches'[b] + Cardinality(Posting(b)')
                         <= Cardinality(Trackers)
  BY <1>1 DEF LInv
<1>3. /\ row[b].status \in LiveStatuses \cup {"ABSENT"} => lateBatches[b] = 0
      /\ lateBatches[b] + Cardinality(Posting(b)) <= Cardinality(Trackers)
  BY DEF LInv
<1>4. Posting(b)' = Posting(b) \ {t}
  BY <1>1, <1>2 DEF Posting, NoPost
<1>5. /\ IsFiniteSet(Posting(b))
      /\ Cardinality(Posting(b)) \in Nat /\ Cardinality(Trackers) \in Nat
      /\ Cardinality(Posting(b) \ {t}) =
           IF t \in Posting(b) THEN Cardinality(Posting(b)) - 1
           ELSE Cardinality(Posting(b))
  BY PostingBounds, FS_RemoveElement
<1>6. CASE b = c
  <2>1. t \in Posting(b)
    BY <1>1, <1>6 DEF Posting
  <2>2. lateBatches'[b] \in {lateBatches[b], lateBatches[b] + 1}
        /\ (row[b].status \in IngestAccepted => lateBatches'[b] = lateBatches[b])
    BY <1>1, <1>2, <1>6
  <2>3. row[b].status \in LiveStatuses \cup {"ABSENT"} =>
          row[b].status \in IngestAccepted
    BY <1>1, <1>6, PostedTripsBegan
  <2>4. lateBatches[b] \in Nat
    BY <1>2
  <2> QED
    BY <1>3, <1>4, <1>5, <2>1, <2>2, <2>3, <2>4
<1>7. CASE b # c
  <2>1. t \notin Posting(b) /\ lateBatches'[b] = lateBatches[b]
    BY <1>1, <1>2, <1>7 DEF Posting
  <2> QED
    BY <1>3, <1>4, <1>5, <2>1
<1> QED  BY <1>6, <1>7

\* A post in flight becomes at most one late batch.
LEMMA LateNextPreserves ==
    ASSUME IInv, TInv, LInv, [TrackingNext]_allVars
    PROVE  LInv'
<1>1. treq \in [Trackers -> TrackingRequest] /\ lateBatches \in [Bookings -> Nat]
  BY DEF TInv, TrackingTypeOK
<1>2. ASSUME NEW t \in Trackers, NEW c \in Bookings, NEW d \in Drivers,
             NEW n \in 0..MaxBatch, ReadForIngest(t, c, d, n)
      PROVE  LInv'
  <2>1. /\ row' = row /\ lateBatches' = lateBatches
        /\ row[c].status \in IngestAccepted
        /\ \A s \in Trackers : s # t => treq'[s] = treq[s]
        /\ treq'[t].op = "ingest" /\ treq'[t].b = c
        /\ treq[t].op = "none"
    BY <1>1, <1>2 DEF ReadForIngest, IngestAllowed, TrackerIdle, vars
  <2>2. lateBatches[c] = 0
    BY <2>1 DEF LInv, IngestAccepted, LiveStatuses
  <2>3. \A b \in Bookings : b # c => Posting(b)' = Posting(b)
    BY <2>1 DEF Posting
  <2>4. \A b \in Bookings : Cardinality(Posting(b)') <= Cardinality(Trackers)
        /\ Cardinality(Posting(b)') \in Nat /\ Cardinality(Trackers) \in Nat
    <3> TAKE b \in Bookings
    <3>1. Posting(b)' \in SUBSET Trackers
      BY DEF Posting
    <3> QED
      BY <3>1, TrackingAssumption, FS_Subset, FS_CardinalityType
  <2>5. \A b \in Bookings : lateBatches[b] + Cardinality(Posting(b)')
                              <= Cardinality(Trackers)
    BY <2>2, <2>3, <2>4 DEF LInv
  <2> QED
    BY <2>1, <2>5 DEF LInv
<1>3. ASSUME NEW t \in Trackers, CommitIngest(t)
      PROVE  LInv'
  BY <1>3, CommitIngestPreservesLate
<1>4. ASSUME lateBatches' = lateBatches,
             \A b \in Bookings : Posting(b)' \in SUBSET Posting(b),
             \A b \in Bookings :
                row'[b].status \in LiveStatuses \cup {"ABSENT"} =>
                  row[b].status \in LiveStatuses \cup {"ABSENT"}
      PROVE  LInv'
  <2>1. ASSUME NEW b \in Bookings
        PROVE  lateBatches'[b] + Cardinality(Posting(b)')
                 <= Cardinality(Trackers)
    <3>1. IsFiniteSet(Posting(b)) /\ IsFiniteSet(Posting(b)')
          /\ Cardinality(Posting(b)') <= Cardinality(Posting(b))
      BY <1>4, PostingBounds, FS_Subset
    <3>2. /\ Cardinality(Posting(b)') \in Nat /\ Cardinality(Posting(b)) \in Nat
          /\ Cardinality(Trackers) \in Nat /\ lateBatches[b] \in Nat
      BY <1>1, <3>1, PostingBounds, FS_CardinalityType
    <3>3. lateBatches[b] + Cardinality(Posting(b)) <= Cardinality(Trackers)
      BY DEF LInv
    <3> QED  BY <1>4, <3>1, <3>2, <3>3
  <2> QED
    BY <1>4, <2>1 DEF LInv
<1>5. ASSUME NEW t \in Trackers, NEW c \in Bookings,
             ReadForClear(t, c) \/ ReadForConsent(t, c)
      PROVE  LInv'
  <2>1. /\ row' = row /\ lateBatches' = lateBatches
        /\ \A b \in Bookings : Posting(b)' \in SUBSET Posting(b)
    BY <1>1, <1>5 DEF ReadForClear, ReadForConsent, Posting, vars
  <2> QED  BY <2>1, <1>4
<1>6. ASSUME NEW t \in Trackers,
             CommitClear(t) \/ CommitConsent(t) \/ TrackerCrash(t)
      PROVE  LInv'
  <2>1. /\ row' = row /\ lateBatches' = lateBatches
        /\ \A b \in Bookings : Posting(b)' \in SUBSET Posting(b)
    BY <1>1, <1>6
    DEF CommitClear, CommitConsent, TrackerCrash, Posting, NoPost, vars
  <2> QED  BY <2>1, <1>4
<1>7. ASSUME NEW c \in Bookings, DeletePoints(c)
      PROVE  LInv'
  <2>1. /\ row' = row /\ lateBatches' = lateBatches
        /\ \A b \in Bookings : Posting(b)' \in SUBSET Posting(b)
    BY <1>7 DEF DeletePoints, Posting, vars
  <2> QED  BY <2>1, <1>4
<1>8. CASE BookingStep \/ UNCHANGED allVars
  <2>1. /\ lateBatches' = lateBatches
        /\ \A b \in Bookings : Posting(b)' \in SUBSET Posting(b)
    BY <1>8 DEF BookingStep, allVars, trackingVars, Posting
  <2>2. \A b \in Bookings :
          row'[b].status \in LiveStatuses \cup {"ABSENT"} =>
            row[b].status \in LiveStatuses \cup {"ABSENT"}
    BY TrackingNextIsNext, EndedStays
  <2> QED  BY <1>4, <2>1, <2>2
<1> QED
  BY <1>2, <1>3, <1>5, <1>6, <1>7, <1>8 DEF TrackingNext, TrackingStep

\* Points are stored after the end of a trip only by posts that were accepted
\* before it, so a trip collects at most one late batch per handler.
THEOREM LateBatches == TrackingSpec => []LateBatchesBounded
<1>1. TrackingInit => LInv
  BY LateInitEstablishes
<1>2. IInv /\ TInv /\ LInv /\ [TrackingNext]_allVars => LInv'
  BY LateNextPreserves
<1>3. TrackingSpec => []IInv
  BY TrackingRefinement, Invariance, PTL DEF ImplementsBookingLifecycle
<1>4. TInv /\ LInv => LateBatchesBounded
  <2> SUFFICES ASSUME TInv, LInv, NEW b \in Bookings
               PROVE  lateBatches[b] <= Cardinality(Trackers)
    BY DEF LateBatchesBounded
  <2>1. lateBatches[b] \in Nat
    BY DEF TInv, TrackingTypeOK
  <2>2. lateBatches[b] + Cardinality(Posting(b)) <= Cardinality(Trackers)
    BY DEF LInv
  <2> QED  BY <2>1, <2>2, PostingBounds
<1> QED
  BY <1>1, <1>2, <1>3, <1>4, TrackingInvariance, PTL DEF TrackingSpec
=============================================================================
