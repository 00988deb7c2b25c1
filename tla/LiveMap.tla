------------------------------ MODULE LiveMap -------------------------------
(***************************************************************************)
(* What a customer sees of the driver: posts of points are judged against   *)
(* the newest point stored, stored, and broadcast by nobody who waits; the  *)
(* map draws what the page was rendered with and then what it hears.        *)
(*                                                                         *)
(*   post: unsent -(read the newest)-> read -(transaction)-> stored         *)
(*         -(broadcast, heard or not)-> done                                *)
(*   map:  rendered -(subscribed)(loaded), in either order-> ...            *)
(*                                                                         *)
(* One trip, with consent and under way throughout: which posts the server  *)
(* accepts at all is in TripTracking.  Space has one dimension.             *)
(***************************************************************************)
EXTENDS FiniteSets, Integers, Sequences

CONSTANTS LocationPosts,  \* posts of the driver's phone
          Ticks,          \* times at which the phone notes where it is
          Spots,          \* where it may be, or say it is
          MaxSpeed,       \* LOCATION_MAX_SPEED_KPH, spots a tick
          PickupSpot, FirstPointMax,
          MaxPoints,      \* bound: points of a post
          MapLimit,       \* points a page is rendered with
          NoPoint

Point == [at : Ticks, spot : Spots]
\* The table's rows: points, each with its flag and the post it came by.
Located == [at : Ticks, spot : Spots, flagged : BOOLEAN, post : LocationPosts]

ASSUME LiveMapAssumption ==
    /\ IsFiniteSet(LocationPosts)
    /\ Ticks \subseteq Nat /\ Spots \subseteq Nat /\ IsFiniteSet(Ticks) /\ IsFiniteSet(Spots)
    /\ MaxSpeed \in Nat /\ PickupSpot \in Nat /\ FirstPointMax \in Nat
    /\ MaxPoints \in Nat /\ MapLimit \in Nat \ {0}
    /\ NoPoint \notin Located \cup Point

VARIABLES post,      \* [LocationPosts -> the post]
          located,   \* table TripLocation
          map,       \* the customer's page, or NoPoint
          unheard    \* history: posts broadcast since the page was rendered and not heard

liveMapVars == <<post, located, map, unheard>>

Unsent == [stage |-> "unsent", points |-> {}, fast |-> {}, before |-> NoPoint]

\* The newest of some rows; several may be.
NewestRows(rows) == {r \in rows : \A s \in rows : s.at <= r.at}
NewestOf(rows, r) == IF rows = {} THEN r = NoPoint ELSE r \in NewestRows(rows)
Unflagged(rows) == {r \in rows : ~r.flagged}

-----------------------------------------------------------------------------
(* evaluatePoint, along a post in the order of its times.                   *)

Distance(a, b) == IF a < b THEN b - a ELSE a - b
TooFast(from, to) == from.at < to.at /\ Distance(from.spot, to.spot) > MaxSpeed * (to.at - from.at)

Earlier(p, q) == {r \in post[p].points : r.at < q.at}

\* Flagged points anchor the chain too.
Previous(p, q) ==
    IF Earlier(p, q) = {} THEN post[p].before ELSE CHOOSE r \in NewestRows(Earlier(p, q)) : TRUE

\* Mutant: a post is judged by itself.
FlaggedAlone(p, q) ==
    q \in post[p].fast \/ \E r \in NewestRows(Earlier(p, q)) : TooFast(r, q)

Flagged(p, q) ==
    \/ q \in post[p].fast
    \/ Previous(p, q) # NoPoint /\ TooFast(Previous(p, q), q)
    \/ /\ FirstPointMax > 0 /\ post[p].before = NoPoint /\ Earlier(p, q) = {}
       /\ Distance(PickupSpot, q.spot) > FirstPointMax

Judged(p) ==
    {[at |-> q.at, spot |-> q.spot, flagged |-> Flagged(p, q), post |-> p] : q \in post[p].points}

-----------------------------------------------------------------------------
(* The driver's side.                                                       *)

\* The phone posts each point it notes, or several it has kept, in any order
\* and whatever has become of its earlier posts.
Posted ==
    {points \in SUBSET Point :
        /\ Cardinality(points) \in 1..MaxPoints
        /\ \A q, r \in points : q.at = r.at => q = r}

ReadLastPoint(p) ==
    /\ post[p] = Unsent
    /\ \E points \in Posted, before \in located \cup {NoPoint} :
         /\ NewestOf(located, before)
         /\ \E fast \in {{}, points} :
              post' = [post EXCEPT ![p] =
                  [stage |-> "read", points |-> points, fast |-> fast, before |-> before]]
    /\ UNCHANGED <<located, map, unheard>>

StoreLocations(p) ==
    /\ post[p].stage = "read"
    /\ located' = located \cup Judged(p)
    /\ post' = [post EXCEPT ![p].stage = IF Unflagged(Judged(p)) = {} THEN "done" ELSE "stored"]
    /\ UNCHANGED <<map, unheard>>

MessageOf(p) == Unflagged({r \in located : r.post = p})

(* The customer's side: track is what the map draws, the rendered points    *)
(* first and then message by message; loadedAt is how long it was when the  *)
(* map had loaded, 0 before.                                                *)

Subscribed == map # NoPoint /\ map.subscribed
Loaded == map # NoPoint /\ map.loadedAt > 0

\* A marker is moved; a missing one is added if the library calls the map
\* loaded at this moment, with the track it has just been given.
MarkerAt(newest) ==
    IF map.marker # NoPoint THEN {newest}
    ELSE IF Loaded THEN {NoPoint, newest} ELSE {NoPoint}

Hear(points) ==
    \E newest \in NewestRows(points) : \E marker \in MarkerAt(newest) :
        map' = [map EXCEPT !.track = Append(@, points), !.latest = newest, !.marker = marker]

\* broadcastLocations, which nobody waits for: it comes at any time after the
\* transaction, or never (a time-out, an error, a frozen invocation).
BroadcastLocations(p) ==
    /\ post[p].stage = "stored"
    /\ post' = [post EXCEPT ![p].stage = "done"]
    /\ \/ Subscribed /\ Hear(MessageOf(p)) /\ UNCHANGED unheard
       \/ UNCHANGED map /\ unheard' = unheard \cup {p}
    /\ UNCHANGED located

\* listRecentForBooking: the newest points that are not flagged.
Recent ==
    {rows \in SUBSET Unflagged(located) :
        /\ Cardinality(rows) <= MapLimit
        /\ rows = Unflagged(located) \/ Cardinality(rows) = MapLimit
        /\ \A r \in rows, s \in Unflagged(located) \ rows : s.at <= r.at}

RenderMap ==
    /\ \E rows \in Recent, latest \in located \cup {NoPoint} :
         /\ NewestOf(rows, latest)
         /\ map' = [track |-> <<rows>>, latest |-> latest, first |-> latest,
                    subscribed |-> FALSE, loadedAt |-> 0, marker |-> NoPoint]
    /\ unheard' = {}
    /\ UNCHANGED <<post, located>>

Subscribe ==
    /\ map # NoPoint /\ ~map.subscribed
    /\ map' = [map EXCEPT !.subscribed = TRUE]
    /\ UNCHANGED <<post, located, unheard>>

\* The listener was made with the page: it marks the latest point of that time.
MapLoads ==
    /\ map # NoPoint /\ ~Loaded
    /\ map' = [map EXCEPT !.loadedAt = Len(map.track), !.marker = map.first]
    /\ UNCHANGED <<post, located, unheard>>

LiveMapInit ==
    /\ post = [p \in LocationPosts |-> Unsent]
    /\ located = {} /\ map = NoPoint /\ unheard = {}

LiveMapNext ==
    \/ \E p \in LocationPosts : ReadLastPoint(p) \/ StoreLocations(p) \/ BroadcastLocations(p)
    \/ RenderMap \/ Subscribe \/ MapLoads

LiveMapSpec == LiveMapInit /\ [][LiveMapNext]_liveMapVars

-----------------------------------------------------------------------------
\* Rows, posts and the page have their shapes.
LiveMapTypeOK ==
    /\ located \subseteq Located
    /\ post \in [LocationPosts ->
                   [stage : {"unsent", "read", "stored", "done"}, points : SUBSET Point,
                    fast : SUBSET Point, before : located \cup {NoPoint}]]
    /\ map # NoPoint =>
         map \in [track : Seq(SUBSET Unflagged(located)), latest : located \cup {NoPoint},
                  first : located \cup {NoPoint}, subscribed : BOOLEAN, loadedAt : Nat,
                  marker : located \cup {NoPoint}]
    /\ unheard \subseteq LocationPosts

\* The post read its predecessor before r was stored, or read another point that
\* was noted at the same time.
Unaware(p, r) ==
    /\ r.post # p
    /\ \/ post[p].before = NoPoint \/ post[p].before.at < r.at
       \/ post[p].before.at = r.at /\ post[p].before # r

\* It reached back behind what it read.
ReachesBack(p) ==
    post[p].before # NoPoint /\ \E q \in post[p].points : q.at <= post[p].before.at

\* Two points that no driver can have been at, one after the other, are not
\* both shown, unless the later one's post overlapped the other's, was judged
\* against another point of the same time, or came late.
JumpsAreFlagged ==
    \A r, s \in Unflagged(located) :
        TooFast(r, s) /\ (\A t \in located : ~(r.at < t.at /\ t.at < s.at)) =>
            Unaware(s.post, r) \/ ReachesBack(s.post)

Times(r) == Cardinality({i \in DOMAIN map.track : r \in map.track[i]})

\* Once a post is done the map draws its points, unless its broadcast was not
\* heard or they were too old for the page; twice only if it was rendered with them.
TrackIsWhole ==
    map # NoPoint =>
        \A r \in Unflagged(located) :
            /\ post[r.post].stage = "done" /\ Times(r) = 0 =>
                 \/ r.post \in unheard
                 \/ Cardinality(map.track[1]) = MapLimit /\ \A s \in map.track[1] : r.at <= s.at
            /\ Times(r) <= 1 \/ (Times(r) = 2 /\ r \in map.track[1])

\* From the first message after the map has loaded, the marker is where the
\* last message ends; there is none only on a page rendered without points.
MarkerFollows ==
    Loaded =>
        /\ Len(map.track) > map.loadedAt => map.marker \in {map.latest, NoPoint}
        /\ map.marker = NoPoint => map.track[1] = {}

\* However posts, broadcasts and the page's own start overlap.
MapTells == JumpsAreFlagged /\ TrackIsWhole /\ MarkerFollows
=============================================================================
