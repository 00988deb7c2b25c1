----------------------------- MODULE DriverApi ------------------------------
(***************************************************************************)
(* The drivers' REST API: one pipeline (withApiHandler) round each handler, *)
(* here those that keep the day's attendance, which the desk edits as well. *)
(*                                                                         *)
(*   free -> admitted -> missed [-> read] -> done -> free                   *)
(*                                                                         *)
(* A phone that gets no answer sends its request again under the same       *)
(* Idempotency-Key.  Successful answers are kept for a day, in Redis or in  *)
(* the memory of the instance that served the request.  Nothing joins       *)
(* look-up, handler and store into one step.  A request without a header is  *)
(* also what the actions of the attendance pages do, for staff or a driver.  *)
(***************************************************************************)
EXTENDS FiniteSets, Naturals

CONSTANTS Drivers,     \* profiles of drivers
          ApiKeys,     \* values of the Idempotency-Key header
          Hours,       \* times of the day a request may carry
          HalfDay,     \* fewer hours than this are half a day
          Servers,     \* instances of the deployment
          ApiWorkers,  \* requests being served
          Never        \* no time, no record, no request

VARIABLES record,      \* [Drivers -> Attendance row of the day, or Never]
          placement,   \* [ApiWorkers -> where its answers are kept]
          entries,     \* [Stores -> the keys of the answers kept]
          serving,     \* [ApiWorkers -> the request and how far it is, or Never]
          effects,     \* history: [IdempotencyKeys -> times a request of it took effect]
          lost         \* history: keys of which an answer was lost

keyHistory == <<effects, lost>>
driverApiVars == <<record, placement, entries, serving, keyHistory>>

Routes == {"check-in", "check-out"}
Stores == Servers \cup {"redis"}
IdempotencyKeys == Drivers \X Routes \X ApiKeys
Requests == [driver : Drivers, route : Routes, header : ApiKeys \cup {Never}, hour : Hours]
Hour == Hours \cup {Never}
AttendanceRow == [checkIn : Hour, checkOut : Hour,
                  status : {"PRESENT", "HALF_DAY", "ABSENT", "ON_LEAVE"}]
Serving == [request : Requests, step : {"admitted", "missed", "read", "done"},
            status : {Never, "PRESENT", "HALF_DAY"}]

ASSUME DriverApiAssumption ==
    /\ IsFiniteSet(ApiWorkers)
    /\ Never \notin Hours \cup ApiKeys \cup AttendanceRow \cup Serving

\* The body is no part of the key.
MakeIdempotencyKey(r) == <<r.driver, r.route, r.header>>

-----------------------------------------------------------------------------
(* Attendance: one row per person and day.                                 *)

Attended(in, out, status) == [checkIn |-> in, checkOut |-> out, status |-> status]

UpsertCheckIn(d, hour) ==
    record' = [record EXCEPT ![d] =
        Attended(hour, IF @ = Never THEN Never ELSE @.checkOut, "PRESENT")]

\* Later than the check-in or not: what is not half a day's work is a day's.
StatusOfDay(in, out) == IF in # Never /\ out < in + HalfDay THEN "HALF_DAY" ELSE "PRESENT"

\* WHERE id alone: the time and the status computed from the row read before.
UpdateCheckOut(d, hour, status) ==
    record' = [record EXCEPT ![d].checkOut = hour, ![d].status = status]

\* Mutant: the times are left.
MarkAbsentOnly(d, status) ==
    /\ record' = [record EXCEPT ![d] =
           IF @ = Never THEN Attended(Never, Never, status) ELSE [@ EXCEPT !.status = status]]
    /\ UNCHANGED <<placement, entries, serving, keyHistory>>

\* The desk marks a person absent or on leave.
MarkAbsent(d, status) ==
    /\ record' = [record EXCEPT ![d] = Attended(Never, Never, status)]
    /\ UNCHANGED <<placement, entries, serving, keyHistory>>

-----------------------------------------------------------------------------
(* The pipeline.                                                           *)

Serves(w, step) == serving[w] # Never /\ serving[w].step = step
Steps(w, step) == serving' = [serving EXCEPT ![w].step = step]
Answers(w) == serving' = [serving EXCEPT ![w] = Never]

Kept(w, r) == MakeIdempotencyKey(r) \in entries[placement[w]]

Counts(r) == r.header # Never /\ MakeIdempotencyKey(r) \notin lost

\* A keyed request took effect.
TookEffect(r) ==
    /\ effects' = IF Counts(r) THEN [effects EXCEPT ![MakeIdempotencyKey(r)] = @ + 1] ELSE effects
    /\ UNCHANGED lost

\* An answer that was or would have been kept is lost: the count starts over, for good.
Lose(keys) ==
    /\ lost' = lost \cup keys
    /\ effects' = [k \in IdempotencyKeys |-> IF k \in keys THEN 0 ELSE effects[k]]

KeyOf(r) == IF r.header = Never THEN {} ELSE {MakeIdempotencyKey(r)}

\* Parsed, authenticated and let through by the limiter (module RateLimit).
Receive(w, r) ==
    /\ serving[w] = Never
    /\ serving' = [serving EXCEPT ![w] =
           [request |-> r, step |-> "admitted", status |-> Never]]
    /\ UNCHANGED <<record, placement, entries, keyHistory>>

\* The answer kept is sent again, whatever the body says this time.
Replay(w) ==
    /\ Serves(w, "admitted")
    /\ Kept(w, serving[w].request)
    /\ Answers(w)
    /\ UNCHANGED <<record, placement, entries, keyHistory>>

\* No key, no entry, or no answer from Redis.
Miss(w) ==
    LET r == serving[w].request IN
    /\ Serves(w, "admitted")
    /\ IF Kept(w, r) THEN placement[w] = "redis" /\ Lose(KeyOf(r)) ELSE UNCHANGED keyHistory
    /\ Steps(w, "missed")
    /\ UNCHANGED <<record, placement, entries>>

\* A key of the wrong shape, a 404 of the ownership check, an error of the
\* handler: nothing is kept.  A request that dies after its effect has lost
\* its answer.
Refuse(w) ==
    /\ serving[w] # Never
    /\ IF Serves(w, "done") THEN Lose(KeyOf(serving[w].request)) ELSE UNCHANGED keyHistory
    /\ Answers(w)
    /\ UNCHANGED <<record, placement, entries>>

CheckIn(w) ==
    LET r == serving[w].request IN
    /\ Serves(w, "missed") /\ r.route = "check-in"
    /\ UpsertCheckIn(r.driver, r.hour)
    /\ TookEffect(r)
    /\ Steps(w, "done")
    /\ UNCHANGED <<placement, entries>>

ReadCheckOut(w) ==
    LET r == serving[w].request
        row == record[r.driver]
    IN
    /\ Serves(w, "missed") /\ r.route = "check-out"
    /\ row # Never
    /\ serving' = [serving EXCEPT ![w].step = "read",
                                  ![w].status = StatusOfDay(row.checkIn, r.hour)]
    /\ UNCHANGED <<record, placement, entries, keyHistory>>

CommitCheckOut(w) ==
    LET r == serving[w].request IN
    /\ Serves(w, "read")
    /\ UpdateCheckOut(r.driver, r.hour, serving[w].status)
    /\ TookEffect(r)
    /\ Steps(w, "done")
    /\ UNCHANGED <<placement, entries>>

\* Mutant: only answers of 201 are kept.
StoreCreatedOnly(w) ==
    /\ Serves(w, "done")
    /\ Answers(w)
    /\ UNCHANGED <<record, placement, entries, keyHistory>>

\* SET with a time to live, over what was there; an error of Redis is swallowed.
StoreAnswer(w) ==
    LET r == serving[w].request IN
    /\ Serves(w, "done")
    /\ IF r.header = Never THEN UNCHANGED <<entries, keyHistory>>
       ELSE \/ /\ entries' = [entries EXCEPT ![placement[w]] = @ \cup {MakeIdempotencyKey(r)}]
               /\ UNCHANGED keyHistory
            \/ placement[w] = "redis" /\ Lose(KeyOf(r)) /\ UNCHANGED entries
    /\ Answers(w)
    /\ UNCHANGED <<record, placement>>

-----------------------------------------------------------------------------
EntryExpires(s) ==
    /\ \E k \in entries[s] : entries' = [entries EXCEPT ![s] = @ \ {k}] /\ Lose({k})
    /\ UNCHANGED <<record, placement, serving>>

\* An instance is gone with its memory and the requests it was serving.
ServerStops(s) ==
    /\ \E w \in ApiWorkers : placement[w] = s
    /\ entries' = [entries EXCEPT ![s] = {}]
    /\ serving' = [w \in ApiWorkers |-> IF placement[w] = s THEN Never ELSE serving[w]]
    /\ Lose(entries[s] \cup
            UNION {KeyOf(serving[w].request) : w \in {v \in ApiWorkers : placement[v] = s /\ serving[v] # Never}})
    /\ UNCHANGED <<record, placement>>

\* Redis is configured for the whole deployment or for none of it.
DriverApiInit ==
    /\ record = [d \in Drivers |-> Never]
    /\ placement \in [ApiWorkers -> Servers] \cup {[w \in ApiWorkers |-> "redis"]}
    /\ entries = [s \in Stores |-> {}]
    /\ serving = [w \in ApiWorkers |-> Never]
    /\ effects = [k \in IdempotencyKeys |-> 0] /\ lost = {}

Served(w) ==
    \/ \E r \in Requests : Receive(w, r)
    \/ Replay(w) \/ Miss(w) \/ Refuse(w)
    \/ CheckIn(w) \/ ReadCheckOut(w) \/ CommitCheckOut(w)
    \/ StoreAnswer(w)

DriverApiNext ==
    \/ \E w \in ApiWorkers : Served(w)
    \/ \E d \in Drivers : \E status \in {"ABSENT", "ON_LEAVE"} : MarkAbsent(d, status)
    \/ \E s \in Stores : EntryExpires(s)
    \/ \E s \in Servers : ServerStops(s)

-----------------------------------------------------------------------------
\* Rows, entries and requests have the shapes of the code.
DriverApiTypeOK ==
    /\ record \in [Drivers -> AttendanceRow \cup {Never}]
    /\ placement \in [ApiWorkers -> Stores]
    /\ entries \in [Stores -> SUBSET IdempotencyKeys]
    /\ serving \in [ApiWorkers -> Serving \cup {Never}]
    /\ effects \in [IdempotencyKeys -> Nat] /\ lost \subseteq IdempotencyKeys

\* However often a phone repeats a request, at whichever instances, and
\* whatever other requests carry the same header: until an answer is lost, a
\* key takes effect at most as often as requests can be served at one time,
\* the repeats that were looked up before the first answer was kept.
RepeatsAreBounded == \A k \in IdempotencyKeys : effects[k] <= Cardinality(ApiWorkers)

\* The row of a day tells one story: who is absent or on leave has no times,
\* who is present or was there half a day has one, half a day has its end;
\* a check-out that read the row before the desk's mark included.
AttendanceAgrees ==
    \A d \in Drivers : record[d] # Never =>
        LET row == record[d] IN
        /\ row.status \in {"ABSENT", "ON_LEAVE"} <=> row.checkIn = Never /\ row.checkOut = Never
        /\ row.status = "HALF_DAY" => row.checkOut # Never
=============================================================================
