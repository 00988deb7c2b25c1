------------------------ MODULE NotificationOutbox --------------------------
(***************************************************************************)
(* The notification outbox: rows inserted by booking transactions, sent by *)
(* a cron that runs every minute and may overlap itself, deleted by the    *)
(* retention cron and by the erasure of their recipient.                   *)
(*                                                                         *)
(*   writer: idle --(recipient)--> addressed --(insert)--> idle            *)
(*   drain:  idle --(list)--> listed --(claim)--> claimed --(provider)-->  *)
(*           accepted | refused --(log)--> done | failed --(row)--> idle   *)
(*                                                                         *)
(* A drain handler is one row of one invocation's batch: an invocation     *)
(* takes its rows one after the other, but holds them all from its list on.*)
(* All messages are to one customer.  Texts, channels and locales are left *)
(* out, and of preferences only that dispatch may skip a message.          *)
(***************************************************************************)
EXTENDS Naturals, FiniteSets

CONSTANTS
    Messages,     \* ids of table NotificationOutbox
    Email,        \* those of channel EMAIL; the others are WHATSAPP
    Writers,      \* booking transactions
    Drains,       \* rows held by invocations of the drain
    MaxAttempts,  \* MAX_ATTEMPTS
    MaxFailures,  \* bound: failed dispatches of a message
    MaxLostLogs,  \* bound: lost log writes of a message
    None

ASSUME OutboxAssumption ==
    /\ None \notin Messages
    /\ Email \subseteq Messages
    /\ MaxAttempts \in Nat \ {0}
    /\ MaxFailures \in Nat
    /\ MaxLostLogs \in Nat

VARIABLES
    outbox,     \* table NotificationOutbox
    logged,     \* table NotificationLog: messages with a row
    writer,     \* the booking transactions
    drain,      \* the drain handlers
    erased,     \* the customer's address is scrubbed
    delivered,  \* external: copies the providers have accepted
    failures,   \* history: failed dispatches
    lostLogs,   \* history: accepted sends whose log row could not be written
    inFlight,   \* history: messages out of reach when the customer was erased
    touched     \* history: messages sent or logged after the erasure

history == <<failures, lostLogs, inFlight, touched>>
vars == <<outbox, logged, writer, drain, erased, delivered, history>>

OutboxRow ==
    [status : {"ABSENT", "PENDING", "PROCESSING", "FAILED", "SENT",
               "DEAD_LETTER", "DELETED"},
     attempts : 0..MaxAttempts, due : BOOLEAN]
NoRow == [status |-> "ABSENT", attempts |-> 0, due |-> FALSE]

DrainedRow ==
    [stage : {"idle", "listed", "claimed", "accepted", "refused", "done",
              "failed"},
     msg : Messages \cup {None}, attempts : 0..MaxAttempts]
Idle == [stage |-> "idle", msg |-> None, attempts |-> 0]

Init ==
    /\ outbox = [m \in Messages |-> NoRow]
    /\ logged = {}
    /\ writer = [w \in Writers |-> "idle"]
    /\ drain = [d \in Drains |-> Idle]
    /\ erased = FALSE
    /\ delivered = [m \in Messages |-> 0]
    /\ failures = [m \in Messages |-> 0]
    /\ lostLogs = [m \in Messages |-> 0]
    /\ inFlight = {}
    /\ touched = {}

Waiting == {m \in Messages : outbox[m].status \in {"PENDING", "FAILED"}}

\* The history of what happens to a message after the erasure.
Touch(m) == touched' = IF erased THEN touched \cup {m} ELSE touched

-----------------------------------------------------------------------------
(* notifyOnTransition and enqueueForChannels, inside a booking transaction *)

\* The recipient is read by a statement of its own.
ResolveRecipient(w) ==
    /\ writer[w] = "idle"
    /\ ~erased
    /\ writer' = [writer EXCEPT ![w] = "addressed"]
    /\ UNCHANGED <<outbox, logged, drain, erased, delivered, history>>

\* The commit: one row per channel that has a recipient, none on a rollback.
EnqueueForChannels(w, ms) ==
    /\ writer[w] = "addressed"
    /\ \A m \in ms : outbox[m].status = "ABSENT"
    /\ outbox' = [m \in Messages |->
         IF m \in ms THEN [status |-> "PENDING", attempts |-> 0, due |-> TRUE]
         ELSE outbox[m]]
    /\ writer' = [writer EXCEPT ![w] = "idle"]
    /\ inFlight' = IF erased THEN inFlight \cup ms ELSE inFlight
    /\ UNCHANGED <<logged, drain, erased, delivered, failures, lostLogs, touched>>

-----------------------------------------------------------------------------
(* cron/drain-notifications                                                *)

ListDue(d, m) ==
    /\ drain[d].stage = "idle"
    /\ m \in Waiting
    /\ outbox[m].due
    /\ drain' = [drain EXCEPT ![d] =
         [stage |-> "listed", msg |-> m, attempts |-> outbox[m].attempts]]
    /\ UNCHANGED <<outbox, logged, writer, erased, delivered, history>>

\* Wrong variant: the claim also takes what was sent already.
ClaimSentToo(d) ==
    LET m == drain[d].msg IN
    /\ drain[d].stage = "listed"
    /\ IF m \in Waiting \/ outbox[m].status = "SENT"
       THEN /\ outbox' = [outbox EXCEPT ![m].status = "PROCESSING"]
            /\ drain' = [drain EXCEPT ![d].stage = "claimed"]
       ELSE /\ drain' = [drain EXCEPT ![d] = Idle]
            /\ UNCHANGED outbox
    /\ UNCHANGED <<logged, writer, erased, delivered, history>>

\* Wrong variant: the claim is not conditional on the status.
ClaimListed(d) ==
    LET m == drain[d].msg IN
    /\ drain[d].stage = "listed"
    /\ outbox' = [outbox EXCEPT ![m].status = "PROCESSING"]
    /\ drain' = [drain EXCEPT ![d].stage = "claimed"]
    /\ UNCHANGED <<logged, writer, erased, delivered, history>>

\* UPDATE ... WHERE status IN (PENDING, FAILED): neither nextAttemptAt nor
\* attempts is looked at again.
Claim(d) ==
    LET m == drain[d].msg IN
    /\ drain[d].stage = "listed"
    /\ IF m \in Waiting
       THEN /\ outbox' = [outbox EXCEPT ![m].status = "PROCESSING"]
            /\ drain' = [drain EXCEPT ![d].stage = "claimed"]
       ELSE /\ drain' = [drain EXCEPT ![d] = Idle]
            /\ UNCHANGED outbox
    /\ UNCHANGED <<logged, writer, erased, delivered, history>>

\* dispatch without a provider: the flag is off, the recipient has opted out,
\* or it is a quiet hour; skipped counts as done.
Skip(d) ==
    /\ drain[d].stage = "claimed"
    /\ drain' = [drain EXCEPT ![d].stage = "done"]
    /\ UNCHANGED <<outbox, logged, writer, erased, delivered, history>>

\* An unknown template fails without a log row.
UnknownTemplate(d) ==
    /\ drain[d].stage = "claimed"
    /\ failures[drain[d].msg] < MaxFailures
    /\ failures' = [failures EXCEPT ![drain[d].msg] = @ + 1]
    /\ drain' = [drain EXCEPT ![d].stage = "failed"]
    /\ UNCHANGED <<outbox, logged, writer, erased, delivered, lostLogs,
                   inFlight, touched>>

\* The provider takes the message.
ProviderAccepts(d) ==
    LET m == drain[d].msg IN
    /\ drain[d].stage = "claimed"
    /\ delivered' = [delivered EXCEPT ![m] = @ + 1]
    /\ Touch(m)
    /\ drain' = [drain EXCEPT ![d].stage = "accepted"]
    /\ UNCHANGED <<outbox, logged, writer, erased, failures, lostLogs, inFlight>>

\* The provider passes the message over: no credentials, a number or a
\* country it may not write to, the limit per recipient.  It counts as sent.
ProviderNoop(d) ==
    /\ drain[d].stage = "claimed"
    /\ drain' = [drain EXCEPT ![d].stage = "accepted"]
    /\ UNCHANGED <<outbox, logged, writer, erased, delivered, history>>

ProviderRefuses(d) ==
    /\ drain[d].stage = "claimed"
    /\ failures[drain[d].msg] < MaxFailures
    /\ drain' = [drain EXCEPT ![d].stage = "refused"]
    /\ UNCHANGED <<outbox, logged, writer, erased, delivered, history>>

\* Wrong variant: when the log row cannot be written, the send is repeated.
LogSentOrRepeat(d) ==
    LET m == drain[d].msg IN
    /\ drain[d].stage = "accepted"
    /\ \/ /\ drain' = [drain EXCEPT ![d].stage = "done"]
          /\ logged' = logged \cup {m}
          /\ Touch(m)
          /\ UNCHANGED lostLogs
       \/ /\ lostLogs[m] < MaxLostLogs
          /\ lostLogs' = [lostLogs EXCEPT ![m] = @ + 1]
          /\ drain' = [drain EXCEPT ![d].stage = "claimed"]
          /\ UNCHANGED <<logged, touched>>
    /\ UNCHANGED <<outbox, writer, erased, delivered, failures, inFlight>>

\* The log row of a send; when it cannot be written the catch takes the send
\* for failed.
LogSent(d) ==
    LET m == drain[d].msg IN
    /\ drain[d].stage = "accepted"
    /\ \/ /\ drain' = [drain EXCEPT ![d].stage = "done"]
          /\ logged' = logged \cup {m}
          /\ Touch(m)
          /\ UNCHANGED lostLogs
       \/ /\ lostLogs[m] < MaxLostLogs
          /\ failures[m] < MaxFailures
          /\ lostLogs' = [lostLogs EXCEPT ![m] = @ + 1]
          /\ drain' = [drain EXCEPT ![d].stage = "refused"]
          /\ UNCHANGED <<logged, touched>>
    /\ UNCHANGED <<outbox, writer, erased, delivered, failures, inFlight>>

\* The log row of a failure; if that cannot be written either, dispatch
\* throws and the invocation ends (DrainDies).
LogFailed(d) ==
    LET m == drain[d].msg IN
    /\ drain[d].stage = "refused"
    /\ failures' = [failures EXCEPT ![m] = @ + 1]
    /\ logged' = logged \cup {m}
    /\ Touch(m)
    /\ drain' = [drain EXCEPT ![d].stage = "failed"]
    /\ UNCHANGED <<outbox, writer, erased, delivered, lostLogs, inFlight>>

\* Wrong variant: a message is given up one attempt too early.
AttemptedTooEarly(attempts) ==
    IF attempts + 1 >= MaxAttempts THEN "DEAD_LETTER" ELSE "FAILED"

Attempted(attempts) ==
    IF attempts >= MaxAttempts THEN "DEAD_LETTER" ELSE "FAILED"

\* Wrong variant: attempts are counted on the row, once more than the list says.
FinishCountsTwice(d) ==
    LET m == drain[d].msg
        attempts == outbox[m].attempts + drain[d].attempts + 1
    IN  /\ drain[d].stage \in {"done", "failed"}
        /\ outbox' = [outbox EXCEPT ![m] =
             [status |-> IF drain[d].stage = "done" THEN "SENT"
                         ELSE Attempted(attempts),
              attempts |-> attempts, due |-> FALSE]]
        /\ drain' = [drain EXCEPT ![d] = Idle]
        /\ UNCHANGED <<logged, writer, erased, delivered, history>>

\* The row's outcome, WHERE id alone, with the attempts the list has read.
Finish(d) ==
    LET m == drain[d].msg
        attempts == drain[d].attempts + 1
    IN  /\ drain[d].stage \in {"done", "failed"}
        /\ outbox' = [outbox EXCEPT ![m] =
             [status |-> IF drain[d].stage = "done" THEN "SENT"
                         ELSE Attempted(attempts),
              attempts |-> attempts, due |-> FALSE]]
        /\ drain' = [drain EXCEPT ![d] = Idle]
        /\ UNCHANGED <<logged, writer, erased, delivered, history>>

\* nextAttemptAt passes.
BackOffEnds(m) ==
    /\ outbox[m].status = "FAILED"
    /\ ~outbox[m].due
    /\ outbox' = [outbox EXCEPT ![m].due = TRUE]
    /\ UNCHANGED <<logged, writer, drain, erased, delivered, history>>

\* The platform ends the invocation, or an exception does.
DrainDies(d) ==
    /\ drain[d].stage # "idle"
    /\ drain' = [drain EXCEPT ![d] = Idle]
    /\ UNCHANGED <<outbox, logged, writer, erased, delivered, history>>

-----------------------------------------------------------------------------
(* eraseCustomer and cron/prune-notifications                              *)

\* Recipients are written as an e-mail address or an E.164 number; the
\* erasure looks for what the profile stores, and a customer who edits the
\* profile stores the number as typed.
Matched == {Messages, Email}

\* Wrong variant: rows that wait for another attempt are left.
ErasedRowsPendingOnly(matched) ==
    {m \in matched : outbox[m].status = "PENDING"}

ErasedRows(matched) == matched \cap Waiting

\* Of what else is scrubbed (profile, customer, bookings, trips) nothing is
\* read by a drain.
EraseCustomer(matched) ==
    /\ ~erased
    /\ erased' = TRUE
    /\ logged' = logged \ matched
    /\ outbox' = [m \in Messages |->
         IF m \in ErasedRows(matched)
         THEN [outbox[m] EXCEPT !.status = "DELETED"]
         ELSE outbox[m]]
    /\ inFlight' = (Messages \ matched)
                   \cup {m \in Messages : outbox[m].status = "PROCESSING"}
    /\ UNCHANGED <<writer, drain, delivered, failures, lostLogs, touched>>

PruneDeadLetters(m) ==
    /\ outbox[m].status = "DEAD_LETTER"
    /\ outbox' = [outbox EXCEPT ![m].status = "DELETED"]
    /\ UNCHANGED <<logged, writer, drain, erased, delivered, history>>

PruneLogs(m) ==
    /\ m \in logged
    /\ logged' = logged \ {m}
    /\ UNCHANGED <<outbox, writer, drain, erased, delivered, history>>

-----------------------------------------------------------------------------
DrainStep(d) ==
    \/ \E m \in Messages : ListDue(d, m)
    \/ Claim(d)
    \/ Skip(d)
    \/ UnknownTemplate(d)
    \/ ProviderAccepts(d)
    \/ ProviderNoop(d)
    \/ ProviderRefuses(d)
    \/ LogSent(d)
    \/ LogFailed(d)
    \/ Finish(d)
    \/ DrainDies(d)

Next ==
    \/ \E w \in Writers : ResolveRecipient(w)
    \/ \E w \in Writers, ms \in SUBSET Messages : EnqueueForChannels(w, ms)
    \/ \E d \in Drains : DrainStep(d)
    \/ \E m \in Messages : BackOffEnds(m) \/ PruneDeadLetters(m) \/ PruneLogs(m)
    \/ \E matched \in Matched : EraseCustomer(matched)

Spec == Init /\ [][Next]_vars

-----------------------------------------------------------------------------
\* The type invariant.
OutboxTypeOK ==
    /\ outbox \in [Messages -> OutboxRow]
    /\ logged \subseteq Messages
    /\ writer \in [Writers -> {"idle", "addressed"}]
    /\ drain \in [Drains -> DrainedRow]
    /\ erased \in BOOLEAN
    /\ delivered \in [Messages -> Nat]
    /\ failures \in [Messages -> 0..MaxFailures]
    /\ lostLogs \in [Messages -> 0..MaxLostLogs]
    /\ inFlight \subseteq Messages
    /\ touched \subseteq Messages

Holds(d, m) == drain[d].msg = m /\ drain[d].stage \notin {"idle", "listed"}

\* However many drains have a message in their batch, at most one is between
\* its claim and its last write, and meanwhile the row says PROCESSING.
OneSenderPerMessage ==
    \A d \in Drains, m \in Messages : Holds(d, m) =>
        /\ outbox[m].status = "PROCESSING"
        /\ \A e \in Drains : Holds(e, m) => e = d

\* A recipient gets a message a second time only when the log row of an
\* accepted send was lost: no overlap, kill or retry alone repeats one.
CopiesAreLostLogs == \A m \in Messages : delivered[m] <= 1 + lostLogs[m]

\* Stale counts only lose attempts: whatever overlaps, a message is given up
\* only after MAX_ATTEMPTS dispatches of it have failed.
NoEarlyDeadLetter ==
    \A m \in Messages :
        outbox[m].status = "DEAD_LETTER" => failures[m] >= MaxAttempts

\* After an erasure nothing is sent or logged but what was being sent or
\* enqueued while the customer was erased, or is addressed to a number the
\* profile stores in another form.
ErasureStopsTheRest == touched \subseteq inFlight

Queue == INSTANCE MailQueue WITH
    state <- [m \in Messages |->
        CASE outbox[m].status = "ABSENT" -> "none"
          [] m \in Waiting -> "waiting"
          [] outbox[m].status = "PROCESSING" ->
               IF \E d \in Drains : Holds(d, m) THEN "taken" ELSE "abandoned"
          [] OTHER -> "closed"],
    handed <- [m \in Messages |->
        \E d \in Drains : Holds(d, m) /\ drain[d].stage # "claimed"]

\* Rows, batches and drains implement the queue.
ImplementsMailQueue == Queue!Spec
=============================================================================
