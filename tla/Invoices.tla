------------------------------ MODULE Invoices ------------------------------
(***************************************************************************)
(* Invoices: at most one row per booking, numbered by the month, re-issued *)
(* under a new number after a void, its PDF stored at a path of the row.   *)
(*                                                                         *)
(*   generator: idle --(read booking)--> read --(lock, check, number)-->   *)
(*     reissuing -----------------------> uploaded --(update)--> idle      *)
(*     creating --(insert)--> inserted -> uploaded --(commit)--> idle      *)
(*   voider: None --(read row)--> the booking --(update)--> None           *)
(*                                                                         *)
(* A generator is a staff member's action or the call that follows a       *)
(* completed trip; both call generateInvoice once.  Amounts are left out:  *)
(* GST is in module FareRules.                                             *)
(***************************************************************************)
EXTENDS Naturals, FiniteSets, FiniteSetsExt

CONSTANTS
    Bookings,    \* the bookings that are invoiced
    Orgs,        \* organisations
    OrgOf,       \* the organisation of a booking
    Generators,  \* calls of generateInvoice
    Voiders,     \* calls of voidInvoice
    LastMonth,   \* bound: months 1..LastMonth
    LastNumber,  \* bound: numbers 1..LastNumber in a month
    Bypass,      \* the scope of a super admin, who sees every organisation
    None

ASSUME InvoicesAssumption ==
    /\ OrgOf \in [Bookings -> Orgs]
    /\ LastMonth \in Nat \ {0}
    /\ LastNumber \in Nat \ {0}
    /\ None \notin Bookings \cup Generators
    /\ Bypass \notin Orgs

VARIABLES
    invoice,    \* table Invoice, by booking
    pdf,        \* storage: the number on the PDF at the path of the row
    lock,       \* advisory locks: who holds the one of a month's prefix
    month,      \* the calendar month
    gen,        \* the generators
    voiding,    \* the voiders: the booking whose invoice they void
    billed,     \* history: the numbers that were committed for a booking
    late,       \* history: bookings invoiced under a month that was over
    straddled   \* history: bookings that generators of two months worked on

history == <<billed, late, straddled>>
vars == <<invoice, pdf, lock, month, gen, voiding, history>>

Months == 1..LastMonth
Numbers == [month : Months, seq : 1..LastNumber]

Row == [status : {"NONE", "ISSUED", "VOID"}, number : Numbers \cup {None},
        url : BOOLEAN]
NoRow == [status |-> "NONE", number |-> None, url |-> FALSE]

Generator ==
    [stage : {"idle", "read", "reissuing", "creating", "inserted", "uploaded"},
     booking : Bookings \cup {None}, scope : Orgs \cup {Bypass, None},
     since : 0..LastMonth, sawVoid : BOOLEAN, reissues : BOOLEAN, number : Numbers \cup {None}]
Idle == [stage |-> "idle", booking |-> None, scope |-> None,
         since |-> 0, sawVoid |-> FALSE, reissues |-> FALSE, number |-> None]

Init ==
    /\ invoice = [b \in Bookings |-> NoRow]
    /\ pdf = [b \in Bookings |-> None]
    /\ lock = [p \in Months |-> None]
    /\ month = 1
    /\ gen = [g \in Generators |-> Idle]
    /\ voiding = [v \in Voiders |-> None]
    /\ billed = [b \in Bookings |-> {}]
    /\ late = {}
    /\ straddled = {}

Active(b) == invoice[b].status = "ISSUED"
InTransaction(g) == gen[g].stage \notin {"idle", "read"}

\* The end of a generator's transaction frees its lock.
Leave(g) ==
    /\ gen' = [gen EXCEPT ![g] = Idle]
    /\ lock' = [p \in Months |-> IF lock[p] = g THEN None ELSE lock[p]]

MonthTurns ==
    /\ month < LastMonth
    /\ month' = month + 1
    /\ UNCHANGED <<invoice, pdf, lock, gen, voiding, history>>

-----------------------------------------------------------------------------
(* generateInvoice                                                         *)

\* The booking with its invoice, before the transaction: an active invoice is
\* a CONFLICT, a void one is remembered.
ReadBooking(g, b, scope) ==
    /\ gen[g].stage = "idle"
    /\ scope \in {OrgOf[b], Bypass}
    /\ ~Active(b)
    /\ gen' = [gen EXCEPT ![g] =
         [Idle EXCEPT !.stage = "read", !.booking = b, !.scope = scope, !.since = month,
                      !.sawVoid = (invoice[b].status = "VOID")]]
    /\ UNCHANGED <<invoice, pdf, lock, month, voiding, history>>

\* The tenant filter is on the query for the latest number as on any other.
Visible(scope) ==
    {b \in Bookings : /\ invoice[b].status # "NONE"
                      /\ scope \in {Bypass, OrgOf[b]}}
Sequences(scope, p) ==
    {invoice[b].number.seq : b \in {c \in Visible(scope) :
                                      invoice[c].number.month = p}}

\* Wrong variant: gaps are filled.
FirstFreeNumber(scope, p) ==
    [month |-> p, seq |-> Min((1..(LastNumber + 1)) \ Sequences(scope, p))]

\* Wrong variant: the latest number is used again.
LatestNumber(scope, p) ==
    [month |-> p, seq |-> Max(Sequences(scope, p) \cup {0})]

NextNumber(scope, p) ==
    [month |-> p, seq |-> Max(Sequences(scope, p) \cup {0}) + 1]

\* Wrong variant: the row chosen before the lock is not looked at again.
ReissuableAsRead(g) == gen[g].sawVoid

Reissuable(g) ==
    gen[g].sawVoid /\ invoice[gen[g].booking].status = "VOID"

\* BEGIN, the prefix p of the month it is, the wait for the lock on that prefix
\* while the month may turn, the second look at the booking's invoice and the
\* number.
LockAndNumber(g, p) ==
    LET b == gen[g].booking
        number == NextNumber(gen[g].scope, p)
    IN  /\ gen[g].stage = "read"
        /\ p \in gen[g].since..month
        /\ lock[p] = None
        /\ IF Active(b) /\ ~Reissuable(g)
           THEN Leave(g) /\ UNCHANGED straddled
           ELSE /\ number.seq <= LastNumber
                /\ lock' = [lock EXCEPT ![p] = g]
                /\ gen' = [gen EXCEPT ![g] =
                     [Idle EXCEPT
                        !.stage = IF Reissuable(g) THEN "reissuing"
                                                   ELSE "creating",
                        !.booking = b, !.number = number,
                        !.reissues = Reissuable(g)]]
                /\ straddled' =
                     IF \E h \in Generators : InTransaction(h) /\ gen[h].booking = b
                     THEN straddled \cup {b} ELSE straddled
        /\ UNCHANGED <<invoice, pdf, month, voiding, billed, late>>

\* The unique constraints of bookingId and number.
NumberTaken(g) == \E b \in Bookings \ {gen[g].booking} :
                     invoice[b].number = gen[g].number

\* INSERT; it waits for a transaction that has inserted the same key.
InsertRow(g) ==
    /\ gen[g].stage = "creating"
    /\ \A h \in Generators :
         gen[h].stage \in {"inserted", "uploaded"} /\ ~gen[h].reissues =>
             /\ gen[h].booking # gen[g].booking
             /\ gen[h].number # gen[g].number
    /\ IF invoice[gen[g].booking].status # "NONE" \/ NumberTaken(g)
       THEN Leave(g)
       ELSE /\ gen' = [gen EXCEPT ![g].stage = "inserted"]
            /\ UNCHANGED lock
    /\ UNCHANGED <<invoice, pdf, month, voiding, history>>

\* The PDF replaces the one at the row's path at once, whatever becomes of
\* the transaction.
UploadPdf(g) ==
    /\ gen[g].stage \in {"reissuing", "inserted"}
    /\ pdf' = [pdf EXCEPT ![gen[g].booking] = gen[g].number]
    /\ gen' = [gen EXCEPT ![g].stage = "uploaded"]
    /\ UNCHANGED <<invoice, lock, month, voiding, history>>

\* The row and its audit row.  A re-issue updates WHERE id alone.
CommitInvoice(g) ==
    LET b == gen[g].booking IN
    /\ gen[g].stage = "uploaded"
    /\ IF NumberTaken(g)
       THEN UNCHANGED <<invoice, billed, late>>
       ELSE /\ invoice' = [invoice EXCEPT ![b] =
                 [status |-> "ISSUED", number |-> gen[g].number, url |-> TRUE]]
            /\ billed' = [billed EXCEPT ![b] = @ \cup {gen[g].number}]
            /\ late' = IF gen[g].number.month < month THEN late \cup {b} ELSE late
    /\ Leave(g)
    /\ UNCHANGED <<pdf, month, voiding, straddled>>

\* The upload or the rendering fails, or the process dies: a rollback.
GenerationFails(g) ==
    /\ gen[g].stage # "idle"
    /\ Leave(g)
    /\ UNCHANGED <<invoice, pdf, month, voiding, history>>

-----------------------------------------------------------------------------
(* voidInvoice                                                             *)

ReadInvoice(v, b) ==
    /\ voiding[v] = None
    /\ invoice[b].status # "NONE"
    /\ voiding' = [voiding EXCEPT ![v] = b]
    /\ UNCHANGED <<invoice, pdf, lock, month, gen, history>>

\* WHERE id alone, whatever the row has become.
CommitVoid(v) ==
    /\ voiding[v] # None
    /\ invoice' = [invoice EXCEPT ![voiding[v]].status = "VOID",
                                  ![voiding[v]].url = FALSE]
    /\ voiding' = [voiding EXCEPT ![v] = None]
    /\ UNCHANGED <<pdf, lock, month, gen, history>>

-----------------------------------------------------------------------------
Next ==
    \/ MonthTurns
    \/ \E g \in Generators :
         \/ \E b \in Bookings, scope \in Orgs \cup {Bypass} :
              ReadBooking(g, b, scope)
         \/ \E p \in Months : LockAndNumber(g, p)
         \/ InsertRow(g)
         \/ UploadPdf(g)
         \/ CommitInvoice(g)
         \/ GenerationFails(g)
    \/ \E v \in Voiders :
         \/ \E b \in Bookings : ReadInvoice(v, b)
         \/ CommitVoid(v)

Spec == Init /\ [][Next]_vars

-----------------------------------------------------------------------------
\* The type invariant.
InvoicesTypeOK ==
    /\ invoice \in [Bookings -> Row]
    /\ pdf \in [Bookings -> Numbers \cup {None}]
    /\ lock \in [Months -> Generators \cup {None}]
    /\ month \in Months
    /\ gen \in [Generators -> Generator]
    /\ voiding \in [Voiders -> Bookings \cup {None}]
    /\ billed \in [Bookings -> SUBSET Numbers]
    /\ late \subseteq Bookings
    /\ straddled \subseteq Bookings

\* A number an organisation ever gave out bills one of its bookings for good,
\* although a re-issue frees the row's old number: the exception is a booking
\* with a generation that commits after its month is over, which may overtake a
\* re-issue of the new month, or come after one that freed the highest number.
NumbersBillOneBooking ==
    \A b, c \in Bookings \ late :
        b # c /\ OrgOf[b] = OrgOf[c] => billed[b] \cap billed[c] = {}

\* mintInvoiceDownloadUrl
Downloadable(b) == Active(b) /\ invoice[b].url

\* What a customer downloads is the invoice that counts, although the stored
\* PDF is replaced outside the transaction: the exception is a booking that
\* generations of two months, which take different locks, work on at once.
StoredPdfIsTheInvoice ==
    \A b \in Bookings \ straddled :
        Downloadable(b) => pdf[b] = invoice[b].number
=============================================================================
