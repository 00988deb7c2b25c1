-------------------------- MODULE Invoices_proofs ---------------------------
(***************************************************************************)
(* Proofs about Invoices, for any bookings, organisations, generators and  *)
(* voiders: its type invariant, that a number bills one booking, and that  *)
(* the stored PDF is the invoice.                                          *)
(***************************************************************************)
EXTENDS Invoices, FiniteSetTheorems, WellFoundedInduction, TLAPS

Works(g, b) == InTransaction(g) /\ gen[g].booking = b

\* A generator's transaction holds the lock of its number's month, and a
\* generator has a booking that its scope covers.
GeneratorsFit ==
    \A g \in Generators : gen[g].stage # "idle" =>
        /\ gen[g].booking \in Bookings
        /\ gen[g].stage = "read" => gen[g].scope \in {OrgOf[gen[g].booking], Bypass}
        /\ InTransaction(g) =>
             /\ gen[g].number \in Numbers
             /\ gen[g].number.month <= month
             /\ lock[gen[g].number.month] = g

\* Rows are numbered, and voiders work on rows.
RowsFit ==
    /\ \A b \in Bookings : invoice[b].status # "NONE" =>
         /\ invoice[b].number \in Numbers
         /\ invoice[b].number.month <= month
    /\ \A v \in Voiders : voiding[v] # None => invoice[voiding[v]].status # "NONE"

\* A row has the last number of its booking, unless a number came too late.
LastNumberStays ==
    \A b \in Bookings \ late : \A n \in billed[b] :
        /\ invoice[b].status # "NONE"
        /\ n.month <= invoice[b].number.month
        /\ n.month = invoice[b].number.month => n.seq <= invoice[b].number.seq

\* While a transaction is open its number is above those of its month and
\* organisation.
NumbersAreNew ==
    \A g \in Generators : InTransaction(g) =>
        \A b \in Bookings :
            /\ OrgOf[b] = OrgOf[gen[g].booking]
            /\ invoice[b].status # "NONE"
            /\ invoice[b].number.month = gen[g].number.month
            => invoice[b].number.seq < gen[g].number.seq

\* Two transactions on a booking are recorded.
TwoAreRecorded ==
    \A g, h \in Generators : \A b \in Bookings :
        g # h /\ Works(g, b) /\ Works(h, b) => b \in straddled

\* The only transaction on a booking has it to itself.
OneHasItAll ==
    \A g \in Generators : \A b \in Bookings \ straddled : Works(g, b) =>
        /\ gen[g].stage \in {"reissuing", "inserted", "uploaded"} => ~Active(b)
        /\ gen[g].stage = "uploaded" => pdf[b] = gen[g].number

VInv ==
    /\ InvoicesTypeOK
    /\ GeneratorsFit
    /\ RowsFit
    /\ LastNumberStays
    /\ NumbersAreNew
    /\ NumbersBillOneBooking
    /\ TwoAreRecorded
    /\ OneHasItAll
    /\ StoredPdfIsTheInvoice

-----------------------------------------------------------------------------
(* The latest number of a month.                                           *)

\* A finite set of numbers has a greatest: the x with the fewest above it.
LEMMA MaxIs ==
    ASSUME NEW S, IsFiniteSet(S), S \subseteq Nat, S # {}
    PROVE  Max(S) \in S /\ \A x \in S : x <= Max(S)
<1> DEFINE Above(x) == {y \in S : y > x}
           Bad == {Above(x) : x \in S}
<1>1. IsWellFoundedOn(StrictSubsetOrdering(S), SUBSET S)
  <2>1. SUBSET S = FiniteSubsetsOf(S)
    BY FS_Subset DEF FiniteSubsetsOf
  <2> QED
    BY <2>1, FS_StrictSubsetOrderingWellFounded
<1>2. Bad \subseteq SUBSET S /\ Bad # {}
  OBVIOUS
<1>3. PICK s \in Bad : \A t \in Bad : ~ (<<t, s>> \in StrictSubsetOrdering(S))
  <2> HIDE DEF Bad
  <2> QED
    BY <1>1, <1>2, WFMin
<1>4. PICK x \in S : s = Above(x)
  OBVIOUS
<1>5. Above(x) = {}
  <2>1. SUFFICES ASSUME NEW y \in Above(x) PROVE FALSE
    OBVIOUS
  <2>2. y \in S /\ y > x /\ x \in Nat /\ y \in Nat
    OBVIOUS
  <2>3. Above(y) \subseteq Above(x) /\ y \notin Above(y)
    <3>1. ASSUME NEW z \in Above(y)
          PROVE  z \in Above(x)
      <4>1. z \in S /\ z > y /\ z \in Nat
        OBVIOUS
      <4>2. z > x
        BY <2>2, <4>1
      <4> QED
        BY <4>1, <4>2
    <3>2. ~ y > y
      BY <2>2
    <3> QED
      BY <3>1, <3>2
  <2>4. Above(y) \in Bad
    BY <2>2
  <2>5. <<Above(y), Above(x)>> \in StrictSubsetOrdering(S)
    BY <2>1, <2>3 DEF StrictSubsetOrdering
  <2> QED
    BY <1>3, <1>4, <2>4, <2>5
<1>6. \A y \in S : x >= y
  BY <1>5
<1>7. Max(S) \in S /\ \A y \in S : Max(S) >= y
  BY <1>6 DEF Max
<1> QED
  BY <1>7

\* The next number is above those of its month that the scope sees.
LEMMA NextNumberIsNew ==
    ASSUME InvoicesTypeOK, RowsFit, NEW scope, NEW p \in Months
    PROVE  LET n == NextNumber(scope, p) IN
           /\ n = [month |-> p, seq |-> n.seq]
           /\ n.seq \in Nat \ {0}
           /\ \A b \in Visible(scope) : invoice[b].number.month = p =>
                invoice[b].number.seq < n.seq
<1> DEFINE S == Sequences(scope, p) \cup {0}
<1>1. \A b \in Visible(scope) :
        invoice[b].number \in Numbers /\ invoice[b].number.seq \in 1..LastNumber
  BY DEF Visible, RowsFit, Numbers
<1>2. Sequences(scope, p) \subseteq 1..LastNumber
  BY <1>1 DEF Sequences
<1>3. IsFiniteSet(S)
  <2>1. IsFiniteSet(1..LastNumber)
    BY InvoicesAssumption, FS_Interval
  <2>2. IsFiniteSet(Sequences(scope, p))
    BY <1>2, <2>1, FS_Subset
  <2> QED
    BY <2>2, FS_AddElement
<1>4. S \subseteq Nat /\ S # {}
  BY <1>2, InvoicesAssumption
<1>5. Max(S) \in S /\ \A x \in S : x <= Max(S)
  <2> HIDE DEF S
  <2> QED
    BY <1>3, <1>4, MaxIs
<1>6. \A b \in Visible(scope) : invoice[b].number.month = p =>
        invoice[b].number.seq \in S
  BY DEF Sequences
<1>7. NextNumber(scope, p) = [month |-> p, seq |-> Max(S) + 1]
  BY DEF NextNumber
<1>8. Max(S) \in Nat
  BY <1>4, <1>5
<1> HIDE DEF S
<1>9. \A b \in Visible(scope) : invoice[b].number.month = p =>
        invoice[b].number.seq < Max(S) + 1
  BY <1>1, <1>5, <1>6, <1>8, InvoicesAssumption
<1> QED
  BY <1>7, <1>8, <1>9

-----------------------------------------------------------------------------
(* Every step keeps the invariant.                                         *)

\* The end of a transaction: the generator is idle, the lock is free.
LEMMA LeaveKeeps ==
    ASSUME VInv, NEW g \in Generators, Leave(g),
           UNCHANGED <<invoice, pdf, month, voiding, history>>
    PROVE  VInv'
<1>1. /\ gen' \in [Generators -> Generator]
      /\ gen'[g].stage = "idle"
      /\ \A h \in Generators : h # g => gen'[h] = gen[h]
  BY InvoicesAssumption DEF Leave, Idle, Generator, VInv, InvoicesTypeOK
<1>2. /\ lock' \in [Months -> Generators \cup {None}]
      /\ \A p \in Months, h \in Generators : h # g /\ lock[p] = h => lock'[p] = h
  BY DEF Leave, VInv, InvoicesTypeOK
<1>3. \A h \in Generators : InTransaction(h)' <=> h # g /\ InTransaction(h)
  BY <1>1 DEF InTransaction
<1>4. InvoicesTypeOK'
  BY <1>1, <1>2 DEF VInv, InvoicesTypeOK, history
<1>5. GeneratorsFit'
  BY <1>1, <1>2, <1>3 DEF VInv, GeneratorsFit, Numbers
<1>6. (RowsFit /\ LastNumberStays /\ NumbersBillOneBooking)'
  BY DEF VInv, RowsFit, LastNumberStays, NumbersBillOneBooking, history
<1>7. NumbersAreNew'
  BY <1>1, <1>3 DEF VInv, NumbersAreNew
<1>8. (TwoAreRecorded /\ OneHasItAll /\ StoredPdfIsTheInvoice)'
  BY <1>1, <1>3 DEF VInv, TwoAreRecorded, OneHasItAll, StoredPdfIsTheInvoice,
     Works, Active, Downloadable, history
<1> QED
  BY <1>4, <1>5, <1>6, <1>7, <1>8 DEF VInv

\* A month that is over has the lock it had.
LEMMA MonthTurnsKeeps ==
    ASSUME VInv, MonthTurns
    PROVE  VInv'
<1>1. InvoicesTypeOK'
  BY InvoicesAssumption DEF VInv, MonthTurns, InvoicesTypeOK, Months, history
<1>2. GeneratorsFit' /\ RowsFit'
  <2>1. month \in Nat /\ \A n \in Numbers : n.month \in Nat
    BY InvoicesAssumption DEF VInv, InvoicesTypeOK, Months, Numbers
  <2> QED
    BY <2>1 DEF VInv, MonthTurns, GeneratorsFit, RowsFit, InTransaction
<1>3. (LastNumberStays /\ NumbersAreNew /\ NumbersBillOneBooking)'
  BY DEF VInv, MonthTurns, LastNumberStays, NumbersAreNew,
     NumbersBillOneBooking, InTransaction, history
<1>4. (TwoAreRecorded /\ OneHasItAll /\ StoredPdfIsTheInvoice)'
  BY DEF VInv, MonthTurns, TwoAreRecorded, OneHasItAll, StoredPdfIsTheInvoice,
     Works, InTransaction, Active, Downloadable, history
<1> QED
  BY <1>1, <1>2, <1>3, <1>4 DEF VInv

\* A read opens no transaction.
LEMMA ReadBookingKeeps ==
    ASSUME VInv, NEW g \in Generators, NEW b \in Bookings,
           NEW scope \in Orgs \cup {Bypass}, ReadBooking(g, b, scope)
    PROVE  VInv'
<1> DEFINE new == [Idle EXCEPT !.stage = "read", !.booking = b, !.scope = scope,
                               !.since = month,
                               !.sawVoid = (invoice[b].status = "VOID")]
<1>0. month \in 0..LastMonth
  BY InvoicesAssumption DEF VInv, InvoicesTypeOK, Months
<1>1. new \in Generator /\ new.stage = "read" /\ new.booking = b /\ new.scope = scope
  BY <1>0, InvoicesAssumption DEF Idle, Generator
<1>2. gen' = [gen EXCEPT ![g] = new] /\ scope \in {OrgOf[b], Bypass}
  BY DEF ReadBooking
<1> HIDE DEF new
<1>3. /\ gen' \in [Generators -> Generator] /\ gen'[g] = new
      /\ \A h \in Generators : h # g => gen'[h] = gen[h]
  BY <1>1, <1>2 DEF VInv, InvoicesTypeOK
<1>4. \A h \in Generators : InTransaction(h)' <=> h # g /\ InTransaction(h)
  BY <1>1, <1>3 DEF ReadBooking, InTransaction
<1>5. InvoicesTypeOK'
  BY <1>3 DEF VInv, ReadBooking, InvoicesTypeOK, history
<1>6. GeneratorsFit'
  BY <1>1, <1>2, <1>3, <1>4 DEF VInv, ReadBooking, GeneratorsFit
<1>7. (RowsFit /\ LastNumberStays /\ NumbersBillOneBooking)'
  BY DEF VInv, ReadBooking, RowsFit, LastNumberStays, NumbersBillOneBooking,
     history
<1>8. NumbersAreNew'
  BY <1>3, <1>4 DEF VInv, ReadBooking, NumbersAreNew
<1>9. (TwoAreRecorded /\ OneHasItAll /\ StoredPdfIsTheInvoice)'
  BY <1>3, <1>4 DEF VInv, ReadBooking, TwoAreRecorded, OneHasItAll,
     StoredPdfIsTheInvoice, Works, Active, Downloadable, history
<1> QED
  BY <1>5, <1>6, <1>7, <1>8, <1>9 DEF VInv

\* What BEGIN, the lock and the second look have made of a generator: its
\* number is the next of the month for every organisation it may be of.
LEMMA NumberedEffect ==
    ASSUME VInv, NEW g \in Generators, NEW p \in Months, NEW b \in Bookings,
           gen[g].booking = b,
           LockAndNumber(g, p), ~(Active(b) /\ ~Reissuable(g))
    PROVE  /\ p <= month /\ lock[p] = None /\ gen[g].stage = "read"
           /\ lock' = [lock EXCEPT ![p] = g]
           /\ gen' \in [Generators -> Generator]
           /\ \A h \in Generators : h # g => gen'[h] = gen[h]
           /\ gen'[g].stage \in {"reissuing", "creating"}
           /\ gen'[g].stage = "reissuing" => invoice[b].status = "VOID"
           /\ gen'[g].booking = b
           /\ gen'[g].number \in Numbers
           /\ gen'[g].number.month = p
           /\ \A c \in Bookings :
                /\ OrgOf[c] = OrgOf[b]
                /\ invoice[c].status # "NONE"
                /\ invoice[c].number.month = p
                => invoice[c].number.seq < gen'[g].number.seq
<1> DEFINE number == NextNumber(gen[g].scope, p)
           new == [Idle EXCEPT
                     !.stage = IF Reissuable(g) THEN "reissuing" ELSE "creating",
                     !.booking = b, !.number = number, !.reissues = Reissuable(g)]
<1>1. /\ p \in gen[g].since..month /\ lock[p] = None /\ gen[g].stage = "read"
      /\ number.seq <= LastNumber
      /\ lock' = [lock EXCEPT ![p] = g]
      /\ gen' = [gen EXCEPT ![g] = new]
  BY DEF LockAndNumber
<1>2. /\ number = [month |-> p, seq |-> number.seq]
      /\ number.seq \in Nat \ {0}
      /\ \A c \in Visible(gen[g].scope) : invoice[c].number.month = p =>
           invoice[c].number.seq < number.seq
  BY NextNumberIsNew DEF VInv, InvoicesTypeOK
<1>3. number \in Numbers /\ number.month = p
  <2> HIDE DEF number
  <2>1. number.seq \in 1..LastNumber
    BY <1>1, <1>2, InvoicesAssumption DEF VInv, InvoicesTypeOK
  <2> QED
    BY <1>2, <2>1 DEF Numbers
<1>4. gen[g].scope \in {OrgOf[b], Bypass}
  BY <1>1 DEF VInv, GeneratorsFit
<1>9. p <= month
  <2>1. gen[g] \in Generator
    BY DEF VInv, InvoicesTypeOK
  <2>2. gen[g].since \in Nat /\ month \in Nat /\ p \in Nat
    BY <2>1, InvoicesAssumption DEF VInv, InvoicesTypeOK, Generator, Months
  <2> QED
    BY <1>1, <2>2
<1> HIDE DEF number
<1>5. Reissuable(g) \in BOOLEAN /\ (Reissuable(g) => invoice[b].status = "VOID")
  BY DEF Reissuable, VInv, InvoicesTypeOK, Generator
<1>6. /\ new \in Generator /\ new.booking = b /\ new.number = number
      /\ new.stage \in {"reissuing", "creating"}
      /\ new.stage = "reissuing" => invoice[b].status = "VOID"
  <2>1. Reissuable(g) => invoice[b].status = "VOID"
    BY <1>5
  <2>2. 0 \in 0..LastMonth
    BY InvoicesAssumption
  <2>3. Idle \in Generator
    BY <2>2 DEF Idle, Generator
  <2> QED
    BY <1>3, <1>5, <2>1, <2>3 DEF Generator
<1> HIDE DEF new
<1>7. /\ gen' \in [Generators -> Generator] /\ gen'[g] = new
      /\ \A h \in Generators : h # g => gen'[h] = gen[h]
  BY <1>1, <1>6 DEF VInv, InvoicesTypeOK
<1>8. \A c \in Bookings : OrgOf[c] = OrgOf[b] /\ invoice[c].status # "NONE" =>
        c \in Visible(gen[g].scope)
  BY <1>4 DEF Visible
<1> QED
  BY <1>1, <1>2, <1>3, <1>6, <1>7, <1>8, <1>9

\* The generator that has the lock has the latest number of its month.
LEMMA LockAndNumberKeeps ==
    ASSUME VInv, NEW g \in Generators, NEW p \in Months, LockAndNumber(g, p)
    PROVE  VInv'
<1>1. PICK b \in Bookings : gen[g].booking = b
  BY DEF LockAndNumber, VInv, GeneratorsFit
<1>2. UNCHANGED <<invoice, pdf, month, voiding, billed, late>>
  BY DEF LockAndNumber
<1>3. CASE Active(b) /\ ~Reissuable(g)
  <2>1. Leave(g) /\ UNCHANGED straddled
    BY <1>1, <1>3 DEF LockAndNumber
  <2> QED
    BY <1>2, <2>1, LeaveKeeps DEF history
<1>4. CASE ~(Active(b) /\ ~Reissuable(g))
  <2>1. /\ p <= month /\ lock[p] = None /\ gen[g].stage = "read"
        /\ lock' = [lock EXCEPT ![p] = g]
        /\ gen' \in [Generators -> Generator]
        /\ \A h \in Generators : h # g => gen'[h] = gen[h]
        /\ gen'[g].stage \in {"reissuing", "creating"}
        /\ gen'[g].stage = "reissuing" => invoice[b].status = "VOID"
        /\ gen'[g].booking = b
        /\ gen'[g].number \in Numbers
        /\ gen'[g].number.month = p
        /\ \A c \in Bookings :
             /\ OrgOf[c] = OrgOf[b]
             /\ invoice[c].status # "NONE"
             /\ invoice[c].number.month = p
             => invoice[c].number.seq < gen'[g].number.seq
    BY <1>1, <1>4, NumberedEffect
  <2>2. /\ straddled \subseteq straddled' /\ straddled' \subseteq straddled \cup {b}
        /\ (\E h \in Generators : InTransaction(h) /\ gen[h].booking = b) =>
             b \in straddled'
    BY <1>1, <1>4 DEF LockAndNumber
  <2>3. /\ InTransaction(g)' /\ ~InTransaction(g)
        /\ \A h \in Generators : h # g => (InTransaction(h)' <=> InTransaction(h))
    BY <2>1 DEF InTransaction
  <2>4. InvoicesTypeOK'
    BY <1>2, <2>1, <2>2 DEF VInv, InvoicesTypeOK
  <2>5. GeneratorsFit'
    <3>1. p \in Nat /\ month \in Nat /\ p <= month
      BY <2>1, InvoicesAssumption DEF VInv, InvoicesTypeOK, Months
    <3>2. \A q \in Months : lock'[q] = (IF q = p THEN g ELSE lock[q])
      BY <2>1 DEF VInv, InvoicesTypeOK
    <3>3. \A h \in Generators : InTransaction(h) /\ h # g =>
            gen[h].number.month # p
      BY <2>1, InvoicesAssumption DEF VInv, GeneratorsFit, InTransaction
    <3> QED
      BY <1>2, <2>1, <2>3, <3>1, <3>2, <3>3 DEF VInv, GeneratorsFit, Numbers
  <2>6. (RowsFit /\ LastNumberStays /\ NumbersBillOneBooking)'
    BY <1>2 DEF VInv, RowsFit, LastNumberStays, NumbersBillOneBooking
  <2>7. NumbersAreNew'
    BY <1>2, <2>1, <2>3 DEF VInv, NumbersAreNew
  <2>8. TwoAreRecorded'
    BY <2>1, <2>2, <2>3 DEF VInv, TwoAreRecorded, Works
  <2>9. (OneHasItAll /\ StoredPdfIsTheInvoice)'
    BY <1>2, <2>1, <2>2, <2>3 DEF VInv, OneHasItAll, StoredPdfIsTheInvoice,
       Works, Active, Downloadable
  <2> QED
    BY <2>4, <2>5, <2>6, <2>7, <2>8, <2>9 DEF VInv
<1> QED
  BY <1>3, <1>4

\* A transaction goes on: the only one on its booking still has it to itself.
LEMMA GoesOnKeeps ==
    ASSUME VInv, NEW g \in Generators, NEW b \in Bookings, Works(g, b),
           NEW s \in {"inserted", "uploaded"},
           gen' = [gen EXCEPT ![g].stage = s],
           pdf' \in [Bookings -> Numbers \cup {None}],
           \A c \in Bookings : c # b => pdf'[c] = pdf[c],
           s = "uploaded" => pdf'[b] = gen[g].number,
           b \in straddled \/ ~Active(b),
           UNCHANGED <<invoice, lock, month, voiding, history>>
    PROVE  VInv'
<1>1. /\ gen' \in [Generators -> Generator]
      /\ \A h \in Generators : h # g => gen'[h] = gen[h]
      /\ gen'[g].stage = s /\ gen'[g].booking = b /\ gen'[g].number = gen[g].number
  <2>1. gen[g] \in Generator /\ gen[g].booking = b
    BY DEF VInv, InvoicesTypeOK, Works
  <2>2. [gen[g] EXCEPT !.stage = s] \in Generator
    BY <2>1 DEF Generator
  <2>3. gen' = [gen EXCEPT ![g] = [gen[g] EXCEPT !.stage = s]]
    OBVIOUS
  <2> QED
    BY <2>1, <2>2, <2>3 DEF VInv, InvoicesTypeOK, Generator
<1>2. /\ \A h \in Generators : InTransaction(h)' <=> InTransaction(h)
      /\ \A h \in Generators : \A c \in Bookings : Works(h, c)' <=> Works(h, c)
  BY <1>1 DEF Works, InTransaction
<1>3. InvoicesTypeOK'
  BY <1>1 DEF VInv, InvoicesTypeOK, history
<1>4. GeneratorsFit'
  BY <1>1, <1>2 DEF VInv, GeneratorsFit, Works, InTransaction
<1>5. (RowsFit /\ LastNumberStays /\ NumbersBillOneBooking)'
  BY DEF VInv, RowsFit, LastNumberStays, NumbersBillOneBooking, history
<1>6. NumbersAreNew'
  BY <1>1, <1>2 DEF VInv, NumbersAreNew, Works
<1>7. TwoAreRecorded'
  BY <1>2 DEF VInv, TwoAreRecorded, history
<1>8. OneHasItAll'
  <2>1. SUFFICES ASSUME NEW h \in Generators, NEW c \in Bookings \ straddled,
                        Works(h, c)
                 PROVE  /\ gen'[h].stage \in {"reissuing", "inserted", "uploaded"}
                             => ~Active(c)
                        /\ gen'[h].stage = "uploaded" => pdf'[c] = gen'[h].number
    BY <1>2 DEF OneHasItAll, Active, history
  <2>2. CASE h = g
    BY <1>1, <2>1, <2>2 DEF Works
  <2>3. CASE h # g
    <3>1. c # b
      BY <2>1, <2>3 DEF VInv, TwoAreRecorded
    <3> QED
      BY <1>1, <2>1, <2>3, <3>1 DEF VInv, OneHasItAll
  <2> QED
    BY <2>2, <2>3
<1>9. StoredPdfIsTheInvoice'
  BY DEF VInv, StoredPdfIsTheInvoice, Downloadable, Active, history
<1> QED
  BY <1>3, <1>4, <1>5, <1>6, <1>7, <1>8, <1>9 DEF VInv

\* A booking that is billed for the first time has no active invoice.
LEMMA InsertRowKeeps ==
    ASSUME VInv, NEW g \in Generators, InsertRow(g)
    PROVE  VInv'
<1>1. PICK b \in Bookings : Works(g, b)
  BY DEF InsertRow, InTransaction, Works, VInv, GeneratorsFit
<1>2. CASE invoice[b].status # "NONE" \/ NumberTaken(g)
  BY <1>1, <1>2, LeaveKeeps DEF InsertRow, Works
<1>3. CASE ~(invoice[b].status # "NONE" \/ NumberTaken(g))
  <2>1. /\ gen' = [gen EXCEPT ![g].stage = "inserted"]
        /\ UNCHANGED <<invoice, pdf, lock, month, voiding, history>>
        /\ pdf \in [Bookings -> Numbers \cup {None}]
        /\ ~Active(b)
    BY <1>1, <1>3 DEF InsertRow, Works, Active, VInv, InvoicesTypeOK
  <2> QED
    BY <1>1, <2>1, GoesOnKeeps
<1> QED
  BY <1>2, <1>3

\* The document that is replaced is not that of an active invoice.
LEMMA UploadPdfKeeps ==
    ASSUME VInv, NEW g \in Generators, UploadPdf(g)
    PROVE  VInv'
<1>1. PICK b \in Bookings : Works(g, b)
  BY DEF UploadPdf, InTransaction, Works, VInv, GeneratorsFit
<1>2. gen[g].number \in Numbers
  BY <1>1 DEF Works, VInv, GeneratorsFit, InTransaction
<1>3. b \in straddled \/ ~Active(b)
  BY <1>1 DEF UploadPdf, VInv, OneHasItAll
<1>4. /\ pdf' = [pdf EXCEPT ![b] = gen[g].number]
      /\ gen' = [gen EXCEPT ![g].stage = "uploaded"]
      /\ UNCHANGED <<invoice, lock, month, voiding, history>>
  BY <1>1 DEF UploadPdf, Works
<1>5. /\ pdf' \in [Bookings -> Numbers \cup {None}]
      /\ pdf'[b] = gen[g].number
      /\ \A c \in Bookings : c # b => pdf'[c] = pdf[c]
  BY <1>2, <1>4 DEF VInv, InvoicesTypeOK
<1> QED
  BY <1>1, <1>3, <1>4, <1>5, GoesOnKeeps

\* The number that is committed is above all of its month and organisation, and
\* so is its month, unless it comes too late.
LEMMA CommitInvoiceKeeps ==
    ASSUME VInv, NEW g \in Generators, CommitInvoice(g)
    PROVE  VInv'
<1>1. PICK b \in Bookings : Works(g, b)
  BY DEF CommitInvoice, InTransaction, Works, VInv, GeneratorsFit
<1>2. CASE NumberTaken(g)
  BY <1>2, LeaveKeeps DEF CommitInvoice, history
<1>3. CASE ~NumberTaken(g)
  <2> DEFINE n == gen[g].number
  <2>1. /\ n \in Numbers /\ n.month <= month /\ lock[n.month] = g
        /\ gen[g].stage = "uploaded" /\ gen[g].booking = b
        /\ b \notin straddled => pdf[b] = n
    BY <1>1 DEF Works, VInv, GeneratorsFit, OneHasItAll, CommitInvoice
  <2>2. /\ Leave(g)
        /\ invoice' = [invoice EXCEPT ![b] =
                         [status |-> "ISSUED", number |-> n, url |-> TRUE]]
        /\ billed' = [billed EXCEPT ![b] = billed[b] \cup {n}]
        /\ late' = IF n.month < month THEN late \cup {b} ELSE late
        /\ UNCHANGED <<pdf, month, voiding, straddled>>
    BY <1>3, <2>1 DEF CommitInvoice
  <2>3. /\ gen' \in [Generators -> Generator]
        /\ gen'[g].stage = "idle"
        /\ \A h \in Generators : h # g => gen'[h] = gen[h]
    BY <2>2, InvoicesAssumption DEF Leave, Idle, Generator, VInv, InvoicesTypeOK
  <2>4. /\ lock' \in [Months -> Generators \cup {None}]
        /\ \A p \in Months, h \in Generators : h # g /\ lock[p] = h => lock'[p] = h
    BY <2>2 DEF Leave, VInv, InvoicesTypeOK
  <2>5. /\ \A h \in Generators : InTransaction(h)' <=> h # g /\ InTransaction(h)
        /\ \A h \in Generators, c \in Bookings :
             Works(h, c)' <=> h # g /\ Works(h, c)
    BY <2>3 DEF InTransaction, Works
  <2>6. /\ invoice' \in [Bookings -> Row]
        /\ invoice'[b].status = "ISSUED" /\ invoice'[b].number = n
        /\ \A c \in Bookings : c # b => invoice'[c] = invoice[c]
        /\ billed' \in [Bookings -> SUBSET Numbers]
        /\ billed'[b] = billed[b] \cup {n}
        /\ \A c \in Bookings : c # b => billed'[c] = billed[c]
    <3>1. [status |-> "ISSUED", number |-> n, url |-> TRUE] \in Row
      BY <2>1 DEF Row
    <3> QED
      BY <2>1, <2>2, <3>1 DEF VInv, InvoicesTypeOK
  <2>7. n.month \in Nat /\ n.seq \in Nat /\ month \in Nat
    BY <2>1, InvoicesAssumption DEF VInv, InvoicesTypeOK, Numbers, Months
  <2> HIDE DEF n
  <2>8. \A c \in Bookings : invoice[c].status # "NONE" =>
          /\ invoice[c].number.month \in Nat /\ invoice[c].number.seq \in Nat
          /\ invoice[c].number.month <= month
    BY InvoicesAssumption DEF VInv, RowsFit, Numbers, Months
  <2>9. \A c \in Bookings : \A m \in billed[c] : m.month \in Nat /\ m.seq \in Nat
    BY InvoicesAssumption DEF VInv, InvoicesTypeOK, Numbers, Months
  \* What is billed to the organisation and not late comes before n.
  <2>10. \A c \in Bookings \ late : OrgOf[c] = OrgOf[b] /\ b \notin late' =>
           \A m \in billed[c] : /\ m.month <= n.month
                                /\ m.month = n.month => m.seq < n.seq
    <3>1. SUFFICES ASSUME NEW c \in Bookings \ late, NEW m \in billed[c],
                          OrgOf[c] = OrgOf[b], b \notin late'
                   PROVE  m.month <= n.month /\ (m.month = n.month => m.seq < n.seq)
      OBVIOUS
    <3>2. n.month = month
      BY <2>1, <2>2, <2>7, <3>1
    <3>3. /\ invoice[c].status # "NONE"
          /\ m.month <= invoice[c].number.month
          /\ m.month = invoice[c].number.month => m.seq <= invoice[c].number.seq
      BY <3>1 DEF VInv, LastNumberStays
    <3>4. invoice[c].number.month = n.month => invoice[c].number.seq < n.seq
      BY <1>1, <2>1, <3>1, <3>3 DEF VInv, NumbersAreNew, Works, n
    <3> QED
      BY <2>7, <2>8, <2>9, <3>1, <3>2, <3>3, <3>4
  <2>11. InvoicesTypeOK'
    BY <2>2, <2>3, <2>4, <2>6 DEF VInv, InvoicesTypeOK
  <2>12. GeneratorsFit'
    BY <2>2, <2>3, <2>4, <2>5 DEF VInv, GeneratorsFit, Numbers
  <2>13. RowsFit'
    BY <2>1, <2>2, <2>6 DEF VInv, RowsFit, InvoicesTypeOK
  <2>14. LastNumberStays'
    <3>1. SUFFICES ASSUME NEW c \in Bookings \ late', NEW m \in billed'[c]
                   PROVE  /\ invoice'[c].status # "NONE"
                          /\ m.month <= invoice'[c].number.month
                          /\ m.month = invoice'[c].number.month =>
                               m.seq <= invoice'[c].number.seq
      BY DEF LastNumberStays
    <3>2. c \notin late
      BY <2>2, <3>1
    <3>3. CASE c # b
      BY <2>6, <3>1, <3>2, <3>3 DEF VInv, LastNumberStays
    <3>4. CASE c = b
      BY <2>6, <2>7, <2>9, <2>10, <3>1, <3>2, <3>4
    <3> QED
      BY <3>3, <3>4
  <2>15. NumbersAreNew'
    <3>1. \A h \in Generators : InTransaction(h)' =>
            gen[h].number.month # n.month
      BY <2>1, <2>5 DEF VInv, GeneratorsFit, InTransaction
    <3> QED
      BY <2>3, <2>5, <2>6, <3>1 DEF VInv, NumbersAreNew
  <2>16. NumbersBillOneBooking'
    <3>1. \A c \in Bookings \ late' :
            c # b /\ OrgOf[c] = OrgOf[b] /\ b \notin late' => n \notin billed[c]
      BY <2>2, <2>7, <2>10
    <3> QED
      BY <2>2, <2>6, <3>1 DEF VInv, NumbersBillOneBooking
  <2>17. TwoAreRecorded'
    BY <2>2, <2>5 DEF VInv, TwoAreRecorded
  <2>18. OneHasItAll'
    <3>1. \A h \in Generators, c \in Bookings \ straddled : Works(h, c)' => c # b
      BY <1>1, <2>5 DEF VInv, TwoAreRecorded
    <3> QED
      BY <2>2, <2>3, <2>5, <2>6, <3>1 DEF VInv, OneHasItAll, Active
  <2>19. StoredPdfIsTheInvoice'
    BY <2>1, <2>2, <2>6 DEF VInv, StoredPdfIsTheInvoice, Downloadable, Active
  <2> QED
    BY <2>11, <2>12, <2>13, <2>14, <2>15, <2>16, <2>17, <2>18, <2>19 DEF VInv
<1> QED
  BY <1>2, <1>3

\* A rollback.
LEMMA GenerationFailsKeeps ==
    ASSUME VInv, NEW g \in Generators, GenerationFails(g)
    PROVE  VInv'
  BY LeaveKeeps DEF GenerationFails

\* A voider works on a row.
LEMMA ReadInvoiceKeeps ==
    ASSUME VInv, NEW v \in Voiders, NEW b \in Bookings, ReadInvoice(v, b)
    PROVE  VInv'
<1>1. InvoicesTypeOK'
  BY DEF VInv, ReadInvoice, InvoicesTypeOK, history
<1>2. RowsFit'
  BY DEF VInv, ReadInvoice, RowsFit, InvoicesTypeOK
<1>3. (GeneratorsFit /\ NumbersAreNew)'
  BY DEF VInv, ReadInvoice, GeneratorsFit, NumbersAreNew, InTransaction
<1>4. (LastNumberStays /\ NumbersBillOneBooking)'
  BY DEF VInv, ReadInvoice, LastNumberStays, NumbersBillOneBooking, history
<1>5. (TwoAreRecorded /\ OneHasItAll /\ StoredPdfIsTheInvoice)'
  BY DEF VInv, ReadInvoice, TwoAreRecorded, OneHasItAll, StoredPdfIsTheInvoice,
     Works, InTransaction, Active, Downloadable, history
<1> QED
  BY <1>1, <1>2, <1>3, <1>4, <1>5 DEF VInv

\* A void invoice keeps its number, and nobody downloads it.
LEMMA CommitVoidKeeps ==
    ASSUME VInv, NEW v \in Voiders, CommitVoid(v)
    PROVE  VInv'
<1>1. PICK b \in Bookings : voiding[v] = b
  BY DEF CommitVoid, VInv, InvoicesTypeOK
<1> DEFINE new == [[invoice[b] EXCEPT !.status = "VOID"] EXCEPT !.url = FALSE]
<1>2. /\ invoice' = [invoice EXCEPT ![b] = new]
      /\ voiding' = [voiding EXCEPT ![v] = None]
      /\ UNCHANGED <<pdf, lock, month, gen, history>>
  BY <1>1 DEF CommitVoid, VInv, InvoicesTypeOK
<1>3. new \in Row /\ new.status = "VOID" /\ new.number = invoice[b].number
  BY DEF VInv, InvoicesTypeOK, Row
<1>4. invoice[b].status # "NONE"
  BY <1>1, InvoicesAssumption DEF VInv, RowsFit
<1> HIDE DEF new
<1>5. /\ invoice' \in [Bookings -> Row]
      /\ \A c \in Bookings : c # b => invoice'[c] = invoice[c]
      /\ \A c \in Bookings : /\ invoice'[c].number = invoice[c].number
                             /\ (invoice'[c].status # "NONE") <=>
                                  (invoice[c].status # "NONE")
                             /\ Active(c)' => c # b /\ Active(c)
  BY <1>2, <1>3, <1>4 DEF VInv, InvoicesTypeOK, Active
<1>6. InvoicesTypeOK'
  BY <1>2, <1>5 DEF VInv, InvoicesTypeOK, history
<1>7. RowsFit'
  BY <1>2, <1>5 DEF VInv, RowsFit, InvoicesTypeOK
<1>8. (GeneratorsFit /\ NumbersAreNew)'
  BY <1>2, <1>5 DEF VInv, GeneratorsFit, NumbersAreNew, InTransaction
<1>9. (LastNumberStays /\ NumbersBillOneBooking)'
  BY <1>2, <1>5 DEF VInv, LastNumberStays, NumbersBillOneBooking, history
<1>10. (TwoAreRecorded /\ OneHasItAll /\ StoredPdfIsTheInvoice)'
  BY <1>2, <1>5 DEF VInv, TwoAreRecorded, OneHasItAll, StoredPdfIsTheInvoice,
     Works, InTransaction, Downloadable, history
<1> QED
  BY <1>6, <1>7, <1>8, <1>9, <1>10 DEF VInv

-----------------------------------------------------------------------------
(* The invariants of the invoices.                                         *)

\* The first state of the invoices fits.
LEMMA InvoicesInitEstablishes ==
    ASSUME Init
    PROVE  VInv
<1>1. 1 \in Months
  BY InvoicesAssumption DEF Months
<1>2. InvoicesTypeOK
  BY <1>1, InvoicesAssumption DEF Init, InvoicesTypeOK, NoRow, Row, Idle, Generator
<1>3. /\ \A b \in Bookings : invoice[b].status = "NONE" /\ billed[b] = {}
      /\ \A g \in Generators : gen[g].stage = "idle"
      /\ \A v \in Voiders : voiding[v] = None
  BY DEF Init, NoRow, Idle
<1> QED
  BY <1>2, <1>3 DEF VInv, GeneratorsFit, RowsFit, LastNumberStays,
     NumbersAreNew, NumbersBillOneBooking, TwoAreRecorded, OneHasItAll,
     StoredPdfIsTheInvoice, Works, InTransaction, Active, Downloadable

\* A lemma for each action above, and a stutter.
LEMMA InvoicesNextPreserves ==
    ASSUME VInv, [Next]_vars
    PROVE  VInv'
<1>1. CASE UNCHANGED vars
  BY <1>1 DEF vars, history, VInv, InvoicesTypeOK, GeneratorsFit, RowsFit,
     LastNumberStays, NumbersAreNew, NumbersBillOneBooking, TwoAreRecorded,
     OneHasItAll, StoredPdfIsTheInvoice, Works, InTransaction, Active,
     Downloadable
<1>2. CASE Next
  BY <1>2, MonthTurnsKeeps, ReadBookingKeeps, LockAndNumberKeeps, InsertRowKeeps,
     UploadPdfKeeps, CommitInvoiceKeeps, GenerationFailsKeeps, ReadInvoiceKeeps,
     CommitVoidKeeps DEF Next
<1> QED  BY <1>1, <1>2

\* Rows, locks, open transactions and stored documents keep together.
THEOREM Invariance == Spec => []VInv
<1>1. Init => VInv
  BY InvoicesInitEstablishes
<1>2. VInv /\ [Next]_vars => VInv'
  BY InvoicesNextPreserves
<1> QED
  BY <1>1, <1>2, PTL DEF Spec

\* Every variable of the invoices keeps its type.
THEOREM TypeCorrectness == Spec => []InvoicesTypeOK
<1>1. VInv => InvoicesTypeOK
  BY DEF VInv
<1> QED
  BY <1>1, Invariance, PTL

\* A number that an organisation gave out bills one of its bookings, unless it
\* was committed after its month was over.
THEOREM NumbersAreUnique == Spec => []NumbersBillOneBooking
<1>1. VInv => NumbersBillOneBooking
  BY DEF VInv
<1> QED
  BY <1>1, Invariance, PTL

\* What a customer downloads is the invoice that counts, unless generations of
\* two months worked on the booking at once.
THEOREM DocumentsMatch == Spec => []StoredPdfIsTheInvoice
<1>1. VInv => StoredPdfIsTheInvoice
  BY DEF VInv
<1> QED
  BY <1>1, Invariance, PTL
=============================================================================
