--------------------- MODULE NotificationOutbox_proofs ----------------------
(***************************************************************************)
(* Proofs about NotificationOutbox, for any messages, writers, drains and  *)
(* bounds: its type and safety invariants, and that it implements          *)
(* MailQueue, each step being a step of the queue or none.                 *)
(***************************************************************************)
EXTENDS NotificationOutbox, TLAPS

Status(m) == outbox[m].status
Held(m) == \E d \in Drains : Holds(d, m)

\* What a drain has in its memory: a message, and a count of attempts that is
\* below the limit and no more than what has failed.
DrainsCount ==
    \A d \in Drains : drain[d].stage # "idle" =>
        /\ drain[d].msg \in Messages
        /\ drain[d].attempts < MaxAttempts
        /\ drain[d].attempts <= failures[drain[d].msg]
        /\ drain[d].stage = "refused" => failures[drain[d].msg] < MaxFailures
        /\ drain[d].stage = "failed" =>
             drain[d].attempts < failures[drain[d].msg]

\* The same of the rows that wait.
RowsCount ==
    \A m \in Waiting :
        outbox[m].attempts < MaxAttempts /\ outbox[m].attempts <= failures[m]

\* A message that may still be sent has no copy beyond its lost logs.
OpenMessagesAreUnsent ==
    /\ \A m \in Messages : Status(m) \in {"ABSENT", "PENDING", "FAILED"} =>
         delivered[m] <= lostLogs[m]
    /\ \A d \in Drains : drain[d].stage \in {"claimed", "refused", "failed"} =>
         delivered[drain[d].msg] <= lostLogs[drain[d].msg]

\* What can still be sent once the customer is erased was in flight.
OpenMessagesAreInFlight ==
    IF erased
    THEN \A m \in Messages :
           Status(m) \in {"PENDING", "FAILED", "PROCESSING"} => m \in inFlight
    ELSE touched = {}

OInv ==
    /\ OutboxTypeOK
    /\ DrainsCount
    /\ RowsCount
    /\ OneSenderPerMessage
    /\ OpenMessagesAreUnsent
    /\ CopiesAreLostLogs
    /\ NoEarlyDeadLetter
    /\ OpenMessagesAreInFlight
    /\ ErasureStopsTheRest

-----------------------------------------------------------------------------
(* Every step keeps the invariant.                                         *)

\* A list remembers the attempts of a row that waits.
LEMMA ListDueKeeps ==
    ASSUME OInv, NEW d \in Drains, NEW m \in Messages, ListDue(d, m)
    PROVE  OInv'
<1>1. OutboxTypeOK'
  BY DEF OInv, ListDue, OutboxTypeOK, OutboxRow, DrainedRow, history
<1>2. (DrainsCount /\ RowsCount /\ NoEarlyDeadLetter)'
  BY DEF OInv, ListDue, DrainsCount, RowsCount, NoEarlyDeadLetter, Waiting,
     history
<1>3. OneSenderPerMessage'
  BY DEF OInv, ListDue, OneSenderPerMessage, Holds
<1>4. (OpenMessagesAreUnsent /\ CopiesAreLostLogs)'
  BY DEF OInv, ListDue, OpenMessagesAreUnsent, CopiesAreLostLogs, Status,
     history
<1>5. (OpenMessagesAreInFlight /\ ErasureStopsTheRest)'
  BY DEF OInv, ListDue, OpenMessagesAreInFlight, ErasureStopsTheRest, Status,
     history
<1> QED
  BY <1>1, <1>2, <1>3, <1>4, <1>5 DEF OInv

\* What a claim does: the message's row and the drain, or the drain alone.
ClaimOf(d, m) ==
    /\ drain[d].msg = m /\ drain[d].stage = "listed"
    /\ \A e \in Drains : e # d => drain'[e] = drain[e]
    /\ \A n \in Messages : n # m => outbox'[n] = outbox[n]
    /\ \/ /\ m \in Waiting
          /\ drain'[d] = [drain[d] EXCEPT !.stage = "claimed"]
          /\ outbox'[m] = [outbox[m] EXCEPT !.status = "PROCESSING"]
       \/ drain'[d] = Idle /\ outbox'[m] = outbox[m]
    /\ outbox' \in [Messages -> OutboxRow] /\ drain' \in [Drains -> DrainedRow]

\* A claim takes a message that waits, or finds it taken.
LEMMA ClaimEffect ==
    ASSUME OInv, NEW d \in Drains, Claim(d)
    PROVE  \E m \in Messages : ClaimOf(d, m)
<1>1. PICK m \in Messages : m = drain[d].msg
  BY DEF OInv, DrainsCount, Claim
<1>2. /\ drain \in [Drains -> DrainedRow] /\ outbox \in [Messages -> OutboxRow]
      /\ drain[d].stage = "listed"
  BY DEF OInv, OutboxTypeOK, Claim
<1>3. CASE m \in Waiting
  <2>1. /\ drain' = [drain EXCEPT ![d] = [drain[d] EXCEPT !.stage = "claimed"]]
        /\ outbox' = [outbox EXCEPT ![m] = [outbox[m] EXCEPT !.status = "PROCESSING"]]
    BY <1>1, <1>3 DEF Claim
  <2>2. /\ [drain[d] EXCEPT !.stage = "claimed"] \in DrainedRow
        /\ [outbox[m] EXCEPT !.status = "PROCESSING"] \in OutboxRow
    BY <1>2 DEF DrainedRow, OutboxRow
  <2> QED
    BY <1>1, <1>2, <1>3, <2>1, <2>2 DEF ClaimOf
<1>4. CASE m \notin Waiting
  <2>1. drain' = [drain EXCEPT ![d] = Idle] /\ outbox' = outbox
    BY <1>1, <1>4 DEF Claim
  <2>2. Idle \in DrainedRow
    BY OutboxAssumption DEF Idle, DrainedRow
  <2> QED
    BY <1>1, <1>2, <2>1, <2>2 DEF ClaimOf
<1> QED
  BY <1>3, <1>4

\* A claimed message was waiting, so nobody held it and it has no copy to lose.
LEMMA ClaimKeeps ==
    ASSUME OInv, NEW d \in Drains, Claim(d)
    PROVE  OInv'
<1>0. UNCHANGED <<logged, writer, erased, delivered, failures, lostLogs, inFlight, touched>>
  BY DEF Claim, history
<1>1. PICK m \in Messages : ClaimOf(d, m)
  BY ClaimEffect
<1>2. /\ \/ /\ m \in Waiting
            /\ drain'[d].stage = "claimed" /\ drain'[d].msg = m
            /\ drain'[d].attempts = drain[d].attempts
            /\ outbox'[m].status = "PROCESSING"
         \/ drain'[d].stage = "idle" /\ outbox'[m] = outbox[m]
  BY <1>1 DEF ClaimOf, Idle, OInv, OutboxTypeOK, DrainedRow, OutboxRow
<1>3. OutboxTypeOK'
  BY <1>0, <1>1 DEF ClaimOf, OInv, OutboxTypeOK
<1>4. (DrainsCount /\ RowsCount /\ NoEarlyDeadLetter)'
  BY <1>0, <1>1, <1>2 DEF ClaimOf, OInv, DrainsCount, RowsCount,
     NoEarlyDeadLetter, Waiting
<1>5. OneSenderPerMessage'
  BY <1>1, <1>2 DEF ClaimOf, OInv, OneSenderPerMessage, Holds, Waiting
<1>6. (OpenMessagesAreUnsent /\ CopiesAreLostLogs)'
  BY <1>0, <1>1, <1>2 DEF ClaimOf, OInv, OpenMessagesAreUnsent,
     CopiesAreLostLogs, Waiting, Status
<1>7. (OpenMessagesAreInFlight /\ ErasureStopsTheRest)'
  BY <1>0, <1>1, <1>2 DEF ClaimOf, OInv, OpenMessagesAreInFlight,
     ErasureStopsTheRest, Waiting, Status
<1> QED
  BY <1>3, <1>4, <1>5, <1>6, <1>7 DEF OInv

\* A skipped message is done with.
LEMMA SkipKeeps ==
    ASSUME OInv, NEW d \in Drains, Skip(d)
    PROVE  OInv'
<1>1. OutboxTypeOK'
  BY DEF OInv, Skip, OutboxTypeOK, DrainedRow, history
<1>2. (DrainsCount /\ RowsCount /\ NoEarlyDeadLetter)'
  BY DEF OInv, Skip, DrainsCount, RowsCount, NoEarlyDeadLetter, Waiting, history
<1>3. OneSenderPerMessage'
  BY DEF OInv, Skip, OneSenderPerMessage, Holds
<1>4. (OpenMessagesAreUnsent /\ CopiesAreLostLogs)'
  BY DEF OInv, Skip, OpenMessagesAreUnsent, CopiesAreLostLogs, Status, history
<1>5. (OpenMessagesAreInFlight /\ ErasureStopsTheRest)'
  BY DEF OInv, Skip, OpenMessagesAreInFlight, ErasureStopsTheRest, Status,
     history
<1> QED
  BY <1>1, <1>2, <1>3, <1>4, <1>5 DEF OInv

\* One more dispatch has failed.
LEMMA UnknownTemplateKeeps ==
    ASSUME OInv, NEW d \in Drains, UnknownTemplate(d)
    PROVE  OInv'
<1>1. OutboxTypeOK'
  BY OutboxAssumption DEF OInv, UnknownTemplate, OutboxTypeOK, DrainsCount,
     DrainedRow
<1>2. (DrainsCount /\ RowsCount /\ NoEarlyDeadLetter)'
  BY DEF OInv, UnknownTemplate, OutboxTypeOK, DrainsCount, RowsCount,
     OneSenderPerMessage, NoEarlyDeadLetter, Waiting, DrainedRow, Holds
<1>3. OneSenderPerMessage'
  BY DEF OInv, UnknownTemplate, OneSenderPerMessage, Holds
<1>4. (OpenMessagesAreUnsent /\ CopiesAreLostLogs)'
  BY DEF OInv, UnknownTemplate, OpenMessagesAreUnsent, CopiesAreLostLogs, Status
<1>5. (OpenMessagesAreInFlight /\ ErasureStopsTheRest)'
  BY DEF OInv, UnknownTemplate, OpenMessagesAreInFlight, ErasureStopsTheRest,
     Status
<1> QED
  BY <1>1, <1>2, <1>3, <1>4, <1>5 DEF OInv

\* One more copy, of a message that had none beyond its lost logs.
LEMMA ProviderAcceptsKeeps ==
    ASSUME OInv, NEW d \in Drains, ProviderAccepts(d)
    PROVE  OInv'
<1>1. OutboxTypeOK'
  BY DEF OInv, ProviderAccepts, OutboxTypeOK, DrainsCount, DrainedRow, Touch
<1>2. (DrainsCount /\ RowsCount /\ NoEarlyDeadLetter)'
  BY DEF OInv, ProviderAccepts, DrainsCount, RowsCount, NoEarlyDeadLetter,
     Waiting
<1>3. OneSenderPerMessage'
  BY DEF OInv, ProviderAccepts, OneSenderPerMessage, Holds
<1>4. (OpenMessagesAreUnsent /\ CopiesAreLostLogs)'
  BY DEF OInv, ProviderAccepts, OutboxTypeOK, OneSenderPerMessage,
     OpenMessagesAreUnsent, CopiesAreLostLogs, Status, Holds
<1>5. (OpenMessagesAreInFlight /\ ErasureStopsTheRest)'
  BY DEF OInv, ProviderAccepts, DrainsCount, OneSenderPerMessage,
     OpenMessagesAreInFlight, ErasureStopsTheRest, Status, Holds, Touch
<1> QED
  BY <1>1, <1>2, <1>3, <1>4, <1>5 DEF OInv

\* Nothing is delivered.
LEMMA ProviderNoopKeeps ==
    ASSUME OInv, NEW d \in Drains, ProviderNoop(d)
    PROVE  OInv'
<1>1. OutboxTypeOK'
  BY DEF OInv, ProviderNoop, OutboxTypeOK, DrainedRow, history
<1>2. (DrainsCount /\ RowsCount /\ NoEarlyDeadLetter)'
  BY DEF OInv, ProviderNoop, DrainsCount, RowsCount, NoEarlyDeadLetter, Waiting,
     history
<1>3. OneSenderPerMessage'
  BY DEF OInv, ProviderNoop, OneSenderPerMessage, Holds
<1>4. (OpenMessagesAreUnsent /\ CopiesAreLostLogs)'
  BY DEF OInv, ProviderNoop, OpenMessagesAreUnsent, CopiesAreLostLogs, Status,
     history
<1>5. (OpenMessagesAreInFlight /\ ErasureStopsTheRest)'
  BY DEF OInv, ProviderNoop, OpenMessagesAreInFlight, ErasureStopsTheRest,
     Status, history
<1> QED
  BY <1>1, <1>2, <1>3, <1>4, <1>5 DEF OInv

\* Nothing is delivered.
LEMMA ProviderRefusesKeeps ==
    ASSUME OInv, NEW d \in Drains, ProviderRefuses(d)
    PROVE  OInv'
<1>1. OutboxTypeOK'
  BY DEF OInv, ProviderRefuses, OutboxTypeOK, DrainedRow, history
<1>2. (DrainsCount /\ RowsCount /\ NoEarlyDeadLetter)'
  BY DEF OInv, ProviderRefuses, DrainsCount, RowsCount, NoEarlyDeadLetter,
     Waiting, history
<1>3. OneSenderPerMessage'
  BY DEF OInv, ProviderRefuses, OneSenderPerMessage, Holds
<1>4. (OpenMessagesAreUnsent /\ CopiesAreLostLogs)'
  BY DEF OInv, ProviderRefuses, OpenMessagesAreUnsent, CopiesAreLostLogs,
     Status, history
<1>5. (OpenMessagesAreInFlight /\ ErasureStopsTheRest)'
  BY DEF OInv, ProviderRefuses, OpenMessagesAreInFlight, ErasureStopsTheRest,
     Status, history
<1> QED
  BY <1>1, <1>2, <1>3, <1>4, <1>5 DEF OInv

\* The copy is logged, or the loss of its log row counts for it.
LEMMA LogSentKeeps ==
    ASSUME OInv, NEW d \in Drains, LogSent(d)
    PROVE  OInv'
<1>1. PICK m \in Messages : m = drain[d].msg
  BY DEF OInv, DrainsCount, LogSent
<1>2. /\ drain[d].stage = "accepted" /\ drain \in [Drains -> DrainedRow]
      /\ UNCHANGED <<outbox, writer, erased, delivered, failures, inFlight>>
      /\ \/ /\ drain' = [drain EXCEPT ![d] = [drain[d] EXCEPT !.stage = "done"]]
            /\ logged' = logged \cup {m}
            /\ touched' = IF erased THEN touched \cup {m} ELSE touched
            /\ lostLogs' = lostLogs
         \/ /\ lostLogs[m] < MaxLostLogs /\ failures[m] < MaxFailures
            /\ lostLogs' = [lostLogs EXCEPT ![m] = @ + 1]
            /\ drain' = [drain EXCEPT ![d] = [drain[d] EXCEPT !.stage = "refused"]]
            /\ UNCHANGED <<logged, touched>>
  BY <1>1 DEF LogSent, Touch, OInv, OutboxTypeOK
<1>3. \A s \in {"done", "refused"} : [drain[d] EXCEPT !.stage = s] \in DrainedRow
  BY <1>2 DEF DrainedRow
<1>4. /\ drain' \in [Drains -> DrainedRow]
      /\ \A e \in Drains : e # d => drain'[e] = drain[e]
      /\ drain'[d].msg = m /\ drain'[d].attempts = drain[d].attempts
      /\ \/ drain'[d].stage = "done"
         \/ /\ drain'[d].stage = "refused" /\ failures[m] < MaxFailures
            /\ lostLogs' = [lostLogs EXCEPT ![m] = @ + 1]
  BY <1>1, <1>2, <1>3 DEF DrainedRow
<1>5. /\ lostLogs' \in [Messages -> 0..MaxLostLogs]
      /\ \A n \in Messages : lostLogs[n] <= lostLogs'[n]
      /\ drain'[d].stage = "refused" => lostLogs'[m] = lostLogs[m] + 1
  BY <1>2, <1>4, OutboxAssumption DEF OInv, OutboxTypeOK
<1>6. Holds(d, m)
  BY <1>1, <1>2 DEF Holds
<1>7. OutboxTypeOK'
  BY <1>2, <1>4, <1>5 DEF OInv, OutboxTypeOK
<1>8. (DrainsCount /\ RowsCount /\ NoEarlyDeadLetter)'
  BY <1>1, <1>2, <1>4 DEF OInv, DrainsCount, RowsCount, NoEarlyDeadLetter,
     Waiting
<1>9. OneSenderPerMessage'
  BY <1>1, <1>2, <1>4 DEF OInv, OneSenderPerMessage, Holds
<1>10. (OpenMessagesAreUnsent /\ CopiesAreLostLogs)'
  <2>1. \A n \in Messages : delivered[n] \in Nat /\ lostLogs[n] \in Nat /\ lostLogs'[n] \in Nat
    BY <1>5, OutboxAssumption DEF OInv, OutboxTypeOK
  <2>2. CopiesAreLostLogs'
    BY <1>2, <1>5, <2>1 DEF OInv, CopiesAreLostLogs
  <2>3. \A n \in Messages : delivered[n] <= lostLogs[n] => delivered[n] <= lostLogs'[n]
    BY <1>5, <2>1
  <2>4. drain'[d].stage = "refused" => delivered[m] <= lostLogs'[m]
    BY <1>5, <2>1 DEF OInv, CopiesAreLostLogs
  <2>5. \A e \in Drains : drain'[e].stage # "idle" => drain'[e].msg \in Messages
    BY <1>8 DEF DrainsCount
  <2>6. OpenMessagesAreUnsent'
    BY <1>2, <1>4, <2>3, <2>4, <2>5 DEF OInv, OpenMessagesAreUnsent, Status
  <2> QED BY <2>2, <2>6
<1>11. (OpenMessagesAreInFlight /\ ErasureStopsTheRest)'
  BY <1>2, <1>6 DEF OInv, OpenMessagesAreInFlight, ErasureStopsTheRest,
     OneSenderPerMessage, Status
<1> QED
  BY <1>7, <1>8, <1>9, <1>10, <1>11 DEF OInv

\* One more dispatch has failed, and is logged.
LEMMA LogFailedKeeps ==
    ASSUME OInv, NEW d \in Drains, LogFailed(d)
    PROVE  OInv'
<1>1. OutboxTypeOK'
  BY OutboxAssumption DEF OInv, LogFailed, OutboxTypeOK, DrainsCount,
     DrainedRow, Touch
<1>2. (DrainsCount /\ RowsCount /\ NoEarlyDeadLetter)'
  BY DEF OInv, LogFailed, OutboxTypeOK, DrainsCount, RowsCount,
     OneSenderPerMessage, NoEarlyDeadLetter, Waiting, DrainedRow, Holds
<1>3. OneSenderPerMessage'
  BY DEF OInv, LogFailed, OneSenderPerMessage, Holds
<1>4. (OpenMessagesAreUnsent /\ CopiesAreLostLogs)'
  BY DEF OInv, LogFailed, OpenMessagesAreUnsent, CopiesAreLostLogs, Status
<1>5. (OpenMessagesAreInFlight /\ ErasureStopsTheRest)'
  BY DEF OInv, LogFailed, DrainsCount, OneSenderPerMessage,
     OpenMessagesAreInFlight, ErasureStopsTheRest, Status, Holds, Touch
<1> QED
  BY <1>1, <1>2, <1>3, <1>4, <1>5 DEF OInv

\* The row gets the attempts of the list, and lets the message go.
LEMMA FinishKeeps ==
    ASSUME OInv, NEW d \in Drains, Finish(d)
    PROVE  OInv'
<1>1. OutboxTypeOK'
  BY OutboxAssumption DEF OInv, Finish, OutboxTypeOK, DrainsCount, OutboxRow,
     DrainedRow, Idle, history, Attempted
<1>2. (DrainsCount /\ RowsCount /\ NoEarlyDeadLetter)'
  BY OutboxAssumption DEF OInv, Finish, OutboxTypeOK, DrainsCount, RowsCount,
     NoEarlyDeadLetter, DrainedRow, Idle, history, Waiting, Attempted
<1>3. OneSenderPerMessage'
  BY DEF OInv, Finish, OutboxTypeOK, OneSenderPerMessage, Holds, Idle
<1>4. (OpenMessagesAreUnsent /\ CopiesAreLostLogs)'
  BY DEF OInv, Finish, OpenMessagesAreUnsent, CopiesAreLostLogs, Status, Idle,
     history
<1>5. (OpenMessagesAreInFlight /\ ErasureStopsTheRest)'
  BY DEF OInv, Finish, OneSenderPerMessage, OpenMessagesAreInFlight,
     ErasureStopsTheRest, Status, history, Holds
<1> QED
  BY <1>1, <1>2, <1>3, <1>4, <1>5 DEF OInv

\* The row stays PROCESSING, and nobody holds it.
LEMMA DrainDiesKeeps ==
    ASSUME OInv, NEW d \in Drains, DrainDies(d)
    PROVE  OInv'
<1>1. OutboxTypeOK'
  BY OutboxAssumption DEF OInv, DrainDies, OutboxTypeOK, DrainedRow, Idle,
     history
<1>2. (DrainsCount /\ RowsCount /\ NoEarlyDeadLetter)'
  BY DEF OInv, DrainDies, DrainsCount, RowsCount, NoEarlyDeadLetter, Waiting,
     Idle, history
<1>3. OneSenderPerMessage'
  BY DEF OInv, DrainDies, OneSenderPerMessage, Holds, Idle
<1>4. (OpenMessagesAreUnsent /\ CopiesAreLostLogs)'
  BY DEF OInv, DrainDies, OpenMessagesAreUnsent, CopiesAreLostLogs, Status,
     Idle, history
<1>5. (OpenMessagesAreInFlight /\ ErasureStopsTheRest)'
  BY DEF OInv, DrainDies, OpenMessagesAreInFlight, ErasureStopsTheRest, Status,
     history
<1> QED
  BY <1>1, <1>2, <1>3, <1>4, <1>5 DEF OInv

\* Nothing that is stored changes.
LEMMA ResolveRecipientKeeps ==
    ASSUME OInv, NEW w \in Writers, ResolveRecipient(w)
    PROVE  OInv'
<1>1. OutboxTypeOK'
  BY DEF OInv, ResolveRecipient, OutboxTypeOK, history
<1>2. (DrainsCount /\ RowsCount /\ NoEarlyDeadLetter)'
  BY DEF OInv, ResolveRecipient, DrainsCount, RowsCount, NoEarlyDeadLetter,
     Waiting, history
<1>3. OneSenderPerMessage'
  BY DEF OInv, ResolveRecipient, OneSenderPerMessage, Holds
<1>4. (OpenMessagesAreUnsent /\ CopiesAreLostLogs)'
  BY DEF OInv, ResolveRecipient, OpenMessagesAreUnsent, CopiesAreLostLogs,
     Status, history
<1>5. (OpenMessagesAreInFlight /\ ErasureStopsTheRest)'
  BY DEF OInv, ResolveRecipient, OpenMessagesAreInFlight, ErasureStopsTheRest,
     history
<1> QED
  BY <1>1, <1>2, <1>3, <1>4, <1>5 DEF OInv

\* New rows have no attempts and no copies.
LEMMA EnqueueForChannelsKeeps ==
    ASSUME OInv, NEW w \in Writers, NEW ms \in SUBSET Messages,
           EnqueueForChannels(w, ms)
    PROVE  OInv'
<1>1. OutboxTypeOK'
  BY OutboxAssumption DEF OInv, EnqueueForChannels, OutboxTypeOK, OutboxRow
<1>2. (DrainsCount /\ RowsCount /\ NoEarlyDeadLetter)'
  BY OutboxAssumption DEF OInv, EnqueueForChannels, OutboxTypeOK, DrainsCount,
     RowsCount, NoEarlyDeadLetter, Waiting
<1>3. OneSenderPerMessage'
  BY DEF OInv, EnqueueForChannels, OneSenderPerMessage, Holds
<1>4. (OpenMessagesAreUnsent /\ CopiesAreLostLogs)'
  BY DEF OInv, EnqueueForChannels, OpenMessagesAreUnsent, CopiesAreLostLogs,
     Status
<1>5. (OpenMessagesAreInFlight /\ ErasureStopsTheRest)'
  BY DEF OInv, EnqueueForChannels, OpenMessagesAreInFlight, ErasureStopsTheRest,
     Status
<1> QED
  BY <1>1, <1>2, <1>3, <1>4, <1>5 DEF OInv

\* The row was waiting already.
LEMMA BackOffEndsKeeps ==
    ASSUME OInv, NEW m \in Messages, BackOffEnds(m)
    PROVE  OInv'
<1>1. OutboxTypeOK'
  <2>1. outbox' = [outbox EXCEPT ![m] = [outbox[m] EXCEPT !.due = TRUE]]
    BY DEF BackOffEnds
  <2>2. [outbox[m] EXCEPT !.due = TRUE] \in OutboxRow
    BY DEF OInv, OutboxTypeOK, OutboxRow
  <2> QED
    BY <2>1, <2>2 DEF OInv, OutboxTypeOK, BackOffEnds, history
<1>2. (DrainsCount /\ RowsCount /\ NoEarlyDeadLetter)'
  BY DEF OInv, BackOffEnds, DrainsCount, RowsCount, NoEarlyDeadLetter, Waiting,
     history
<1>3. OneSenderPerMessage'
  BY DEF OInv, BackOffEnds, OneSenderPerMessage, Holds
<1>4. (OpenMessagesAreUnsent /\ CopiesAreLostLogs)'
  BY DEF OInv, BackOffEnds, OpenMessagesAreUnsent, CopiesAreLostLogs, Status,
     history
<1>5. (OpenMessagesAreInFlight /\ ErasureStopsTheRest)'
  BY DEF OInv, BackOffEnds, OpenMessagesAreInFlight, ErasureStopsTheRest,
     Status, history
<1> QED
  BY <1>1, <1>2, <1>3, <1>4, <1>5 DEF OInv

\* What is deleted was given up.
LEMMA PruneDeadLettersKeeps ==
    ASSUME OInv, NEW m \in Messages, PruneDeadLetters(m)
    PROVE  OInv'
<1>1. OutboxTypeOK'
  BY DEF OInv, PruneDeadLetters, OutboxTypeOK, OutboxRow, history
<1>2. (DrainsCount /\ RowsCount /\ NoEarlyDeadLetter)'
  BY DEF OInv, PruneDeadLetters, DrainsCount, RowsCount, NoEarlyDeadLetter,
     Waiting, history
<1>3. OneSenderPerMessage'
  BY DEF OInv, PruneDeadLetters, OneSenderPerMessage, Holds
<1>4. (OpenMessagesAreUnsent /\ CopiesAreLostLogs)'
  BY DEF OInv, PruneDeadLetters, OpenMessagesAreUnsent, CopiesAreLostLogs,
     Status, history
<1>5. (OpenMessagesAreInFlight /\ ErasureStopsTheRest)'
  BY DEF OInv, PruneDeadLetters, OpenMessagesAreInFlight, ErasureStopsTheRest,
     Status, history
<1> QED
  BY <1>1, <1>2, <1>3, <1>4, <1>5 DEF OInv

\* Logs are lost to nobody but the reader.
LEMMA PruneLogsKeeps ==
    ASSUME OInv, NEW m \in Messages, PruneLogs(m)
    PROVE  OInv'
<1>1. OutboxTypeOK'
  BY DEF OInv, PruneLogs, OutboxTypeOK, history
<1>2. (DrainsCount /\ RowsCount /\ NoEarlyDeadLetter)'
  BY DEF OInv, PruneLogs, DrainsCount, RowsCount, NoEarlyDeadLetter, Waiting,
     history
<1>3. OneSenderPerMessage'
  BY DEF OInv, PruneLogs, OneSenderPerMessage, Holds
<1>4. (OpenMessagesAreUnsent /\ CopiesAreLostLogs)'
  BY DEF OInv, PruneLogs, OpenMessagesAreUnsent, CopiesAreLostLogs, Status,
     history
<1>5. (OpenMessagesAreInFlight /\ ErasureStopsTheRest)'
  BY DEF OInv, PruneLogs, OpenMessagesAreInFlight, ErasureStopsTheRest, Status,
     history
<1> QED
  BY <1>1, <1>2, <1>3, <1>4, <1>5 DEF OInv

\* What waits under the address is deleted; the rest is in flight.
LEMMA EraseCustomerKeeps ==
    ASSUME OInv, NEW matched \in Matched, EraseCustomer(matched)
    PROVE  OInv'
<1>1. OutboxTypeOK'
  BY DEF OInv, EraseCustomer, OutboxTypeOK, OutboxRow
<1>2. (DrainsCount /\ RowsCount /\ NoEarlyDeadLetter)'
  BY DEF OInv, EraseCustomer, DrainsCount, RowsCount, NoEarlyDeadLetter, Waiting
<1>3. OneSenderPerMessage'
  BY DEF OInv, EraseCustomer, OneSenderPerMessage, Waiting, Holds, ErasedRows
<1>4. (OpenMessagesAreUnsent /\ CopiesAreLostLogs)'
  BY DEF OInv, EraseCustomer, OpenMessagesAreUnsent, CopiesAreLostLogs, Status
<1>5. (OpenMessagesAreInFlight /\ ErasureStopsTheRest)'
  BY DEF OInv, EraseCustomer, OpenMessagesAreInFlight, ErasureStopsTheRest,
     Waiting, Status, ErasedRows
<1> QED
  BY <1>1, <1>2, <1>3, <1>4, <1>5 DEF OInv

-----------------------------------------------------------------------------
(* The invariants of the outbox.                                           *)

\* Rows, batches, copies and histories keep together whatever the drains, the
\* writers, the crons and the erasure do.
THEOREM Invariance == Spec => []OInv
<1>1. ASSUME Init
      PROVE  OInv
  <2>1. 0 \in 0..MaxAttempts /\ 0 \in 0..MaxFailures /\ 0 \in 0..MaxLostLogs
    BY OutboxAssumption
  <2>2. OutboxTypeOK
    BY <1>1, <2>1 DEF Init, NoRow, Idle, OutboxTypeOK, OutboxRow, DrainedRow
  <2>3. /\ \A m \in Messages : Status(m) = "ABSENT" /\ delivered[m] = 0 /\ lostLogs[m] = 0
        /\ \A d \in Drains : drain[d].stage = "idle"
        /\ ~erased /\ touched = {}
    BY <1>1 DEF Init, NoRow, Idle, Status
  <2>4. DrainsCount /\ RowsCount /\ OneSenderPerMessage /\ NoEarlyDeadLetter
    BY <2>3 DEF DrainsCount, RowsCount, Waiting, OneSenderPerMessage, Holds,
       NoEarlyDeadLetter, Status
  <2>5. /\ OpenMessagesAreUnsent /\ CopiesAreLostLogs
        /\ OpenMessagesAreInFlight /\ ErasureStopsTheRest
    BY <2>3 DEF OpenMessagesAreUnsent, CopiesAreLostLogs,
       OpenMessagesAreInFlight, ErasureStopsTheRest
  <2> QED
    BY <2>2, <2>4, <2>5 DEF OInv
<1>2. OInv /\ UNCHANGED vars => OInv'
  BY DEF vars, history, OInv, OutboxTypeOK, DrainsCount, RowsCount, Waiting,
     OneSenderPerMessage, Holds, OpenMessagesAreUnsent, CopiesAreLostLogs,
     NoEarlyDeadLetter, OpenMessagesAreInFlight, ErasureStopsTheRest, Status
<1>3. ASSUME OInv, NEW d \in Drains, DrainStep(d)
      PROVE  OInv'
  BY <1>3, ListDueKeeps, ClaimKeeps, SkipKeeps, UnknownTemplateKeeps,
     ProviderAcceptsKeeps, ProviderNoopKeeps, ProviderRefusesKeeps,
     LogSentKeeps, LogFailedKeeps, FinishKeeps, DrainDiesKeeps DEF DrainStep
<1>4. OInv /\ Next => OInv'
  BY <1>3, ResolveRecipientKeeps, EnqueueForChannelsKeeps, BackOffEndsKeeps,
     PruneDeadLettersKeeps, PruneLogsKeeps, EraseCustomerKeeps DEF Next
<1> QED
  BY <1>1, <1>2, <1>4, PTL DEF Spec

\* Every variable of the outbox keeps its type: in particular no row, and no
\* batch, counts more attempts than MAX_ATTEMPTS.
THEOREM TypeCorrectness == Spec => []OutboxTypeOK
<1>1. OInv => OutboxTypeOK
  BY DEF OInv
<1> QED
  BY <1>1, Invariance, PTL

\* The conditional claim keeps a message to one drain, however many overlap.
THEOREM OneSender == Spec => []OneSenderPerMessage
<1>1. OInv => OneSenderPerMessage
  BY DEF OInv
<1> QED
  BY <1>1, Invariance, PTL

\* A second copy needs a lost log row, whatever overlaps or dies.
THEOREM Copies == Spec => []CopiesAreLostLogs
<1>1. OInv => CopiesAreLostLogs
  BY DEF OInv
<1> QED
  BY <1>1, Invariance, PTL

\* A message is given up only after MAX_ATTEMPTS dispatches have failed.
THEOREM DeadLetters == Spec => []NoEarlyDeadLetter
<1>1. OInv => NoEarlyDeadLetter
  BY DEF OInv
<1> QED
  BY <1>1, Invariance, PTL

\* After an erasure nothing is sent or logged but what was in flight.
THEOREM Erasure == Spec => []ErasureStopsTheRest
<1>1. OInv => ErasureStopsTheRest
  BY DEF OInv
<1> QED
  BY <1>1, Invariance, PTL

-----------------------------------------------------------------------------
(* The outbox implements the queue: what it looks like as a queue.         *)

Handed(m) == \E d \in Drains : Holds(d, m) /\ drain[d].stage # "claimed"

\* The state of a message's queue entry.
Place(m) ==
    CASE Status(m) = "ABSENT" -> "none"
      [] m \in Waiting -> "waiting"
      [] Status(m) = "PROCESSING" -> IF Held(m) THEN "taken" ELSE "abandoned"
      [] OTHER -> "closed"

\* Where the queue has a message, by the status of its row.
LEMMA PlaceIs ==
    ASSUME OutboxTypeOK, NEW m \in Messages
    PROVE  /\ Place(m) = "none" <=> Status(m) = "ABSENT"
           /\ Place(m) = "waiting" <=> Status(m) \in {"PENDING", "FAILED"}
           /\ Place(m) = "taken" <=> Status(m) = "PROCESSING" /\ Held(m)
           /\ Place(m) = "abandoned" <=> Status(m) = "PROCESSING" /\ ~Held(m)
           /\ Place(m) = "closed" <=> Status(m) \in {"SENT", "DEAD_LETTER", "DELETED"}
  BY DEF Place, Waiting, Status, OutboxTypeOK, OutboxRow

\* The same of the next state.
LEMMA PlaceIsNext ==
    ASSUME OutboxTypeOK', NEW m \in Messages
    PROVE  /\ Place(m)' = "none" <=> Status(m)' = "ABSENT"
           /\ Place(m)' = "waiting" <=> Status(m)' \in {"PENDING", "FAILED"}
           /\ Place(m)' = "taken" <=> Status(m)' = "PROCESSING" /\ Held(m)'
           /\ Place(m)' = "abandoned" <=> Status(m)' = "PROCESSING" /\ ~Held(m)'
           /\ Place(m)' = "closed" <=> Status(m)' \in {"SENT", "DEAD_LETTER", "DELETED"}
  BY DEF Place, Waiting, Status, OutboxTypeOK, OutboxRow

\* A step of the queue in terms of the outbox: where one message goes ...
Goes(m, from, to) ==
    /\ Place(m) = from
    /\ Place(m)' = to
    /\ \A n \in Messages \ {m} : Place(n)' = Place(n) /\ Handed(n)' = Handed(n)

\* One message goes, the others stay.
LEMMA QueueMove ==
    ASSUME NEW m \in Messages, NEW from, NEW to, Goes(m, from, to)
    PROVE  Queue!Move(m, from, to)
<1> DEFINE state == [n \in Messages |-> Place(n)]
<1>1. state[m] = from /\ state' = [state EXCEPT ![m] = to]
  BY DEF Goes
<1> QED
  BY <1>1 DEF Queue!Move, Place, Status, Held

\* The same of what has been handed over.
LEMMA QueueHandsOver ==
    ASSUME NEW m \in Messages, NEW from, NEW to, Goes(m, from, to),
           NEW b \in BOOLEAN, Handed(m)' = b
    PROVE  [n \in Messages |-> Handed(n)]' =
             [[n \in Messages |-> Handed(n)] EXCEPT ![m] = b]
  BY DEF Goes

\* The steps of the queue, each from what it changes.
LEMMA QueueTake ==
    ASSUME NEW m \in Messages, Goes(m, "waiting", "taken"), Handed(m)' = Handed(m)
    PROVE  Queue!Take(m)
<1>1. [n \in Messages |-> Handed(n)]' = [n \in Messages |-> Handed(n)]
  BY DEF Goes
<1> QED
  BY <1>1, QueueMove DEF Queue!Take, Handed

\* A message that is let go is no longer one that was handed over.
LEMMA QueueBack ==
    ASSUME NEW m \in Messages, Handed(m)' = FALSE
    PROVE  /\ Goes(m, "taken", "waiting") => Queue!PutBack(m)
           /\ Goes(m, "taken", "closed") => Queue!Close(m)
           /\ Goes(m, "taken", "abandoned") => Queue!Abandon(m)
<1>1. ASSUME NEW to, Goes(m, "taken", to)
      PROVE  /\ Queue!Move(m, "taken", to)
             /\ [n \in Messages |-> Handed(n)]' =
                  [[n \in Messages |-> Handed(n)] EXCEPT ![m] = FALSE]
  BY <1>1, QueueMove, QueueHandsOver
<1> QED
  BY <1>1 DEF Queue!PutBack, Queue!Close, Queue!Abandon, Handed

\* Handing over leaves the message where it is.
LEMMA QueueHandOver ==
    ASSUME NEW m \in Messages, Goes(m, "taken", "taken"), ~Handed(m), Handed(m)'
    PROVE  Queue!HandOver(m)
  BY DEF Goes, Queue!HandOver, Place, Handed, Status, Held

\* Nothing moves.
LEMMA QueueStays ==
    ASSUME \A m \in Messages : Place(m)' = Place(m) /\ Handed(m)' = Handed(m)
    PROVE  UNCHANGED Queue!vars
  BY DEF Queue!vars, Place, Handed, Status, Held

\* Who holds a message has it to itself: the queue has it as taken.
LEMMA HeldIs ==
    ASSUME OInv, NEW d \in Drains, Holds(d, drain[d].msg)
    PROVE  LET m == drain[d].msg IN
           /\ m \in Messages
           /\ Place(m) = "taken"
           /\ Handed(m) <=> drain[d].stage # "claimed"
<1>1. drain[d].msg \in Messages
  BY DEF OInv, DrainsCount, Holds
<1>2. Status(drain[d].msg) = "PROCESSING"
  BY <1>1 DEF OInv, OneSenderPerMessage, Status
<1>3. Place(drain[d].msg) = "taken"
  BY <1>1, <1>2, PlaceIs DEF OInv, Held
<1>4. Handed(drain[d].msg) <=> drain[d].stage # "claimed"
  BY <1>1 DEF Handed, OInv, OneSenderPerMessage
<1> QED BY <1>1, <1>3, <1>4

\* A drain that works on its message moves no other.
LEMMA OthersStay ==
    ASSUME OInv, NEW d \in Drains, NEW m \in Messages,
           drain[d].msg = m,
           drain'[d].msg = m \/ drain'[d].stage = "idle",
           \A e \in Drains : e # d => drain'[e] = drain[e],
           \A n \in Messages : n # m => outbox'[n] = outbox[n]
    PROVE  \A n \in Messages \ {m} : Place(n)' = Place(n) /\ Handed(n)' = Handed(n)
<1> SUFFICES ASSUME NEW n \in Messages, n # m
             PROVE  Place(n)' = Place(n) /\ Handed(n)' = Handed(n)
  OBVIOUS
<1>1. \A e \in Drains : Holds(e, n)' <=> Holds(e, n)
  BY DEF Holds
<1>2. \A e \in Drains : Holds(e, n) => drain'[e] = drain[e]
  BY DEF Holds
<1>3. Status(n)' = Status(n) /\ (n \in Waiting)' = (n \in Waiting)
  BY DEF Status, Waiting
<1>4. Held(n)' = Held(n)
  BY <1>1 DEF Held
<1>5. Place(n)' = Place(n)
  BY <1>3, <1>4 DEF Place
<1>6. Handed(n)' = Handed(n)
  BY <1>1, <1>2 DEF Handed
<1> QED BY <1>5, <1>6

\* HeldIs of the next state.
LEMMA HeldIsNext ==
    ASSUME OInv', NEW d \in Drains, NEW m \in Messages, Holds(d, m)'
    PROVE  /\ Place(m)' = "taken"
           /\ Handed(m)' <=> drain'[d].stage # "claimed"
<1>1. Status(m)' = "PROCESSING" /\ Held(m)' /\ OutboxTypeOK'
  BY DEF OInv, OneSenderPerMessage, Status, Held
<1>2. Place(m)' = "taken"
  BY <1>1, PlaceIsNext
<1>3. Handed(m)' <=> drain'[d].stage # "claimed"
  BY DEF Handed, OInv, OneSenderPerMessage, Holds
<1> QED BY <1>2, <1>3

\* A drain goes on with the message it holds: what it does first with it is to
\* hand it over, whatever comes of that.
LEMMA SenderGoesOn ==
    ASSUME OInv, OInv', NEW d \in Drains, drain[d].stage \notin {"idle", "listed"},
           drain'[d].stage \notin {"idle", "listed", "claimed"},
           drain'[d].msg = drain[d].msg,
           \A e \in Drains : e # d => drain'[e] = drain[e], outbox' = outbox
    PROVE  Queue!Next \/ UNCHANGED Queue!vars
<1>0. PICK m \in Messages : m = drain[d].msg
  BY DEF OInv, DrainsCount
<1>1. Holds(d, m) /\ Holds(d, m)'
  BY <1>0 DEF Holds
<1>2. /\ Place(m) = "taken" /\ Place(m)' = "taken"
      /\ Handed(m) <=> drain[d].stage # "claimed"
      /\ Handed(m)'
  BY <1>0, <1>1, HeldIs, HeldIsNext
<1>3. \A n \in Messages \ {m} : Place(n)' = Place(n) /\ Handed(n)' = Handed(n)
  BY <1>0, OthersStay
<1>4. CASE drain[d].stage = "claimed"
  <2>1. Goes(m, "taken", "taken")
    BY <1>2, <1>3 DEF Goes
  <2> QED
    BY <1>1, <1>2, <1>4, <2>1, QueueHandOver DEF Queue!Next
<1>5. CASE drain[d].stage # "claimed"
  <2>1. Handed(m)' = Handed(m)
    BY <1>1, <1>2, <1>5 DEF Handed
  <2>2. \A n \in Messages : Place(n)' = Place(n) /\ Handed(n)' = Handed(n)
    BY <1>2, <1>3, <2>1
  <2> QED
    BY <2>2, QueueStays
<1> QED BY <1>4, <1>5

\* A drain lets its message go: back, done with, or abandoned.
LEMMA SenderLetsGo ==
    ASSUME OInv, OInv', NEW d \in Drains, NEW m \in Messages, Holds(d, m),
           drain'[d].stage = "idle",
           \A e \in Drains : e # d => drain'[e] = drain[e],
           \A n \in Messages : n # m => outbox'[n] = outbox[n],
           Place(m)' \in {"waiting", "closed", "abandoned"}
    PROVE  Queue!Next
<1>0. m = drain[d].msg
  BY DEF Holds
<1>2. Place(m) = "taken"
  BY <1>0, HeldIs
<1>3. \A n \in Messages \ {m} : Place(n)' = Place(n) /\ Handed(n)' = Handed(n)
  BY <1>0, OthersStay
<1>4. Handed(m)' = FALSE
  <2>1. \A e \in Drains : e # d => ~Holds(e, m)
    BY DEF OInv, OneSenderPerMessage
  <2>2. \A e \in Drains : ~Holds(e, m)'
    BY <2>1 DEF Holds
  <2> QED
    BY <2>2 DEF Handed
<1>5. Goes(m, "taken", "waiting") \/ Goes(m, "taken", "closed") \/ Goes(m, "taken", "abandoned")
  BY <1>2, <1>3 DEF Goes
<1> QED
  BY <1>4, <1>5, QueueBack DEF Queue!Next

\* A drain that holds no message moves none, unless it claims it.
LEMMA BystanderStays ==
    ASSUME OInv, outbox' = outbox, NEW d \in Drains,
           \A e \in Drains : e # d => drain'[e] = drain[e],
           drain[d].stage \in {"idle", "listed"}, drain'[d].stage \in {"idle", "listed"}
    PROVE  UNCHANGED Queue!vars
<1>1. \A n \in Messages, e \in Drains : Holds(e, n)' <=> Holds(e, n)
  BY DEF Holds
<1>2. \A n \in Messages : Held(n)' = Held(n) /\ Handed(n)' = Handed(n)
  <2>1. \A n \in Messages, e \in Drains : Holds(e, n) => drain'[e] = drain[e]
    BY DEF Holds
  <2> QED
    BY <1>1, <2>1 DEF Held, Handed
<1>3. \A n \in Messages : Place(n)' = Place(n)
  BY <1>2 DEF Place, Status, Waiting
<1> QED
  BY <1>2, <1>3, QueueStays

\* A claim is the queue's Take, or nothing when it comes too late.
LEMMA ClaimTakes ==
    ASSUME OInv, OInv', NEW d \in Drains, Claim(d)
    PROVE  Queue!Next \/ UNCHANGED Queue!vars
<1>a. PICK m \in Messages : m = drain[d].msg
  BY DEF Claim, OInv, DrainsCount
<1>0. m = drain[d].msg /\ drain[d].stage = "listed" /\ drain \in [Drains -> DrainedRow]
      /\ outbox \in [Messages -> OutboxRow]
  BY <1>a DEF Claim, OInv, OutboxTypeOK
<1>1. CASE m \in Waiting
  <2>1. /\ drain' = [drain EXCEPT ![d].stage = "claimed"]
        /\ outbox' = [outbox EXCEPT ![m].status = "PROCESSING"]
    BY <1>0, <1>1 DEF Claim
  <2>2. /\ drain'[d].stage = "claimed" /\ drain'[d].msg = m
        /\ \A e \in Drains : e # d => drain'[e] = drain[e]
        /\ \A n \in Messages : n # m => outbox'[n] = outbox[n]
    BY <1>0, <2>1 DEF DrainedRow
  <2>3. Holds(d, m)'
    BY <2>2 DEF Holds
  <2>4. Place(m) = "waiting" /\ Place(m)' = "taken"
    BY <1>0, <1>1, <2>3, HeldIsNext, PlaceIs DEF OInv, Waiting, Status
  <2>5. ~Handed(m) /\ ~Handed(m)'
    <3>1. \A e \in Drains : ~Holds(e, m)
      BY <1>0, <1>1 DEF OInv, OneSenderPerMessage, Waiting
    <3> QED
      BY <1>0, <2>2, <2>3, <3>1, HeldIsNext DEF Handed
  <2>6. Goes(m, "waiting", "taken") /\ Handed(m)' = Handed(m)
    <3>1. \A n \in Messages \ {m} : Place(n)' = Place(n) /\ Handed(n)' = Handed(n)
      BY <1>0, <2>2, OthersStay
    <3> QED
      BY <2>4, <2>5, <3>1 DEF Goes, Handed
  <2> QED
    BY <1>0, <2>6, QueueTake DEF Queue!Next
<1>2. CASE m \notin Waiting
  <2>1. drain' = [drain EXCEPT ![d] = Idle] /\ outbox' = outbox
    BY <1>0, <1>2 DEF Claim
  <2>2. drain'[d].stage = "idle" /\ \A e \in Drains : e # d => drain'[e] = drain[e]
    BY <1>0, <2>1 DEF Idle
  <2> QED
    BY <1>0, <2>1, <2>2, BystanderStays
<1> QED BY <1>1, <1>2

\* The end of a sending puts the message back or closes it.
LEMMA FinishLetsGo ==
    ASSUME OInv, OInv', NEW d \in Drains, Finish(d)
    PROVE  Queue!Next
<1>a. PICK m \in Messages : m = drain[d].msg
  BY DEF Finish, OInv, DrainsCount
<1>1. /\ drain'[d].stage = "idle"
      /\ Holds(d, m)
      /\ \A e \in Drains : e # d => drain'[e] = drain[e]
      /\ \A n \in Messages : n # m => outbox'[n] = outbox[n]
      /\ Status(m)' \in {"SENT", "DEAD_LETTER", "FAILED"}
  BY <1>a DEF Finish, Idle, Attempted, Status, OInv, OutboxTypeOK, Holds
<1>2. Place(m)' \in {"waiting", "closed"}
  BY <1>1, PlaceIsNext DEF OInv
<1> QED
  BY <1>1, <1>2, SenderLetsGo

\* A drain that dies holding a message abandons it.
LEMMA DeathAbandons ==
    ASSUME OInv, OInv', NEW d \in Drains, DrainDies(d)
    PROVE  Queue!Next \/ UNCHANGED Queue!vars
<1>a. PICK m \in Messages : m = drain[d].msg
  BY DEF DrainDies, OInv, DrainsCount
<1>1. /\ drain'[d].stage = "idle" /\ outbox' = outbox
      /\ \A e \in Drains : e # d => drain'[e] = drain[e]
  BY DEF DrainDies, Idle, OInv, OutboxTypeOK
<1>2. CASE drain[d].stage = "listed"
  BY <1>1, <1>2, BystanderStays
<1>3. CASE drain[d].stage # "listed"
  <2>1. Holds(d, m)
    BY <1>a, <1>3 DEF DrainDies, Holds
  <2>2. Status(m) = "PROCESSING" /\ \A e \in Drains : Holds(e, m) => e = d
    BY <1>1, <2>1 DEF OInv, OneSenderPerMessage, Status
  <2>3. Status(m)' = "PROCESSING" /\ ~Held(m)'
    BY <1>1, <2>2 DEF Held, Holds, Status
  <2>4. Place(m)' = "abandoned"
    BY <1>1, <2>3, PlaceIsNext DEF OInv
  <2> QED
    BY <1>1, <2>1, <2>4, SenderLetsGo
<1> QED BY <1>2, <1>3

\* Without a drain a message moves by its status alone.
LEMMA StatusMoves ==
    ASSUME OInv, OInv', drain' = drain, NEW m \in Messages
    PROVE  /\ Handed(m)' = Handed(m)
           /\ Status(m)' = Status(m) => Place(m)' = Place(m)
<1>1. Held(m)' = Held(m) /\ Handed(m)' = Handed(m)
  BY DEF Held, Handed, Holds
<1> QED
  BY <1>1 DEF Place, Status, Waiting

\* A booking's messages are put in together.
LEMMA EnqueueAll ==
    ASSUME OInv, OInv', NEW w \in Writers, NEW ms \in SUBSET Messages,
           EnqueueForChannels(w, ms)
    PROVE  Queue!Next
<1>1. /\ drain' = drain
      /\ \A m \in ms : Status(m) = "ABSENT" /\ Status(m)' = "PENDING"
      /\ \A m \in Messages \ ms : Status(m)' = Status(m)
  BY DEF EnqueueForChannels, Status
<1>2. \A m \in ms : Place(m) = "none" /\ Place(m)' = "waiting"
  BY <1>1, PlaceIs, PlaceIsNext DEF OInv
<1>3. \A m \in Messages : Place(m)' = (IF m \in ms THEN "waiting" ELSE Place(m))
  BY <1>1, <1>2, StatusMoves
<1>4. \A m \in Messages : Handed(m)' = Handed(m)
  BY <1>1, StatusMoves
<1>5. /\ \A m \in ms : [n \in Messages |-> Place(n)][m] = "none"
      /\ [n \in Messages |-> Place(n)]' =
           [n \in Messages |-> IF n \in ms THEN "waiting"
                              ELSE [k \in Messages |-> Place(k)][n]]
      /\ [n \in Messages |-> Handed(n)]' = [n \in Messages |-> Handed(n)]
  BY <1>2, <1>3, <1>4
<1>6. Queue!EnqueueMany(ms)
  BY <1>5 DEF Queue!EnqueueMany, Place, Handed, Status, Held
<1> QED
  BY <1>6 DEF Queue!Next

\* An erasure takes out messages that wait.
LEMMA ErasureWithdraws ==
    ASSUME OInv, OInv', NEW matched \in Matched, EraseCustomer(matched)
    PROVE  Queue!Next
<1> DEFINE ms == ErasedRows(matched)
<1>0. PICK e \in SUBSET Messages : e = ms
  BY DEF ErasedRows, Waiting
<1>1. /\ drain' = drain
      /\ \A m \in e : Status(m) \in {"PENDING", "FAILED"} /\ Status(m)' = "DELETED"
      /\ \A m \in Messages \ e : Status(m)' = Status(m)
  BY <1>0 DEF EraseCustomer, Status, ErasedRows, Waiting, OInv, OutboxTypeOK,
     OutboxRow
<1>2. \A m \in e : Place(m) = "waiting" /\ Place(m)' = "closed"
  BY <1>1, PlaceIs, PlaceIsNext DEF OInv
<1>3. \A m \in Messages : Place(m)' = (IF m \in e THEN "closed" ELSE Place(m))
  BY <1>1, <1>2, StatusMoves
<1>4. \A m \in Messages : Handed(m)' = Handed(m)
  BY <1>1, StatusMoves
<1>5. /\ \A m \in e : [n \in Messages |-> Place(n)][m] = "waiting"
      /\ [n \in Messages |-> Place(n)]' =
           [n \in Messages |-> IF n \in e THEN "closed"
                              ELSE [k \in Messages |-> Place(k)][n]]
      /\ [n \in Messages |-> Handed(n)]' = [n \in Messages |-> Handed(n)]
  BY <1>2, <1>3, <1>4
<1>6. Queue!WithdrawMany(e)
  BY <1>5 DEF Queue!WithdrawMany, Place, Handed, Status, Held
<1> QED
  BY <1>6 DEF Queue!Next

\* The end of a back-off and the pruning of dead letters are not the queue's.
LEMMA RowsTurn ==
    ASSUME OInv, OInv', NEW m \in Messages, BackOffEnds(m) \/ PruneDeadLetters(m)
    PROVE  UNCHANGED Queue!vars
<1>1. /\ drain' = drain
      /\ \A n \in Messages \ {m} : Status(n)' = Status(n)
      /\ \/ Status(m)' = Status(m)
         \/ Status(m) = "DEAD_LETTER" /\ Status(m)' = "DELETED"
  BY DEF BackOffEnds, PruneDeadLetters, Status, OInv, OutboxTypeOK, OutboxRow
<1>2. Place(m)' = Place(m)
  BY <1>1, StatusMoves, PlaceIs, PlaceIsNext DEF OInv
<1>3. \A n \in Messages : Place(n)' = Place(n) /\ Handed(n)' = Handed(n)
  BY <1>1, <1>2, StatusMoves
<1> QED
  BY <1>3, QueueStays

\* Steps that leave rows and drains alone.
LEMMA NothingMoves ==
    ASSUME OInv, drain' = drain, outbox' = outbox
    PROVE  UNCHANGED Queue!vars
<1>1. \A m \in Messages : Place(m)' = Place(m) /\ Handed(m)' = Handed(m)
  BY DEF Place, Handed, Status, Held, Holds, Waiting
<1> QED
  BY <1>1, QueueStays

\* Each step of a drain.
LEMMA DrainMaps ==
    ASSUME OInv, OInv', NEW d \in Drains, DrainStep(d)
    PROVE  Queue!Next \/ UNCHANGED Queue!vars
<1>0. drain \in [Drains -> DrainedRow]
  BY DEF OInv, OutboxTypeOK
<1>1. ASSUME NEW m \in Messages, ListDue(d, m)
      PROVE  UNCHANGED Queue!vars
  BY <1>0, <1>1, BystanderStays DEF ListDue
<1>2. ASSUME Skip(d) \/ UnknownTemplate(d) \/ ProviderAccepts(d) \/ ProviderNoop(d)
             \/ ProviderRefuses(d) \/ LogFailed(d)
      PROVE  Queue!Next \/ UNCHANGED Queue!vars
  <2>1. /\ drain[d].stage \in {"claimed", "refused"} /\ outbox' = outbox
        /\ \E s \in {"done", "failed", "accepted", "refused"} :
             drain' = [drain EXCEPT ![d] = [drain[d] EXCEPT !.stage = s]]
    BY <1>2 DEF Skip, UnknownTemplate, ProviderAccepts, ProviderNoop,
       ProviderRefuses, LogFailed
  <2>2. /\ drain'[d].stage \in {"done", "failed", "accepted", "refused"}
        /\ drain'[d].msg = drain[d].msg
        /\ \A e \in Drains : e # d => drain'[e] = drain[e]
    BY <1>0, <2>1 DEF DrainedRow
  <2> QED
    BY <2>1, <2>2, SenderGoesOn
<1>3. ASSUME LogSent(d)
      PROVE  Queue!Next \/ UNCHANGED Queue!vars
  <2>1. /\ drain[d].stage = "accepted" /\ outbox' = outbox
        /\ \E s \in {"done", "refused"} :
             drain' = [drain EXCEPT ![d] = [drain[d] EXCEPT !.stage = s]]
    BY <1>3 DEF LogSent
  <2>2. /\ drain'[d].stage \in {"done", "refused"}
        /\ drain'[d].msg = drain[d].msg
        /\ \A e \in Drains : e # d => drain'[e] = drain[e]
    BY <1>0, <2>1 DEF DrainedRow
  <2> QED
    BY <2>1, <2>2, SenderGoesOn
<1> QED
  BY <1>1, <1>2, <1>3, ClaimTakes, FinishLetsGo, DeathAbandons DEF DrainStep

\* Each step of the outbox.
LEMMA StepMaps ==
    ASSUME OInv, OInv', [Next]_vars
    PROVE  [Queue!Next]_(Queue!vars)
<1>1. CASE \E w \in Writers : ResolveRecipient(w)
  BY <1>1, NothingMoves DEF ResolveRecipient
<1>2. CASE \E m \in Messages : PruneLogs(m)
  BY <1>2, NothingMoves DEF PruneLogs
<1>3. CASE UNCHANGED vars
  BY <1>3, NothingMoves DEF vars
<1> QED
  BY <1>1, <1>2, <1>3, EnqueueAll, ErasureWithdraws, RowsTurn, DrainMaps DEF
     Next

\* An empty outbox is an empty queue.
LEMMA QueueInit == Init => Queue!Init
<1>1. SUFFICES ASSUME Init PROVE Queue!Init
  OBVIOUS
<1>2. \A m \in Messages : Place(m) = "none" /\ Handed(m) = FALSE
  BY <1>1 DEF Init, NoRow, Idle, Place, Status, Handed, Holds, Waiting
<1>3. /\ [m \in Messages |-> Place(m)] = [m \in Messages |-> "none"]
      /\ [m \in Messages |-> Handed(m)] = [m \in Messages |-> FALSE]
  BY <1>2
<1> QED
  BY <1>3 DEF Queue!Init, Place, Handed, Status, Held

\* Rows, batches and drains implement the abstract queue: a message that is
\* claimed is handed over at most once before it is put back, closed or
\* abandoned.
THEOREM Refinement == Spec => ImplementsMailQueue
<1>1. OInv /\ OInv' /\ [Next]_vars => [Queue!Next]_(Queue!vars)
  BY StepMaps
<1> QED
  BY QueueInit, <1>1, Invariance, PTL DEF Spec, ImplementsMailQueue, Queue!Spec
=============================================================================
