----------------------------- MODULE RateLimit ------------------------------
(***************************************************************************)
(* The limiter every action, API route and sign-in page asks, where Redis   *)
(* is not configured: a count per key and fixed window in the memory of the *)
(* instance.  A window begins with the first request after the last ended,  *)
(* so two full ones can meet.  One key of one instance: keys and instances   *)
(* share nothing.  With Redis the library's sliding window answers, and a   *)
(* call of it that fails lets the request through.                          *)
(***************************************************************************)
EXTENDS FiniteSets, Naturals, Sequences

CONSTANTS WindowMs,   \* ticks of a window
          MaxPerKey,  \* requests let through in one
          Horizon,    \* bound: the clock runs 0..Horizon
          NoBucket    \* the key has no bucket

Bucket == [count : Nat, resetAt : Nat]

ASSUME RateLimitAssumption ==
    /\ WindowMs \in Nat \ {0} /\ MaxPerKey \in Nat \ {0} /\ Horizon \in Nat
    /\ NoBucket \notin Bucket

VARIABLES now,     \* the clock
          bucket,  \* the key's bucket
          passed   \* history: the ticks of the requests let through, in their order

rateLimitVars == <<now, bucket, passed>>

RateLimitInit ==
    /\ now = 0
    /\ bucket = NoBucket
    /\ passed = <<>>

Over == bucket = NoBucket \/ bucket.resetAt <= now

LetThrough == passed' = Append(passed, now)

\* Mutant: the new window is counted from the end of the old one.
OpenBackdated ==
    /\ Over = TRUE
    /\ bucket' = [count |-> 1,
                  resetAt |-> IF bucket = NoBucket THEN now + WindowMs ELSE now + 1]
    /\ LetThrough /\ UNCHANGED now

OpenWindow ==
    /\ Over = TRUE
    /\ bucket' = [count |-> 1, resetAt |-> now + WindowMs]
    /\ LetThrough /\ UNCHANGED now

CountInWindow ==
    /\ ~Over /\ bucket.count < MaxPerKey
    /\ bucket' = [bucket EXCEPT !.count = @ + 1]
    /\ LetThrough /\ UNCHANGED now

Prune ==
    /\ bucket # NoBucket /\ Over = TRUE
    /\ bucket' = NoBucket
    /\ UNCHANGED <<now, passed>>

Tick == now < Horizon /\ now' = now + 1 /\ UNCHANGED <<bucket, passed>>

\* A request over the limit changes nothing.
RateLimitNext == OpenWindow \/ CountInWindow \/ Prune \/ Tick

-----------------------------------------------------------------------------
\* A bucket counts from one, and ends at most a window from now.
RateLimitTypeOK ==
    /\ now \in 0..Horizon
    /\ bucket # NoBucket =>
         bucket \in Bucket /\ bucket.count \in 1..MaxPerKey /\ bucket.resetAt <= now + WindowMs
    /\ passed \in Seq(0..now)

\* The most a key gets through in any span as long as a window, wherever the
\* windows and the pruning fall: the rest of one window and all of the next.
BurstsAreBounded ==
    \A t \in 0..Horizon :
        Cardinality({i \in DOMAIN passed : passed[i] \in t..(t + WindowMs - 1)})
            <= 2 * MaxPerKey - 1
=============================================================================
