--------------------------- MODULE Refunds_proofs ---------------------------
(***************************************************************************)
(* Proofs about Refunds, for any admins, deciders, webhook handlers,       *)
(* amounts and numbers of rows: its type and safety invariants.  What the  *)
(* invariants add up is a fold over a finite set, and the first part has   *)
(* the facts about it.                                                     *)
(***************************************************************************)
EXTENDS Refunds, FiniteSetTheorems, WellFoundedInduction, TLAPS

-----------------------------------------------------------------------------
(* Sums over finite sets.                                                  *)

Total(t, S) == MapThenSumSet(LAMBDA x : t[x].amount, S)

Pick(s) == CHOOSE x \in s : TRUE
Sums(t, S, g) ==
    g = [s \in SUBSET S |->
           IF s = {} THEN 0 ELSE t[Pick(s)].amount + g[s \ {Pick(s)}]]

\* A non-empty set has an element to take.
LEMMA PickIn == \A s : s # {} => Pick(s) \in s
  BY DEF Pick

\* Induction over finite sets: a family of subsets of a finite set has a smallest.
LEMMA SmallestSet ==
  ASSUME NEW S, IsFiniteSet(S), NEW Bad, Bad \subseteq SUBSET S, Bad # {}
  PROVE \E s \in Bad : \A t \in SUBSET s : t # s => t \notin Bad
<1>1. IsWellFoundedOn(StrictSubsetOrdering(S), FiniteSubsetsOf(S))
  BY FS_StrictSubsetOrderingWellFounded
<1>2. SUBSET S = FiniteSubsetsOf(S)
  BY FS_Subset DEF FiniteSubsetsOf
<1>3. PICK s \in Bad : \A t \in Bad : ~ (<<t, s>> \in StrictSubsetOrdering(S))
  BY <1>1, <1>2, WFMin
<1> QED
  BY <1>3 DEF StrictSubsetOrdering

\* The recursion over the subsets has at most one solution ...
LEMMA SumsUnique ==
  ASSUME NEW t, NEW S, IsFiniteSet(S), NEW g, NEW h, Sums(t, S, g), Sums(t, S, h)
  PROVE  g = h
<1> DEFINE Bad == {s \in SUBSET S : g[s] # h[s]}
<1>1. SUFFICES ASSUME Bad # {} PROVE FALSE
  BY DEF Sums
<1>2. PICK s \in Bad : \A u \in SUBSET s : u # s => u \notin Bad
  <2> HIDE DEF Bad
  <2>1. Bad \subseteq SUBSET S
    BY DEF Bad
  <2> QED
    BY <1>1, <2>1, SmallestSet
<1>3. s \in SUBSET S /\ g[s] # h[s]
  OBVIOUS
<1>4. CASE s = {}
  BY <1>3, <1>4 DEF Sums
<1>5. CASE s # {}
  <2>1. s \ {Pick(s)} \in SUBSET s /\ s \ {Pick(s)} # s
    BY <1>5, PickIn
  <2>2. g[s \ {Pick(s)}] = h[s \ {Pick(s)}]
    BY <1>2, <1>3, <2>1
  <2> QED
    BY <1>3, <1>5, <2>2 DEF Sums
<1> QED
  BY <1>4, <1>5

\* ... the fold picks one ...
LEMMA TotalIter ==
  ASSUME NEW t, NEW S
  PROVE  Total(t, S) = (CHOOSE g : Sums(t, S, g))[S]
  BY DEF Total, Sums, Pick, MapThenSumSet, MapThenFoldSet

\* ... which solves it on fewer subsets as well ...
LEMMA SumsRestrict ==
  ASSUME NEW t, NEW S, NEW R \in SUBSET S, NEW g, Sums(t, S, g),
         NEW h, h = [s \in SUBSET R |-> g[s]]
  PROVE  Sums(t, R, h)
<1>1. SUFFICES ASSUME NEW s \in SUBSET R
               PROVE h[s] = IF s = {} THEN 0 ELSE t[Pick(s)].amount + h[s \ {Pick(s)}]
  BY DEF Sums
<1>2. s \in SUBSET S /\ s \ {Pick(s)} \in SUBSET R
  OBVIOUS
<1>3. h[s] = g[s] /\ h[s \ {Pick(s)}] = g[s \ {Pick(s)}]
  BY <1>2
<1> QED
  BY <1>2, <1>3 DEF Sums

\* where solutions exist
LEMMA TotalIs ==
  ASSUME NEW t, NEW S, IsFiniteSet(S), NEW g, Sums(t, S, g)
  PROVE  \A s \in SUBSET S : Total(t, s) = g[s]
<1> TAKE s \in SUBSET S
<1> DEFINE h == [u \in SUBSET s |-> g[u]]
<1> h = [u \in SUBSET s |-> g[u]]
  OBVIOUS
<1> HIDE DEF h
<1>1. Sums(t, s, h)
  BY SumsRestrict
<1> DEFINE c == CHOOSE k : Sums(t, s, k)
<1>2. Sums(t, s, c)
  BY <1>1
<1>3. IsFiniteSet(s)
  BY FS_Subset
<1> HIDE DEF c, h
<1>4. c = h
  BY <1>1, <1>2, <1>3, SumsUnique
<1>5. Total(t, s) = c[s]
  BY TotalIter DEF c
<1> QED
  BY <1>4, <1>5 DEF h

\* ... and there is one.
LEMMA SumsExist ==
  ASSUME NEW t, NEW S, IsFiniteSet(S)
  PROVE  \E g : Sums(t, S, g)
<1> DEFINE Bad == {s \in SUBSET S : ~ \E g : Sums(t, s, g)}
<1>1. SUFFICES ASSUME Bad # {} PROVE FALSE
  OBVIOUS
<1>2. PICK s \in Bad : \A u \in SUBSET s : u # s => u \notin Bad
  <2> HIDE DEF Bad
  <2>1. Bad \subseteq SUBSET S
    BY DEF Bad
  <2> QED
    BY <1>1, <2>1, SmallestSet
<1>3. s \in SUBSET S /\ \A u \in SUBSET s : u # s => \E g : Sums(t, u, g)
  BY <1>2
<1> DEFINE h == [u \in SUBSET s |->
                   IF u = {} THEN 0
                   ELSE t[Pick(u)].amount + Total(t, u \ {Pick(u)})]
<1>4. ASSUME NEW u \in SUBSET s, u # s PROVE Total(t, u) = h[u]
  <2>1. PICK g : Sums(t, u, g)
    BY <1>3, <1>4
  <2>2. IsFiniteSet(u)
    BY <1>3, FS_Subset
  <2>3. Total(t, u) = g[u] /\ Total(t, u \ {Pick(u)}) = g[u \ {Pick(u)}]
    <3>1. u \in SUBSET u /\ u \ {Pick(u)} \in SUBSET u
      OBVIOUS
    <3> QED
      BY <2>1, <2>2, <3>1, TotalIs
  <2> QED
    BY <2>1, <2>3 DEF Sums
<1>5. Sums(t, s, h)
  <2>1. SUFFICES ASSUME NEW u \in SUBSET s, u # {}
                 PROVE Total(t, u \ {Pick(u)}) = h[u \ {Pick(u)}]
    BY DEF Sums
  <2>2. u \ {Pick(u)} \in SUBSET s /\ u \ {Pick(u)} # s
    BY <2>1, PickIn
  <2> HIDE DEF h
  <2> QED
    BY <2>2, <1>4
<1> QED
  BY <1>2, <1>5

\* So the fold takes one element after the other.
LEMMA TotalStep ==
  ASSUME NEW t, NEW S, IsFiniteSet(S)
  PROVE  Total(t, S) = IF S = {} THEN 0 ELSE t[Pick(S)].amount + Total(t, S \ {Pick(S)})
<1>1. PICK g : Sums(t, S, g)
  BY SumsExist
<1>2. S \in SUBSET S /\ S \ {Pick(S)} \in SUBSET S
  OBVIOUS
<1>3. Total(t, S) = g[S] /\ Total(t, S \ {Pick(S)}) = g[S \ {Pick(S)}]
  BY <1>1, <1>2, TotalIs
<1> QED
  BY <1>1, <1>2, <1>3 DEF Sums

Natural(t, S) == \A x \in S : t[x].amount \in Nat

\* Natural amounts have a natural sum.
LEMMA TotalNat ==
  ASSUME NEW t, NEW S, IsFiniteSet(S), Natural(t, S)
  PROVE  Total(t, S) \in Nat
<1> DEFINE Bad == {s \in SUBSET S : Total(t, s) \notin Nat}
<1>1. SUFFICES ASSUME Bad # {} PROVE FALSE
  OBVIOUS
<1>2. PICK s \in Bad : \A u \in SUBSET s : u # s => u \notin Bad
  <2> HIDE DEF Bad
  <2>1. Bad \subseteq SUBSET S
    BY DEF Bad
  <2> QED
    BY <1>1, <2>1, SmallestSet
<1>3. s \in SUBSET S /\ IsFiniteSet(s) /\ Total(t, s) \notin Nat
  BY <1>2, FS_Subset
<1>4. CASE s = {}
  <2> HIDE DEF Bad
  <2>1. Total(t, s) = 0
    BY <1>3, <1>4, TotalStep
  <2> QED
    BY <1>3, <2>1
<1>5. CASE s # {}
  <2>1. s \ {Pick(s)} \in SUBSET s /\ s \ {Pick(s)} # s /\ Pick(s) \in s
    BY <1>5, PickIn
  <2>2. Total(t, s \ {Pick(s)}) \in Nat
    BY <1>2, <1>3, <2>1
  <2>3. t[Pick(s)].amount \in Nat
    BY <1>3, <2>1 DEF Natural
  <2> QED
    BY <1>3, <1>5, <2>2, <2>3, TotalStep
<1> QED
  BY <1>4, <1>5

\* Whichever is taken first.
LEMMA TotalTake ==
  ASSUME NEW t, NEW S, IsFiniteSet(S), Natural(t, S), NEW y \in S
  PROVE  Total(t, S) = t[y].amount + Total(t, S \ {y})
<1> DEFINE Bad == {s \in SUBSET S : \E x \in s :
                     Total(t, s) # t[x].amount + Total(t, s \ {x})}
<1>1. SUFFICES ASSUME Bad # {} PROVE FALSE
  OBVIOUS
<1>2. PICK s \in Bad : \A u \in SUBSET s : u # s => u \notin Bad
  <2> HIDE DEF Bad
  <2>1. Bad \subseteq SUBSET S
    BY DEF Bad
  <2> QED
    BY <1>1, <2>1, SmallestSet
<1>3. s \in SUBSET S /\ IsFiniteSet(s)
  BY <1>2, FS_Subset
<1>4. PICK x \in s : Total(t, s) # t[x].amount + Total(t, s \ {x})
  BY <1>2
<1> DEFINE p == Pick(s)
           sx == s \ {x}
           sp == s \ {p}
<1>5. p \in s /\ s # {}
  BY <1>4, PickIn
<1>6. Total(t, s) = t[p].amount + Total(t, sp)
  BY <1>3, <1>5, TotalStep
<1>7. p # x
  BY <1>4, <1>6
<1>8. x \in sp /\ p \in sx /\ sp \in SUBSET s /\ sx \in SUBSET s /\ sp # s /\ sx # s
  BY <1>4, <1>5, <1>7
<1>9. Total(t, sp) = t[x].amount + Total(t, sp \ {x})
  BY <1>2, <1>3, <1>8
<1>10. Total(t, sx) = t[p].amount + Total(t, sx \ {p})
  BY <1>2, <1>3, <1>8
<1>11. sp \ {x} = sx \ {p}
  OBVIOUS
<1>12. t[x].amount \in Nat /\ t[p].amount \in Nat
  BY <1>3, <1>4, <1>5 DEF Natural
<1>13. Total(t, sp \ {x}) \in Nat
  <2>1. IsFiniteSet(sp \ {x}) /\ Natural(t, sp \ {x})
    BY <1>3, FS_Subset DEF Natural
  <2> QED
    BY <2>1, TotalNat
<1> QED
  <2> HIDE DEF sx, sp, p, Bad
  <2>1. ASSUME NEW a \in Nat, NEW b \in Nat, NEW c \in Nat
        PROVE  a + (b + c) = b + (a + c)
    OBVIOUS
  <2>2. Total(t, s) = t[p].amount + (t[x].amount + Total(t, sp \ {x}))
    BY <1>6, <1>9
  <2>3. Total(t, sx) = t[p].amount + Total(t, sp \ {x})
    BY <1>10, <1>11
  <2>4. Total(t, s) = t[x].amount + (t[p].amount + Total(t, sp \ {x}))
    BY <2>1, <2>2, <1>12, <1>13
  <2>5. Total(t, s) = t[x].amount + Total(t, sx)
    BY <2>3, <2>4
  <2> QED
    BY <1>4, <2>5 DEF sx

\* A part of a set has no larger sum.
LEMMA TotalSubset ==
  ASSUME NEW t, NEW S, IsFiniteSet(S), Natural(t, S), NEW R \in SUBSET S
  PROVE  Total(t, R) <= Total(t, S)
<1> DEFINE Bad == {s \in SUBSET S : R \subseteq s /\ ~ Total(t, R) <= Total(t, s)}
<1>1. SUFFICES ASSUME Bad # {} PROVE FALSE
  OBVIOUS
<1>2. PICK s \in Bad : \A u \in SUBSET s : u # s => u \notin Bad
  <2> HIDE DEF Bad
  <2>1. Bad \subseteq SUBSET S
    BY DEF Bad
  <2> QED
    BY <1>1, <2>1, SmallestSet
<1>3. /\ s \in SUBSET S /\ R \subseteq s
      /\ IsFiniteSet(s) /\ IsFiniteSet(R) /\ Natural(t, s) /\ Natural(t, R)
  BY <1>2, FS_Subset DEF Natural
<1>4. Total(t, s) \in Nat /\ Total(t, R) \in Nat
  BY <1>3, TotalNat
<1>5. CASE s = R
  BY <1>2, <1>4, <1>5
<1>6. CASE s # R
  <2>1. PICK x \in s : x \notin R
    BY <1>3, <1>6
  <2>2. Total(t, s) = t[x].amount + Total(t, s \ {x})
    BY <1>3, TotalTake
  <2>3. s \ {x} \in SUBSET s /\ s \ {x} # s /\ R \subseteq s \ {x}
    BY <1>3, <2>1
  <2>4. Total(t, R) <= Total(t, s \ {x})
    BY <1>2, <1>3, <2>3
  <2>5. t[x].amount \in Nat
    BY <1>3 DEF Natural
  <2>6. Total(t, s \ {x}) \in Nat
    <3>1. IsFiniteSet(s \ {x}) /\ Natural(t, s \ {x})
      BY <1>3, FS_Subset DEF Natural
    <3> QED
      BY <3>1, TotalNat
  <2>7. ~ Total(t, R) <= Total(t, s)
    BY <1>2
  <2> QED
    BY <1>4, <2>2, <2>4, <2>5, <2>6, <2>7
<1> QED
  BY <1>5, <1>6

\* Another table with the same amounts.
LEMMA TotalSame ==
  ASSUME NEW t, NEW u, NEW S, IsFiniteSet(S), \A x \in S : t[x].amount = u[x].amount
  PROVE  Total(t, S) = Total(u, S)
<1> DEFINE Bad == {s \in SUBSET S : Total(t, s) # Total(u, s)}
<1>1. SUFFICES ASSUME Bad # {} PROVE FALSE
  OBVIOUS
<1>2. PICK s \in Bad : \A v \in SUBSET s : v # s => v \notin Bad
  <2> HIDE DEF Bad
  <2>1. Bad \subseteq SUBSET S
    BY DEF Bad
  <2> QED
    BY <1>1, <2>1, SmallestSet
<1>3. s \in SUBSET S /\ IsFiniteSet(s) /\ Total(t, s) # Total(u, s)
  BY <1>2, FS_Subset
<1>4. CASE s = {}
  BY <1>3, <1>4, TotalStep
<1>5. CASE s # {}
  <2>1. s \ {Pick(s)} \in SUBSET s /\ s \ {Pick(s)} # s /\ Pick(s) \in s
    BY <1>5, PickIn
  <2>2. Total(t, s \ {Pick(s)}) = Total(u, s \ {Pick(s)})
    BY <1>2, <1>3, <2>1
  <2> QED
    BY <1>3, <1>5, <2>1, <2>2, TotalStep
<1> QED
  BY <1>4, <1>5

\* What every element of S stands for in another table.
LEMMA TotalImage ==
  ASSUME NEW t, NEW u, NEW S, IsFiniteSet(S), NEW T, IsFiniteSet(T), Natural(u, T),
         NEW m, \A x \in S : m[x] \in T /\ t[x].amount = u[m[x]].amount,
         \A x, y \in S : x # y => m[x] # m[y]
  PROVE  Total(t, S) <= Total(u, T)
<1> DEFINE Image(s) == {m[x] : x \in s}
           Bad == {s \in SUBSET S : Total(t, s) # Total(u, Image(s))}
<1>0. Natural(t, S) /\ \A s \in SUBSET S : Natural(t, s) /\ Natural(u, Image(s))
  BY DEF Natural
<1>1. \A s \in SUBSET S : IsFiniteSet(Image(s)) /\ Image(s) \subseteq T
  BY FS_Subset
<1>2. Bad = {}
  <2>1. SUFFICES ASSUME Bad # {} PROVE FALSE
    OBVIOUS
  <2>2. PICK s \in Bad : \A v \in SUBSET s : v # s => v \notin Bad
    <3> HIDE DEF Bad
    <3>1. Bad \subseteq SUBSET S
      BY DEF Bad
    <3> QED
      BY <2>1, <3>1, SmallestSet
  <2>3. s \in SUBSET S /\ IsFiniteSet(s) /\ Total(t, s) # Total(u, Image(s))
    BY <2>2, FS_Subset
  <2>4. CASE s = {}
    <3>1. Image(s) = {}
      BY <2>4
    <3> HIDE DEF Image
    <3> QED
      BY <2>3, <2>4, <3>1, TotalStep, <1>1
  <2>5. CASE s # {}
    <3>1. PICK x \in s : TRUE
      BY <2>5
    <3>2. Total(t, s) = t[x].amount + Total(t, s \ {x})
      <4>1. Natural(t, s)
        BY <1>0, <2>3
      <4> HIDE DEF Image, Bad
      <4> QED
        BY <2>3, <3>1, <4>1, TotalTake
    <3>3. m[x] \in Image(s) /\ Image(s) \ {m[x]} = Image(s \ {x})
      BY <2>3
    <3>4. Total(u, Image(s)) = u[m[x]].amount + Total(u, Image(s) \ {m[x]})
      <4> HIDE DEF Image
      <4> QED
        BY <1>0, <1>1, <2>3, <3>3, TotalTake
    <3>5. s \ {x} \in SUBSET s /\ s \ {x} # s
      BY <3>1
    <3>6. Total(t, s \ {x}) = Total(u, Image(s \ {x}))
      BY <2>2, <2>3, <3>5
    <3> HIDE DEF Image
    <3> QED
      BY <2>3, <3>1, <3>2, <3>3, <3>4, <3>6
  <2> QED
    BY <2>4, <2>5
<1>3. Total(t, S) = Total(u, Image(S))
  BY <1>2
<1>4. Total(u, Image(S)) <= Total(u, T)
  <2> HIDE DEF Image
  <2> QED
    BY <1>1, TotalSubset
<1> QED
  BY <1>3, <1>4

-----------------------------------------------------------------------------
(* The inductive invariant.                                                *)

Status(r) == refund[r].status
Calling(d) == call[d].stage \in {"called", "answered", "threw"}
Active(h) == hook[h].stage # "idle"
Settling(h) == hook[h].stage = "settled"

\* What a decider works on: the row it has claimed, which has no id yet and
\* was asked for by somebody else.
CallsFit ==
    \A d \in Deciders :
        /\ call[d].stage # "idle" =>
             /\ call[d].row \in Rows /\ Status(call[d].row) # "ABSENT"
             /\ call[d].by \in Admins
        /\ Calling(d) =>
             /\ Status(call[d].row) \in {"PROCESSING", "REJECTED"}
             /\ call[d].by # refund[call[d].row].requestedBy
             /\ refund[call[d].row].ref = None
             /\ Status(call[d].row) = "REJECTED" => call[d].row \in lateRejections
        /\ call[d].stage = "answered" =>
             /\ call[d].ref \in Refs
             /\ gateway[call[d].ref].state # "none"
             /\ gateway[call[d].ref].row = call[d].row

GatewayFits ==
    \A g \in Refs : gateway[g].row # None =>
        /\ Status(gateway[g].row) # "ABSENT"
        /\ gateway[g].amount = refund[gateway[g].row].amount

RowsFit ==
    \A r \in Rows :
        /\ Status(r) = "ABSENT" => refund[r] = NoRefund
        /\ Status(r) = "REQUESTED" => refund[r].ref = None
        /\ Status(r) = "REJECTED" /\ r \notin lateRejections => refund[r].ref = None
        /\ Status(r) = "SUCCEEDED" => refund[r].ref # None
        /\ refund[r].ref # None =>
             /\ gateway[refund[r].ref].state # "none"
             /\ gateway[refund[r].ref].amount = refund[r].amount
             /\ Status(r) = "SUCCEEDED" => gateway[refund[r].ref].state = "processed"
             /\ \A s \in Rows : s # r => refund[s].ref # refund[r].ref

HooksFit ==
    \A h \in Hooks : Active(h) =>
        /\ hook[h].ref \in seen
        /\ gateway[hook[h].ref].state = "processed"
        /\ \A k \in Hooks : k # h /\ Active(k) => hook[k].ref # hook[h].ref
        /\ Settling(h) =>
             /\ hook[h].row \in Rows
             /\ \A k \in Hooks : k # h /\ Settling(k) => hook[k].row # hook[h].row
             /\ \/ refund[hook[h].row].ref = hook[h].ref
                \/ /\ Status(hook[h].row) = "ABSENT"
                   /\ \A r \in Rows : refund[r].ref # hook[h].ref

GatewayBounded == GivenBack <= Amount

RInv ==
    /\ RefundsTypeOK
    /\ CallsFit
    /\ OneCallPerRefund
    /\ GatewayFits
    /\ FourEyes
    /\ RowsFit
    /\ HooksFit

-----------------------------------------------------------------------------
(* Every step keeps rows, calls, webhooks and the gateway together.        *)

\* A new row is a row.
LEMMA RequestTypes ==
    ASSUME RInv, NEW a \in Admins, NEW r \in Rows, NEW amount \in 1..Amount,
           RequestRefund(a, r, amount)
    PROVE  RefundsTypeOK'
<1> DEFINE new == [NoRefund EXCEPT !.status = "REQUESTED", !.amount = amount,
                                   !.requestedBy = a]
<1>0. amount \in 0..Amount
  BY RefundsAssumption
<1>1. new \in RefundRow
  BY <1>0 DEF RefundRow, NoRefund
<1>2. refund' = [refund EXCEPT ![r] = new]
  BY DEF RequestRefund
<1> HIDE DEF new
<1> QED
  BY <1>1, <1>2 DEF RInv, RefundsTypeOK, RequestRefund

\* A row that was absent has no id, and nobody works on it.
LEMMA RequestRefundKeeps ==
    ASSUME RInv, NEW a \in Admins, NEW r \in Rows, NEW amount \in 1..Amount,
           RequestRefund(a, r, amount)
    PROVE  RInv'
<1>1. RefundsTypeOK'
  BY RequestTypes
<1>2. (CallsFit /\ OneCallPerRefund)'
  BY DEF RInv, RequestRefund, CallsFit, OneCallPerRefund, Status, Calling,
     IsNextRow
<1>3. (GatewayFits /\ FourEyes)'
  BY DEF RInv, RequestRefund, GatewayFits, FourEyes, Status, IsNextRow
<1>4. RowsFit'
  BY DEF RInv, RequestRefund, RowsFit, Status, NoRefund
<1>5. HooksFit'
  BY DEF RInv, RequestRefund, RowsFit, HooksFit, Status, Active, Settling,
     LockedRows, IsNextRow
<1> QED
  BY <1>1, <1>2, <1>3, <1>4, <1>5 DEF RInv

\* A claim writes two fields of a row.
LEMMA ClaimTypes ==
    ASSUME RInv, NEW d \in Deciders, NEW a \in Admins, NEW r \in Rows,
           ClaimRefund(d, a, r)
    PROVE  RefundsTypeOK'
<1> DEFINE new == [refund[r] EXCEPT !.status = "PROCESSING", !.approvedBy = a]
<1>1. new \in RefundRow
  BY DEF RInv, RefundsTypeOK, RefundRow
<1>2. /\ [stage |-> "called", row |-> r, by |-> a, ref |-> None] \in Decision
      /\ NoDecision \in Decision
  BY DEF Decision, NoDecision
<1>3. refund' = [refund EXCEPT ![r] = new]
  BY DEF ClaimRefund
<1>4. \E c \in Decision : call' = [call EXCEPT ![d] = c]
  BY <1>2 DEF ClaimRefund
<1> HIDE DEF new
<1> QED
  BY <1>1, <1>3, <1>4 DEF RInv, RefundsTypeOK, ClaimRefund

\* Only a REQUESTED row is claimed, so nobody else has it at the gateway.
LEMMA ClaimRefundKeeps ==
    ASSUME RInv, NEW d \in Deciders, NEW a \in Admins, NEW r \in Rows,
           ClaimRefund(d, a, r)
    PROVE  RInv'
<1>1. RefundsTypeOK'
  BY ClaimTypes
<1>2. (CallsFit /\ OneCallPerRefund)'
  BY DEF RInv, ClaimRefund, RefundsTypeOK, CallsFit, OneCallPerRefund, RowsFit,
     Calling, Status, MayDecide
<1>3. (GatewayFits /\ FourEyes)'
  BY DEF RInv, ClaimRefund, GatewayFits, FourEyes, Status
<1>4. RowsFit'
  BY DEF RInv, ClaimRefund, RowsFit, Status
<1>5. HooksFit'
  BY DEF RInv, ClaimRefund, HooksFit, Status, Active, Settling, MayDecide
<1> QED
  BY <1>1, <1>2, <1>3, <1>4, <1>5 DEF RInv

\* What storing the id does to the decider and to the row.
LEMMA StoreEffect ==
    ASSUME RInv, NEW d \in Deciders, StoreRefundId(d)
    PROVE  LET r == call[d].row IN
           /\ r \in Rows
           /\ call[d].ref \in Refs
           /\ call' \in [Deciders -> Decision]
           /\ \A e \in Deciders : e # d => call'[e] = call[e]
           /\ \/ /\ refund' = refund
                 /\ call'[d] = [call[d] EXCEPT !.stage = "threw"]
              \/ /\ \A s \in Rows \ {r} : refund[s].ref # call[d].ref
                 /\ call'[d] = NoDecision
                 /\ refund' =
                      [refund EXCEPT ![r] = [refund[r] EXCEPT !.ref = call[d].ref]]
<1>1. call[d].row \in Rows /\ call[d].ref \in Refs /\ call[d] \in Decision
  BY DEF RInv, CallsFit, StoreRefundId, RefundsTypeOK
<1>2. CASE \E s \in Rows \ {call[d].row} : refund[s].ref = call[d].ref
  <2>1. [call[d] EXCEPT !.stage = "threw"] \in Decision
    BY <1>1 DEF Decision
  <2>2. /\ call' = [call EXCEPT ![d] = [call[d] EXCEPT !.stage = "threw"]]
        /\ refund' = refund
    BY <1>2 DEF StoreRefundId
  <2> QED
    BY <1>1, <2>1, <2>2 DEF RInv, RefundsTypeOK
<1>3. CASE ~ \E s \in Rows \ {call[d].row} : refund[s].ref = call[d].ref
  <2>1. NoDecision \in Decision
    BY DEF Decision, NoDecision
  <2>2. /\ call' = [call EXCEPT ![d] = NoDecision]
        /\ refund' = [refund EXCEPT ![call[d].row] =
                        [refund[call[d].row] EXCEPT !.ref = call[d].ref]]
    BY <1>3 DEF StoreRefundId
  <2> QED
    BY <1>1, <1>3, <2>1, <2>2 DEF RInv, RefundsTypeOK
<1> QED
  BY <1>2, <1>3

\* The row that gets the id had none, and keeps the rest.
LEMMA StoreRows ==
    ASSUME RInv, NEW d \in Deciders, StoreRefundId(d)
    PROVE  /\ \A s \in Rows : s # call[d].row => refund'[s] = refund[s]
           /\ LET r == call[d].row IN
              /\ refund'[r].status = refund[r].status
              /\ refund'[r].amount = refund[r].amount
              /\ refund'[r].requestedBy = refund[r].requestedBy
              /\ \/ /\ refund'[r].ref = None
                    /\ call'[d] = [call[d] EXCEPT !.stage = "threw"]
                 \/ /\ refund'[r].ref = call[d].ref
                    /\ call'[d] = NoDecision
                    /\ \A s \in Rows \ {r} : refund[s].ref # call[d].ref
<1>1. /\ call[d].row \in Rows
      /\ refund[call[d].row] \in RefundRow /\ refund[call[d].row].ref = None
  BY DEF RInv, CallsFit, StoreRefundId, RefundsTypeOK, Calling
<1>2. CASE refund' = refund /\ call'[d] = [call[d] EXCEPT !.stage = "threw"]
  BY <1>1, <1>2
<1>3. CASE /\ \A s \in Rows \ {call[d].row} : refund[s].ref # call[d].ref
           /\ call'[d] = NoDecision
           /\ refund' = [refund EXCEPT ![call[d].row] =
                           [refund[call[d].row] EXCEPT !.ref = call[d].ref]]
  <2> DEFINE r == call[d].row
             new == [refund[r] EXCEPT !.ref = call[d].ref]
  <2>2. refund'[r] = new /\ \A s \in Rows : s # r => refund'[s] = refund[s]
    BY <1>1, <1>3 DEF RInv, RefundsTypeOK
  <2> QED
    BY <1>1, <1>3, <2>2 DEF RefundRow
<1> QED
  BY <1>2, <1>3, StoreEffect

\* The id of a refund is a reference.
LEMMA StoreTypes ==
    ASSUME RInv, NEW d \in Deciders, StoreRefundId(d)
    PROVE  RefundsTypeOK'
<1>1. call[d].row \in Rows /\ call[d].ref \in Refs
  BY StoreEffect
<1>2. [refund[call[d].row] EXCEPT !.ref = call[d].ref] \in RefundRow
  BY <1>1 DEF RInv, RefundsTypeOK, RefundRow
<1>3. refund' \in [Rows -> RefundRow]
  BY <1>1, <1>2, StoreEffect DEF RInv, RefundsTypeOK
<1> QED
  BY <1>3, StoreEffect DEF RInv, RefundsTypeOK, StoreRefundId

\* The decider is done, or must give the row back.
LEMMA StoreCalls ==
    ASSUME RInv, NEW d \in Deciders, StoreRefundId(d)
    PROVE  (CallsFit /\ OneCallPerRefund)'
<1> DEFINE r == call[d].row
<1>1. /\ \A e \in Deciders : e # d => call'[e] = call[e]
      /\ call[d] \in Decision /\ call[d].stage = "answered"
      /\ UNCHANGED <<gateway, lateRejections>>
      /\ \/ call'[d].stage = "idle"
         \/ /\ call'[d].stage = "threw" /\ refund'[r].ref = None
            /\ call'[d].row = r /\ call'[d].by = call[d].by
  <2>1. /\ call[d] \in Decision /\ call[d].stage = "answered"
        /\ UNCHANGED <<gateway, lateRejections>>
    BY DEF RInv, RefundsTypeOK, StoreRefundId
  <2>2. \A e \in Deciders : e # d => call'[e] = call[e]
    BY StoreEffect
  <2>3. CASE refund'[r].ref = None /\ call'[d] = [call[d] EXCEPT !.stage = "threw"]
    BY <2>1, <2>2, <2>3 DEF Decision
  <2>4. CASE call'[d] = NoDecision
    BY <2>1, <2>2, <2>4 DEF NoDecision
  <2> QED
    BY <2>3, <2>4, StoreRows
<1>2. \A s \in Rows : /\ refund'[s].status = refund[s].status
                      /\ refund'[s].requestedBy = refund[s].requestedBy
                      /\ s # r => refund'[s] = refund[s]
  BY StoreRows
<1>3. \A e \in Deciders : e # d /\ Calling(e) => call[e].row # r
  BY <1>1 DEF RInv, OneCallPerRefund, Calling
<1>0. call[d].row = r
  OBVIOUS
<1> HIDE DEF r
<1>4. CallsFit'
  BY <1>0, <1>1, <1>2, <1>3 DEF RInv, CallsFit, Calling, Status
<1>5. OneCallPerRefund'
  BY <1>1, <1>3 DEF RInv, OneCallPerRefund, Calling
<1> QED
  BY <1>4, <1>5

\* The gateway does not look at ids.
LEMMA StoreGateway ==
    ASSUME RInv, NEW d \in Deciders, StoreRefundId(d)
    PROVE  (GatewayFits /\ FourEyes)'
<1>1. \A s \in Rows : /\ refund'[s].status = refund[s].status
                      /\ refund'[s].amount = refund[s].amount
                      /\ refund'[s].requestedBy = refund[s].requestedBy
  BY StoreRows
<1> QED
  BY <1>1 DEF RInv, RefundsTypeOK, GatewayRefund, GatewayFits, FourEyes, Status,
     StoreRefundId

\* The refund is the gateway's answer for this very row, and no other row has it.
LEMMA StoreFits ==
    ASSUME RInv, NEW d \in Deciders, StoreRefundId(d)
    PROVE  RowsFit'
<1> DEFINE r == call[d].row
           g == call[d].ref
<1>1. /\ r \in Rows /\ g \in Refs /\ g # None
      /\ gateway[g].state # "none" /\ gateway[g].row = r
      /\ gateway[g].amount = refund[r].amount
      /\ Status(r) = "PROCESSING" \/ (Status(r) = "REJECTED" /\ r \in lateRejections)
      /\ UNCHANGED <<gateway, lateRejections>>
  BY RefundsAssumption DEF RInv, CallsFit, GatewayFits, Calling, StoreRefundId,
     Refs, Rows
<1> HIDE DEF r, g
<1>2. \A s \in Rows : s # r => refund'[s] = refund[s]
  BY StoreRows DEF r
<1>3. refund'[r].status = refund[r].status /\ refund'[r].amount = refund[r].amount
  BY StoreRows DEF r
<1>4. \/ refund'[r].ref = None
      \/ refund'[r].ref = g /\ \A s \in Rows \ {r} : refund[s].ref # g
  BY StoreRows DEF r, g
<1> QED
  BY <1>1, <1>2, <1>3, <1>4 DEF RInv, RowsFit, Status

\* A webhook that settles this row, or an id, holds them.
LEMMA StoreHooks ==
    ASSUME RInv, NEW d \in Deciders, StoreRefundId(d)
    PROVE  HooksFit'
  BY StoreEffect DEF RInv, RefundsTypeOK, RefundRow, NoRefund, HooksFit, Status,
     StoreRefundId, Active, Settling, LockedRefs, LockedRows, CallsFit, Calling

\* The id is stored.
LEMMA StoreRefundIdKeeps ==
    ASSUME RInv, NEW d \in Deciders, StoreRefundId(d)
    PROVE  RInv'
<1>1. RefundsTypeOK'
  BY StoreTypes
<1>2. (CallsFit /\ OneCallPerRefund)'
  BY StoreCalls
<1>3. (GatewayFits /\ FourEyes)'
  BY StoreGateway
<1>4. RowsFit'
  BY StoreFits
<1>5. HooksFit'
  BY StoreHooks
<1> QED
  BY <1>1, <1>2, <1>3, <1>4, <1>5 DEF RInv

\* So does the hand-back.
LEMMA GiveBackTypes ==
    ASSUME RInv, NEW d \in Deciders, GiveBack(d)
    PROVE  RefundsTypeOK'
<1> DEFINE r == call[d].row
           new == [refund[r] EXCEPT !.status = "REQUESTED", !.approvedBy = None]
<1>0. r \in Rows
  BY DEF RInv, CallsFit, GiveBack
<1>1. new \in RefundRow
  BY <1>0 DEF RInv, RefundsTypeOK, RefundRow
<1>2. NoDecision \in Decision
  BY DEF Decision, NoDecision
<1>3. refund' = [refund EXCEPT ![r] = new] \/ refund' = refund
  BY DEF GiveBack
<1> HIDE DEF new, r
<1> QED
  BY <1>0, <1>1, <1>2, <1>3 DEF RInv, RefundsTypeOK, GiveBack

\* Whoever gives a row back no longer talks to the gateway about it.
LEMMA GiveBackKeeps ==
    ASSUME RInv, NEW d \in Deciders, GiveBack(d)
    PROVE  RInv'
<1>1. RefundsTypeOK'
  BY GiveBackTypes
<1>2. (CallsFit /\ OneCallPerRefund)'
  BY DEF RInv, GiveBack, RefundsTypeOK, CallsFit, OneCallPerRefund, Calling,
     Status, NoDecision
<1>3. (GatewayFits /\ FourEyes)'
  BY DEF RInv, GiveBack, GatewayFits, FourEyes, Status
<1>4. RowsFit'
  BY DEF RInv, GiveBack, CallsFit, RowsFit, Status, Calling
<1>5. HooksFit'
  BY DEF RInv, GiveBack, HooksFit, Status, Active, Settling
<1> QED
  BY <1>1, <1>2, <1>3, <1>4, <1>5 DEF RInv

\* Nothing is written yet.
LEMMA CheckRejectionKeeps ==
    ASSUME RInv, NEW d \in Deciders, NEW a \in Admins, NEW r \in Rows,
           CheckRejection(d, a, r)
    PROVE  RInv'
<1>1. RefundsTypeOK'
  BY DEF RInv, CheckRejection, RefundsTypeOK, Decision
<1>2. (CallsFit /\ OneCallPerRefund)'
  BY DEF RInv, CheckRejection, CallsFit, OneCallPerRefund, Calling, Status,
     MayDecide
<1>3. (GatewayFits /\ FourEyes)'
  BY DEF RInv, CheckRejection, GatewayFits, FourEyes, Status
<1>4. RowsFit'
  BY DEF RInv, CheckRejection, RowsFit, Status
<1>5. HooksFit'
  BY DEF RInv, CheckRejection, HooksFit, Status, Active, Settling
<1> QED
  BY <1>1, <1>2, <1>3, <1>4, <1>5 DEF RInv

\* And the rejection.
LEMMA RejectTypes ==
    ASSUME RInv, NEW d \in Deciders, RejectRefund(d)
    PROVE  RefundsTypeOK'
<1> DEFINE r == call[d].row
           new == [refund[r] EXCEPT !.status = "REJECTED", !.approvedBy = call[d].by]
<1>0. r \in Rows /\ call[d].by \in Admins
  BY DEF RInv, CallsFit, RejectRefund
<1>1. new \in RefundRow
  BY <1>0 DEF RInv, RefundsTypeOK, RefundRow
<1>2. NoDecision \in Decision
  BY DEF Decision, NoDecision
<1>3. refund' = [refund EXCEPT ![r] = new]
  BY DEF RejectRefund
<1>4. lateRejections' \subseteq Rows
  BY <1>0 DEF RejectRefund, RInv, RefundsTypeOK
<1> HIDE DEF new, r
<1> QED
  BY <1>0, <1>1, <1>2, <1>3, <1>4 DEF RInv, RefundsTypeOK, RejectRefund

\* A row that is rejected late may be at the gateway still.
LEMMA RejectRefundKeeps ==
    ASSUME RInv, NEW d \in Deciders, RejectRefund(d)
    PROVE  RInv'
<1>1. RefundsTypeOK'
  BY RejectTypes
<1>2. (CallsFit /\ OneCallPerRefund)'
  BY DEF RInv, RejectRefund, CallsFit, OneCallPerRefund, Calling, Status,
     NoDecision
<1>3. (GatewayFits /\ FourEyes)'
  BY DEF RInv, RejectRefund, GatewayFits, FourEyes, Status
<1>4. RowsFit'
  BY DEF RInv, RejectRefund, RowsFit, Status
<1>5. HooksFit'
  BY DEF RInv, RejectRefund, CallsFit, HooksFit, Status, Active, Settling
<1> QED
  BY <1>1, <1>2, <1>3, <1>4, <1>5 DEF RInv

\* The row stays as it is, and nobody works on it.
LEMMA DecisionDiesKeeps ==
    ASSUME RInv, NEW d \in Deciders, DecisionDies(d)
    PROVE  RInv'
<1>1. RefundsTypeOK'
  BY DEF RInv, DecisionDies, RefundsTypeOK, Decision, NoDecision
<1>2. (CallsFit /\ OneCallPerRefund)'
  BY DEF RInv, DecisionDies, CallsFit, OneCallPerRefund, Calling, Status,
     NoDecision
<1>3. (GatewayFits /\ FourEyes)'
  BY DEF RInv, DecisionDies, GatewayFits, FourEyes, Status
<1>4. RowsFit'
  BY DEF RInv, DecisionDies, RowsFit, Status
<1>5. HooksFit'
  BY DEF RInv, DecisionDies, HooksFit, Status, Active, Settling
<1> QED
  BY <1>1, <1>2, <1>3, <1>4, <1>5 DEF RInv

\* What the gateway keeps.
LEMMA GatewayTypes ==
    ASSUME RInv, NEW d \in Deciders, NEW g \in Refs, GatewayRefunds(d, g) \/
           GatewayRefundFails(d, g)
    PROVE  RefundsTypeOK'
<1> DEFINE c == call[d]
<1>1. c \in Decision /\ c.stage = "called" /\ c.row \in Rows /\ c.by \in Admins
  BY DEF RInv, CallsFit, RefundsTypeOK, GatewayRefunds, GatewayRefundFails
<1>2. \A s \in {"processed", "failed"} :
        [state |-> s, amount |-> refund[c.row].amount, row |-> c.row, by |-> c.by]
          \in GatewayRefund
  BY <1>1 DEF RInv, RefundsTypeOK, GatewayRefund, RefundRow
<1>3. /\ [c EXCEPT !.stage = "answered", !.ref = g] \in Decision
      /\ [c EXCEPT !.stage = "threw"] \in Decision
  BY <1>1 DEF Decision
<1>4. \E n \in GatewayRefund : gateway' = [gateway EXCEPT ![g] = n]
  BY <1>2 DEF GatewayRefunds, GatewayRefundFails
<1>5. \E n \in Decision : call' = [call EXCEPT ![d] = n]
  BY <1>3 DEF GatewayRefunds, GatewayRefundFails
<1> QED
  BY <1>4, <1>5 DEF RInv, RefundsTypeOK, GatewayRefunds, GatewayRefundFails

\* The answer is for the row that was claimed.
LEMMA GatewayCalls ==
    ASSUME RInv, NEW d \in Deciders, NEW g \in Refs, GatewayRefunds(d, g)
    PROVE  (CallsFit /\ OneCallPerRefund)'
<1>1. /\ \A e \in Deciders : e # d => call'[e] = call[e]
      /\ call'[d].row = call[d].row /\ call'[d].by = call[d].by
      /\ call'[d].stage \in {"answered", "threw"}
      /\ call'[d].stage = "answered" => call'[d].ref = g
  BY DEF GatewayRefunds, RInv, RefundsTypeOK, Decision
<1>2. /\ \A f \in Refs : f # g => gateway'[f] = gateway[f]
      /\ gateway'[g].row = call[d].row /\ gateway'[g].state = "processed"
      /\ gateway[g].state = "none" /\ call[d].stage = "called"
      /\ UNCHANGED <<refund, lateRejections>>
  BY DEF GatewayRefunds, RInv, RefundsTypeOK, GatewayRefund, GatewayAccepts
<1> QED
  BY <1>1, <1>2 DEF RInv, CallsFit, OneCallPerRefund, Calling, Status

\* A new refund of the gateway is about a claimed row.
LEMMA GatewayRefundsKeeps ==
    ASSUME RInv, NEW d \in Deciders, NEW g \in Refs, GatewayRefunds(d, g)
    PROVE  RInv'
<1>1. RefundsTypeOK'
  BY GatewayTypes
<1>2. (CallsFit /\ OneCallPerRefund)'
  BY GatewayCalls
<1>3. (GatewayFits /\ FourEyes)'
  BY DEF RInv, GatewayRefunds, CallsFit, GatewayFits, FourEyes, Status, Calling
<1>4. RowsFit'
  BY DEF RInv, GatewayRefunds, RowsFit, Status, GatewayAccepts
<1>5. HooksFit'
  BY DEF RInv, GatewayRefunds, HooksFit, Status, Active, Settling
<1> QED
  BY <1>1, <1>2, <1>3, <1>4, <1>5 DEF RInv

\* So is one that fails later.
LEMMA GatewayRefundFailsKeeps ==
    ASSUME RInv, NEW d \in Deciders, NEW g \in Refs, GatewayRefundFails(d, g)
    PROVE  RInv'
<1>1. RefundsTypeOK'
  BY GatewayTypes
<1>2. (CallsFit /\ OneCallPerRefund)'
  BY DEF RInv, GatewayRefundFails, RefundsTypeOK, CallsFit, OneCallPerRefund,
     Status, Calling, GatewayAccepts
<1>3. (GatewayFits /\ FourEyes)'
  BY DEF RInv, GatewayRefundFails, CallsFit, GatewayFits, FourEyes, Status,
     Calling
<1>4. RowsFit'
  BY DEF RInv, GatewayRefundFails, RowsFit, Status, GatewayAccepts
<1>5. HooksFit'
  BY DEF RInv, GatewayRefundFails, HooksFit, Status, Active, Settling,
     GatewayAccepts
<1> QED
  BY <1>1, <1>2, <1>3, <1>4, <1>5 DEF RInv

\* A refusal is an exception.
LEMMA RefusalTypes ==
    ASSUME RInv, NEW d \in Deciders, GatewayRefuses(d)
    PROVE  RefundsTypeOK'
<1>1. [call[d] EXCEPT !.stage = "threw"] \in Decision
  BY DEF RInv, RefundsTypeOK, Decision
<1>2. call' = [call EXCEPT ![d] = [call[d] EXCEPT !.stage = "threw"]]
  BY DEF GatewayRefuses
<1> QED
  BY <1>1, <1>2 DEF RInv, RefundsTypeOK, GatewayRefuses

\* The row is still claimed.
LEMMA GatewayRefusesKeeps ==
    ASSUME RInv, NEW d \in Deciders, GatewayRefuses(d)
    PROVE  RInv'
<1>1. RefundsTypeOK'
  BY RefusalTypes
<1>2. (CallsFit /\ OneCallPerRefund)'
  BY DEF RInv, GatewayRefuses, CallsFit, OneCallPerRefund, Calling, Status
<1>3. (GatewayFits /\ FourEyes)'
  BY DEF RInv, GatewayRefuses, GatewayFits, FourEyes, Status
<1>4. RowsFit'
  BY DEF RInv, GatewayRefuses, RowsFit, Status
<1>5. HooksFit'
  BY DEF RInv, GatewayRefuses, HooksFit, Status, Active, Settling
<1> QED
  BY <1>1, <1>2, <1>3, <1>4, <1>5 DEF RInv

\* The dashboard's refund has no row.
LEMMA DashboardTypes ==
    ASSUME RInv, NEW g \in Refs, NEW amount \in 1..Amount, DashboardRefund(g,
           amount)
    PROVE  RefundsTypeOK'
<1> DEFINE new == [NoGatewayRefund EXCEPT !.state = "processed", !.amount = amount]
<1>0. amount \in 0..Amount
  BY RefundsAssumption
<1>1. new \in GatewayRefund
  BY <1>0 DEF NoGatewayRefund, GatewayRefund
<1>2. gateway' = [gateway EXCEPT ![g] = new]
  BY DEF DashboardRefund
<1> HIDE DEF new
<1> QED
  BY <1>1, <1>2 DEF RInv, RefundsTypeOK, DashboardRefund

\* A refund of the dashboard is about no row.
LEMMA DashboardRefundKeeps ==
    ASSUME RInv, NEW g \in Refs, NEW amount \in 1..Amount,
           DashboardRefund(g, amount)
    PROVE  RInv'
<1>1. RefundsTypeOK'
  BY DashboardTypes
<1>2. (CallsFit /\ OneCallPerRefund)'
  BY DEF RInv, DashboardRefund, CallsFit, OneCallPerRefund, Status, Calling,
     GatewayAccepts
<1>3. (GatewayFits /\ FourEyes)'
  BY DEF RInv, DashboardRefund, GatewayFits, FourEyes, NoGatewayRefund, Status
<1>4. RowsFit'
  BY DEF RInv, DashboardRefund, RowsFit, Status, GatewayAccepts
<1>5. HooksFit'
  BY DEF RInv, DashboardRefund, HooksFit, Status, Active, Settling
<1> QED
  BY <1>1, <1>2, <1>3, <1>4, <1>5 DEF RInv

\* The event row keeps a second handler away.
LEMMA ReceiveProcessedKeeps ==
    ASSUME RInv, NEW h \in Hooks, NEW g \in Refs, ReceiveProcessed(h, g)
    PROVE  RInv'
<1>1. RefundsTypeOK'
  BY DEF RInv, ReceiveProcessed, RefundsTypeOK, Settlement
<1>2. (CallsFit /\ OneCallPerRefund)'
  BY DEF RInv, ReceiveProcessed, CallsFit, OneCallPerRefund, Calling, Status
<1>3. (GatewayFits /\ FourEyes)'
  BY DEF RInv, ReceiveProcessed, GatewayFits, FourEyes, Status
<1>4. RowsFit'
  BY DEF RInv, ReceiveProcessed, RowsFit, Status
<1>5. HooksFit'
  BY DEF RInv, ReceiveProcessed, HooksFit, Status, Active, Settling
<1> QED
  BY <1>1, <1>2, <1>3, <1>4, <1>5 DEF RInv

\* A settlement has a row.
LEMMA SettleTypes ==
    ASSUME RInv, NEW h \in Hooks, NEW r \in Rows, SettleRefund(h, r)
    PROVE  RefundsTypeOK'
<1>1. [hook[h] EXCEPT !.stage = "settled", !.row = r] \in Settlement
  BY DEF RInv, RefundsTypeOK, Settlement
<1>2. hook' = [hook EXCEPT ![h] = [hook[h] EXCEPT !.stage = "settled", !.row = r]]
  BY DEF SettleRefund
<1> QED
  BY <1>1, <1>2 DEF RInv, RefundsTypeOK, SettleRefund

\* The row and the id are locked.
LEMMA SettleRefundKeeps ==
    ASSUME RInv, NEW h \in Hooks, NEW r \in Rows, SettleRefund(h, r)
    PROVE  RInv'
<1>1. RefundsTypeOK'
  BY SettleTypes
<1>2. (CallsFit /\ OneCallPerRefund)'
  BY DEF RInv, SettleRefund, CallsFit, OneCallPerRefund, Calling, Status
<1>3. (GatewayFits /\ FourEyes)'
  BY DEF RInv, SettleRefund, GatewayFits, FourEyes, Status
<1>4. RowsFit'
  BY DEF RInv, SettleRefund, RowsFit, Status
<1>5. HooksFit'
  BY DEF RInv, SettleRefund, HooksFit, Status, Active, Settling, LockedRows,
     IsNextRow, RowOfRef
<1> QED
  BY <1>1, <1>2, <1>3, <1>4, <1>5 DEF RInv

\* The row of a settlement stays a row.
LEMMA SettledRowType ==
    ASSUME RInv, NEW h \in Hooks, Settling(h)
    PROVE  hook[h].row \in Rows /\ SettledRow(h) \in RefundRow
<1>1. hook[h].row \in Rows /\ hook[h].ref \in Refs
  BY DEF RInv, HooksFit, RefundsTypeOK, Settling, Active
<1> QED
  BY <1>1, RefundsAssumption DEF SettledRow, RInv, RefundsTypeOK, RefundRow,
     NoRefund, GatewayRefund

\* So the commit keeps the types.
LEMMA CommitTypes ==
    ASSUME RInv, NEW h \in Hooks, CommitSettlement(h)
    PROVE  RefundsTypeOK'
<1>1. NoSettlement \in Settlement
  BY DEF NoSettlement, Settlement
<1> QED
  BY <1>1, SettledRowType DEF RInv, RefundsTypeOK, CommitSettlement, Settling

\* The settled row has the id and the amount of the gateway.
LEMMA CommitSettlementKeeps ==
    ASSUME RInv, NEW h \in Hooks, CommitSettlement(h)
    PROVE  RInv'
<1>1. RefundsTypeOK'
  BY CommitTypes
<1>2. (CallsFit /\ OneCallPerRefund)'
  BY RefundsAssumption DEF RInv, CommitSettlement, RefundsTypeOK, CallsFit,
     OneCallPerRefund, HooksFit, Status, Calling, Active, Settling, SettledRow,
     Refs
<1>3. (GatewayFits /\ FourEyes)'
  BY DEF RInv, CommitSettlement, GatewayFits, FourEyes, Status, SettledRow
<1>4. RowsFit'
  BY RefundsAssumption DEF RInv, CommitSettlement, RefundsTypeOK, RowsFit,
     HooksFit, Settlement, Status, Active, Settling, SettledRow, Refs
<1>5. HooksFit'
  BY DEF RInv, CommitSettlement, HooksFit, NoSettlement, Status, Active,
     Settling, SettledRow
<1> QED
  BY <1>1, <1>2, <1>3, <1>4, <1>5 DEF RInv

\* The event may come again, and its handler is gone.
LEMMA SettlementThrowsKeeps ==
    ASSUME RInv, NEW h \in Hooks, SettlementThrows(h)
    PROVE  RInv'
<1>1. RefundsTypeOK'
  BY DEF RInv, SettlementThrows, RefundsTypeOK, Settlement, NoSettlement
<1>2. (CallsFit /\ OneCallPerRefund)'
  BY DEF RInv, SettlementThrows, CallsFit, OneCallPerRefund, Calling, Status
<1>3. (GatewayFits /\ FourEyes)'
  BY DEF RInv, SettlementThrows, GatewayFits, FourEyes, Status
<1>4. RowsFit'
  BY DEF RInv, SettlementThrows, RowsFit, Status
<1>5. HooksFit'
  BY DEF RInv, SettlementThrows, RefundsTypeOK, HooksFit, Status, Active,
     Settling, NoSettlement
<1> QED
  BY <1>1, <1>2, <1>3, <1>4, <1>5 DEF RInv

\* The event will not come again.
LEMMA SettlementDiesKeeps ==
    ASSUME RInv, NEW h \in Hooks, SettlementDies(h)
    PROVE  RInv'
<1>1. RefundsTypeOK'
  BY DEF RInv, SettlementDies, RefundsTypeOK, Settlement, NoSettlement
<1>2. (CallsFit /\ OneCallPerRefund)'
  BY DEF RInv, SettlementDies, CallsFit, OneCallPerRefund, Calling, Status
<1>3. (GatewayFits /\ FourEyes)'
  BY DEF RInv, SettlementDies, GatewayFits, FourEyes, Status
<1>4. RowsFit'
  BY DEF RInv, SettlementDies, RowsFit, Status
<1>5. HooksFit'
  BY DEF RInv, SettlementDies, HooksFit, Status, Active, Settling, NoSettlement
<1> QED
  BY <1>1, <1>2, <1>3, <1>4, <1>5 DEF RInv

-----------------------------------------------------------------------------
(* What the rows and the gateway's refunds add up to.                      *)

Processed == {g \in Refs : gateway[g].state = "processed"}
AskedFor == {r \in OpenRefunds : refund[r].requestedBy # None}
Settled == {r \in Rows : Status(r) = "SUCCEEDED"}

\* There are finitely many rows and references.
LEMMA SetsFinite ==
    /\ \A S \in SUBSET Rows : IsFiniteSet(S)
    /\ \A S \in SUBSET Refs : IsFiniteSet(S)
<1>1. IsFiniteSet(Rows)
  BY RefundsAssumption, FS_Interval DEF Rows
<1>2. IsFiniteSet(Refs)
  BY RefundsAssumption, FS_Interval DEF Refs
<1> QED
  BY <1>1, <1>2, FS_Subset

\* Amounts are natural numbers.
LEMMA AmountsNatural ==
    ASSUME RefundsTypeOK
    PROVE  /\ \A S \in SUBSET Rows : Natural(refund, S)
           /\ \A S \in SUBSET Refs : Natural(gateway, S)
<1>1. \A r \in Rows : refund[r].amount \in Nat
  BY RefundsAssumption DEF RefundsTypeOK, RefundRow
<1>2. \A g \in Refs : gateway[g].amount \in Nat
  BY RefundsAssumption DEF RefundsTypeOK, GatewayRefund
<1> QED
  BY <1>1, <1>2 DEF Natural

\* The sums of the model are folds of this kind.
LEMMA SumsAre ==
    /\ GivenBack = Total(gateway, Processed)
    /\ \A S : AmountOf(S) = Total(refund, S)
  BY DEF GivenBack, Total, Processed, AmountOf

\* A new refund of the gateway adds to what is given back, as far as the payment
\* goes.
LEMMA GatewayStep ==
    ASSUME RefundsTypeOK, NEW g \in Refs, NEW n \in GatewayRefund,
           GatewayAccepts(g, n.amount), gateway' = [gateway EXCEPT ![g] = n]
    PROVE  GivenBack <= GivenBack' /\ GivenBack' <= Amount
<1> DEFINE P == Processed
<1>1. /\ P \in SUBSET Refs /\ g \notin P
      /\ gateway'[g] = n /\ \A f \in Refs : f # g => gateway'[f] = gateway[f]
      /\ n.amount \in Nat
  BY RefundsAssumption DEF Processed, GatewayAccepts, RefundsTypeOK,
     GatewayRefund
<1>2. Total(gateway', P) = Total(gateway, P)
  <2> HIDE DEF P
  <2>1. IsFiniteSet(P) /\ \A f \in P : gateway'[f].amount = gateway[f].amount
    BY <1>1, SetsFinite
  <2> QED
    BY <2>1, TotalSame
<1>3. Total(gateway, P) \in Nat
  BY <1>1, SetsFinite, AmountsNatural, TotalNat
<1>4. GivenBack = Total(gateway, P) /\ GivenBack' = Total(gateway', Processed')
  BY DEF GivenBack, Total, Processed, MapThenSumSet, MapThenFoldSet
<1>5. GivenBack + n.amount <= Amount
  BY DEF GatewayAccepts
<1>6. CASE n.state = "processed"
  <2>1. Processed' \in SUBSET Refs /\ g \in Processed' /\ Processed' \ {g} = P
    BY <1>1, <1>6 DEF Processed
  <2>2. Natural(gateway', Processed')
    <3>1. \A f \in Refs : gateway'[f].amount \in Nat
      BY <1>1, RefundsAssumption DEF RefundsTypeOK, GatewayRefund
    <3> QED
      BY <2>1, <3>1 DEF Natural
  <2>3. Total(gateway', Processed') = n.amount + Total(gateway', P)
    <3> HIDE DEF P
    <3>1. IsFiniteSet(Processed')
      BY <2>1, SetsFinite
    <3>2. \A t : Natural(t, Processed')
                => Total(t, Processed') = t[g].amount + Total(t, Processed' \ {g})
      BY <2>1, <3>1, TotalTake
    <3> QED
      BY <1>1, <2>1, <2>2, <3>2
  <2> HIDE DEF P
  <2> QED
    BY <1>1, <1>2, <1>3, <1>4, <1>5, <2>3, RefundsAssumption
<1>7. CASE n.state # "processed"
  <2>1. Processed' = P
    BY <1>1, <1>7 DEF Processed
  <2> HIDE DEF P
  <2> QED
    BY <1>1, <1>2, <1>3, <1>4, <1>5, <2>1, RefundsAssumption
<1> QED
  BY <1>6, <1>7

\* No step takes back what the gateway gave.
LEMMA GivenBackGrows ==
    ASSUME RInv, GatewayBounded, Next
    PROVE  GivenBack <= GivenBack' /\ GivenBack' <= Amount
<1>1. CASE gateway' = gateway
  <2>1. GivenBack' = GivenBack
    BY <1>1 DEF GivenBack, MapThenSumSet, MapThenFoldSet
  <2>2. GivenBack \in Nat
    BY SumsAre, SetsFinite, AmountsNatural, TotalNat DEF Processed, RInv
  <2> QED
    BY <2>1, <2>2 DEF GatewayBounded
<1>2. ASSUME NEW d \in Deciders, NEW g \in Refs,
             GatewayRefunds(d, g) \/ GatewayRefundFails(d, g)
      PROVE  GivenBack <= GivenBack' /\ GivenBack' <= Amount
  <2> DEFINE n(s) == [state |-> s, amount |-> refund[call[d].row].amount,
                      row |-> call[d].row, by |-> call[d].by]
  <2>1. PICK s \in {"processed", "failed"} : gateway' = [gateway EXCEPT ![g] = n(s)]
    BY <1>2 DEF GatewayRefunds, GatewayRefundFails
  <2>2. n(s) \in GatewayRefund
    BY <1>2 DEF RInv, CallsFit, RefundsTypeOK, RefundRow, GatewayRefund,
       GatewayRefunds, GatewayRefundFails
  <2>3. GatewayAccepts(g, n(s).amount)
    BY <1>2 DEF GatewayRefunds, GatewayRefundFails
  <2> HIDE DEF n
  <2> QED
    BY <2>1, <2>2, <2>3, GatewayStep DEF RInv
<1>3. ASSUME NEW g \in Refs, NEW amount \in 1..Amount, DashboardRefund(g, amount)
      PROVE  GivenBack <= GivenBack' /\ GivenBack' <= Amount
  <2> DEFINE n == [NoGatewayRefund EXCEPT !.state = "processed", !.amount = amount]
  <2>1. gateway' = [gateway EXCEPT ![g] = n] /\ GatewayAccepts(g, amount)
    BY <1>3 DEF DashboardRefund
  <2>2. amount \in 0..Amount
    BY RefundsAssumption
  <2>3. n \in GatewayRefund /\ n.amount = amount
    BY <2>2 DEF NoGatewayRefund, GatewayRefund
  <2> HIDE DEF n
  <2> QED
    BY <2>1, <2>3, GatewayStep DEF RInv
<1>4. CASE gateway' # gateway
  BY <1>2, <1>3, <1>4 DEF Next, Decide, Settle, RequestRefund, ClaimRefund,
     StoreRefundId, GiveBack, CheckRejection, RejectRefund, DecisionDies,
     GatewayRefuses, ReceiveProcessed, SettleRefund, CommitSettlement,
     SettlementThrows, SettlementDies
<1> QED
  BY <1>1, <1>4

\* A table that opens no row and changes no amount.
LEMMA NothingOpened ==
    ASSUME RefundsTypeOK, OpenRefundsFitThePayment,
           lateRejections' = {} => lateRejections = {},
           AskedFor' \subseteq AskedFor,
           \A r \in AskedFor' : refund'[r].amount = refund[r].amount
    PROVE  OpenRefundsFitThePayment'
<1> SUFFICES ASSUME lateRejections' = {} PROVE Total(refund', AskedFor') <= Amount
  BY DEF OpenRefundsFitThePayment, AskedFor, AmountOf, Total, MapThenSumSet,
     MapThenFoldSet
<1>1. Total(refund, AskedFor) <= Amount
  BY SumsAre DEF OpenRefundsFitThePayment, AskedFor
<1>2. AskedFor \in SUBSET Rows
  BY DEF AskedFor, OpenRefunds
<1>3. Total(refund', AskedFor') = Total(refund, AskedFor')
  <2>1. IsFiniteSet(AskedFor')
    BY <1>2, SetsFinite
  <2> QED
    BY <2>1, TotalSame
<1>4. Total(refund, AskedFor') <= Total(refund, AskedFor)
  BY <1>2, SetsFinite, AmountsNatural, TotalSubset
<1>5. Total(refund, AskedFor') \in Nat /\ Total(refund, AskedFor) \in Nat
  BY <1>2, SetsFinite, AmountsNatural, TotalNat
<1> QED
  BY <1>1, <1>3, <1>4, <1>5, RefundsAssumption

\* A request fits what the other open refunds leave.
LEMMA RequestFits ==
    ASSUME RInv, OpenRefundsFitThePayment, NEW a \in Admins, NEW r \in Rows,
           NEW amount \in 1..Amount, RequestRefund(a, r, amount)
    PROVE  OpenRefundsFitThePayment'
<1> SUFFICES Total(refund', AskedFor') <= Amount
  BY DEF OpenRefundsFitThePayment, AskedFor, AmountOf, Total, MapThenSumSet,
     MapThenFoldSet
<1>1. /\ refund'[r].amount = amount /\ Status(r) = "ABSENT"
      /\ refund'[r].requestedBy = a /\ refund'[r].status = "REQUESTED"
      /\ \A s \in Rows : s # r => refund'[s] = refund[s]
      /\ a # None
  BY RefundsAssumption DEF RequestRefund, IsNextRow, RInv, RefundsTypeOK,
     NoRefund, Status
<1>2. /\ AskedFor' \in SUBSET Rows
      /\ r \in AskedFor'
      /\ AskedFor' \ {r} = AskedFor
      /\ AskedFor \in SUBSET OpenRefunds
      /\ OpenRefunds \in SUBSET Rows
  BY <1>1 DEF AskedFor, OpenRefunds, OpenRefundStatuses, Status
<1>3. Natural(refund', AskedFor')
  <2>1. \A s \in Rows : refund'[s].amount \in Nat
    BY <1>1, RefundsAssumption DEF RInv, RefundsTypeOK, RefundRow
  <2> QED
    BY <1>2, <2>1 DEF Natural
<1>4. Total(refund', AskedFor') = amount + Total(refund', AskedFor)
  BY <1>1, <1>2, <1>3, SetsFinite, TotalTake
<1>5. Total(refund', AskedFor) = Total(refund, AskedFor)
  <2>1. /\ IsFiniteSet(AskedFor)
        /\ \A s \in AskedFor : refund'[s].amount = refund[s].amount
    BY <1>1, <1>2, SetsFinite DEF AskedFor, OpenRefunds, OpenRefundStatuses,
       Status
  <2> QED
    BY <2>1, TotalSame
<1>6. /\ Total(refund, AskedFor) <= Total(refund, OpenRefunds)
      /\ Total(refund, AskedFor) \in Nat
      /\ Total(refund, OpenRefunds) \in Nat
  BY <1>2, SetsFinite, AmountsNatural, TotalSubset, TotalNat DEF RInv
<1>7. Total(refund, OpenRefunds) + amount <= Amount
  BY SumsAre DEF RequestRefund, Fits
<1> QED
  BY <1>4, <1>5, <1>6, <1>7, RefundsAssumption

\* The payment is covered only by what the gateway has given back.
LEMMA CoveredIsGivenBack ==
    ASSUME RInv, RInv', GatewayBounded, NEW h \in Hooks, CommitSettlement(h), Covered(h)
    PROVE  GivenBack = Amount
<1> DEFINE r == hook[h].row
           others == {s \in Rows \ {r} : refund[s].status = "SUCCEEDED"}
           S == others \cup {r}
           n == SettledRow(h)
<1>1. /\ r \in Rows
      /\ n.status = "SUCCEEDED"
      /\ refund' = [refund EXCEPT ![r] = n]
      /\ gateway' = gateway
  BY SettledRowType DEF CommitSettlement, SettledRow, NoRefund, Settling, RInv,
     RefundsTypeOK, RefundRow
<1> HIDE DEF r, n
<1>2. /\ \A s \in others : refund'[s] = refund[s]
      /\ refund'[r] = n
      /\ \A s \in S : refund'[s].status = "SUCCEEDED"
      /\ S \in SUBSET Rows /\ others \in SUBSET Rows /\ others = S \ {r} /\ r \in S
  BY <1>1 DEF RInv, RefundsTypeOK
<1>3. Total(refund, others) + n.amount = Amount
  BY SumsAre DEF Covered, r, n
<1> HIDE DEF S, others
<1>4. \A T \in SUBSET Rows : Natural(refund', T)
  <2>1. \A s \in Rows : refund'[s].amount \in Nat
    BY RefundsAssumption DEF RInv, RefundsTypeOK, RefundRow
  <2> QED
    BY <2>1 DEF Natural
<1>5. Total(refund', S) = refund'[r].amount + Total(refund', S \ {r})
  BY <1>2, <1>4, SetsFinite, TotalTake
<1>6. Total(refund', others) = Total(refund, others)
  BY <1>2, SetsFinite, TotalSame
<1>7. Total(refund', others) \in Nat /\ refund'[r].amount \in Nat
  BY <1>1, <1>2, <1>4, SetsFinite, TotalNat DEF Natural
<1>8. Total(refund', S) = Amount
  BY <1>2, <1>3, <1>5, <1>6, <1>7
<1> DEFINE m == [s \in S |-> refund'[s].ref]
<1>9. /\ \A s \in S : m[s] \in Processed /\ refund'[s].amount = gateway[m[s]].amount
      /\ \A s, t \in S : s # t => m[s] # m[t]
  BY <1>1, <1>2 DEF RInv, RowsFit, RefundsTypeOK, RefundRow, Processed, Status
<1>10. Processed \in SUBSET Refs
  BY DEF Processed
<1>11. Total(refund', S) <= Total(gateway, Processed)
  <2> HIDE DEF m
  <2> QED
    BY <1>2, <1>9, <1>10, SetsFinite, AmountsNatural, TotalImage DEF RInv
<1>12. Total(gateway, Processed) \in Nat
  BY <1>10, SetsFinite, AmountsNatural, TotalNat DEF RInv
<1> QED
  BY <1>8, <1>11, <1>12, SumsAre, RefundsAssumption DEF GatewayBounded

\* What a step that requests nothing may do to the rows asked for.
OpensNothing ==
    lateRejections' = {} =>
        /\ lateRejections = {}
        /\ AskedFor' \subseteq AskedFor
        /\ \A r \in AskedFor' : refund'[r].amount = refund[r].amount

\* Then they still fit the payment.
LEMMA OpensNothingFits ==
    ASSUME RInv, OpenRefundsFitThePayment, OpensNothing
    PROVE  OpenRefundsFitThePayment'
<1>1. CASE lateRejections' = {}
  BY <1>1, NothingOpened DEF OpensNothing, RInv
<1>2. CASE lateRejections' # {}
  BY <1>2 DEF OpenRefundsFitThePayment
<1> QED
  BY <1>1, <1>2

\* A row that a settlement opens again was rejected late, and one that it
\* inserts nobody has asked for.
LEMMA SettlementOpensNothing ==
    ASSUME RInv, NEW h \in Hooks, CommitSettlement(h)
    PROVE  OpensNothing
<1> DEFINE r == hook[h].row
           n == SettledRow(h)
<1>1. /\ r \in Rows /\ refund[r] \in RefundRow
      /\ refund' = [refund EXCEPT ![r] = n]
      /\ lateRejections' = lateRejections
      /\ Settling(h) /\ Active(h)
  BY SettledRowType DEF CommitSettlement, Settling, Active, RInv, RefundsTypeOK
<1>2. hook[h].ref # None
  <2>1. hook[h].ref \in Refs
    BY <1>1 DEF RInv, HooksFit, RefundsTypeOK
  <2>2. None \notin Refs
    BY RefundsAssumption DEF Refs
  <2> QED
    BY <2>1, <2>2
<1>3. \/ n.requestedBy = None
      \/ /\ n.requestedBy = refund[r].requestedBy /\ n.amount = refund[r].amount
         /\ Status(r) \in OpenRefundStatuses \/ r \in lateRejections
  <2>1. CASE Status(r) = "ABSENT"
    BY <2>1, <1>1 DEF SettledRow, NoRefund, Status
  <2>2. CASE Status(r) # "ABSENT"
    <3>1. refund[r].ref = hook[h].ref
      BY <1>1, <2>2 DEF RInv, HooksFit
    <3>2. Status(r) \in OpenRefundStatuses \/ r \in lateRejections
      BY <1>1, <1>2, <2>2, <3>1 DEF RInv, RowsFit, RefundRow, Status,
         OpenRefundStatuses
    <3>3. n = [refund[r] EXCEPT !.status = "SUCCEEDED"]
      BY <2>2 DEF SettledRow, Status
    <3> QED
      BY <1>1, <3>2, <3>3 DEF RefundRow
  <2> QED
    BY <2>1, <2>2
<1>4. refund'[r] = n /\ \A s \in Rows : s # r => refund'[s] = refund[s]
  BY <1>1 DEF RInv, RefundsTypeOK
<1> HIDE DEF r, n
<1> QED
  BY <1>1, <1>3, <1>4 DEF OpensNothing, AskedFor, OpenRefunds, Status

\* Only a request opens a row that somebody asks for.
LEMMA StepOpensNothing ==
    ASSUME RInv, Next,
           ~ \E a \in Admins, r \in Rows, amount \in 1..Amount :
               RequestRefund(a, r, amount)
    PROVE  OpensNothing
<1>1. CASE UNCHANGED <<refund, lateRejections>>
  BY <1>1 DEF OpensNothing, AskedFor, OpenRefunds
<1>2. ASSUME NEW d \in Deciders, NEW a \in Admins, NEW r \in Rows, ClaimRefund(d, a, r)
      PROVE  OpensNothing
  BY <1>2 DEF ClaimRefund, MayDecide, OpensNothing, AskedFor, OpenRefunds,
     OpenRefundStatuses, RInv, RefundsTypeOK, RefundRow
<1>3. ASSUME NEW d \in Deciders, StoreRefundId(d)
      PROVE  OpensNothing
  <2>1. \A s \in Rows : /\ refund'[s].status = refund[s].status
                        /\ refund'[s].amount = refund[s].amount
                        /\ refund'[s].requestedBy = refund[s].requestedBy
    BY <1>3, StoreRows
  <2> QED
    BY <1>3, <2>1 DEF StoreRefundId, OpensNothing, AskedFor, OpenRefunds
<1>4. ASSUME NEW d \in Deciders, GiveBack(d)
      PROVE  OpensNothing
  BY <1>4 DEF GiveBack, OpensNothing, AskedFor, OpenRefunds, OpenRefundStatuses,
     RInv, RefundsTypeOK, RefundRow
<1>5. ASSUME NEW d \in Deciders, RejectRefund(d)
      PROVE  OpensNothing
  BY <1>5 DEF RejectRefund, OpensNothing, AskedFor, OpenRefunds,
     OpenRefundStatuses, RInv, RefundsTypeOK, RefundRow
<1> QED
  BY <1>1, <1>2, <1>3, <1>4, <1>5, SettlementOpensNothing DEF Next, Decide,
     Settle, CheckRejection, DecisionDies, GatewayRefunds, GatewayRefundFails,
     GatewayRefuses, DashboardRefund, ReceiveProcessed, SettleRefund,
     SettlementThrows, SettlementDies

-----------------------------------------------------------------------------
(* The invariants of the refunds.                                          *)

\* What is proved invariant.
Invariant ==
    /\ RInv
    /\ GatewayBounded
    /\ OpenRefundsFitThePayment
    /\ RefundedMeansAllGivenBack

\* A step that keeps the rows in order keeps the sums in order.
LEMMA Step ==
    ASSUME Invariant, Next, RInv'
    PROVE  Invariant'
<1>1. GivenBack <= GivenBack' /\ GivenBack' <= Amount
  BY GivenBackGrows DEF Invariant
<1>2. OpenRefundsFitThePayment'
  BY StepOpensNothing, OpensNothingFits, RequestFits DEF Invariant
<1>3. RefundedMeansAllGivenBack'
  <2>1. SUFFICES ASSUME payment' = "REFUNDED" PROVE GivenBack' = Amount
    BY DEF RefundedMeansAllGivenBack
  <2>2. GivenBack = Amount
    <3>1. CASE payment' = payment
      BY <2>1, <3>1 DEF Invariant, RefundedMeansAllGivenBack
    <3>2. CASE payment' # payment
      <4>1. PICK h \in Hooks : CommitSettlement(h) /\ Covered(h)
        BY <3>2 DEF Next, Decide, Settle, RequestRefund, ClaimRefund,
           StoreRefundId, GiveBack, CheckRejection, RejectRefund, DecisionDies,
           GatewayRefunds, GatewayRefundFails, GatewayRefuses, DashboardRefund,
           ReceiveProcessed, SettleRefund, CommitSettlement, SettlementThrows,
           SettlementDies
      <4> QED
        BY <4>1, CoveredIsGivenBack DEF Invariant
    <3> QED
      BY <3>1, <3>2
  <2>3. GivenBack' \in Nat
    <3>1. IsFiniteSet(Processed') /\ Natural(gateway', Processed')
      <4>1. Processed' \in SUBSET Refs
        BY DEF Processed
      <4>2. \A g \in Refs : gateway'[g].amount \in Nat
        BY RefundsAssumption DEF RInv, RefundsTypeOK, GatewayRefund
      <4> QED
        BY <4>1, <4>2, SetsFinite DEF Natural
    <3>2. GivenBack' = Total(gateway', Processed')
      BY DEF GivenBack, Total, Processed, MapThenSumSet, MapThenFoldSet
    <3> QED
      BY <3>1, <3>2, TotalNat
  <2> QED
    BY <1>1, <2>2, <2>3, RefundsAssumption
<1> QED
  BY <1>1, <1>2, <1>3 DEF Invariant, GatewayBounded

\* At first nothing was asked for and nothing was given back.
LEMMA InitHolds ==
    ASSUME Init
    PROVE  Invariant
<1>1. RefundsTypeOK
  <2>1. 0 \in 0..Amount
    BY RefundsAssumption
  <2>2. /\ NoRefund \in RefundRow /\ NoGatewayRefund \in GatewayRefund
        /\ NoDecision \in Decision /\ NoSettlement \in Settlement
    BY <2>1 DEF NoRefund, RefundRow, NoGatewayRefund, GatewayRefund, NoDecision,
       Decision, NoSettlement, Settlement
  <2> QED
    BY <2>2 DEF Init, RefundsTypeOK
<1>2. /\ \A r \in Rows : /\ refund[r] = NoRefund
                         /\ Status(r) = "ABSENT" /\ refund[r].ref = None
      /\ \A g \in Refs : gateway[g].row = None /\ gateway[g].state = "none"
      /\ \A d \in Deciders : call[d].stage = "idle"
      /\ \A h \in Hooks : hook[h].stage = "idle"
      /\ payment = "CAPTURED" /\ lateRejections = {}
  BY DEF Init, NoRefund, NoGatewayRefund, NoDecision, NoSettlement, Status
<1>3. CallsFit /\ OneCallPerRefund /\ GatewayFits /\ FourEyes /\ RowsFit /\ HooksFit
  BY <1>2 DEF CallsFit, Calling, OneCallPerRefund, GatewayFits, FourEyes,
     RowsFit, HooksFit, Active
<1>4. \A t : Total(t, {}) = 0
  BY FS_EmptySet, TotalStep
<1>5. Processed = {} /\ AskedFor = {}
  BY <1>2 DEF Processed, AskedFor, OpenRefunds, OpenRefundStatuses, Status
<1>6. GivenBack = 0 /\ AmountOf(AskedFor) = 0
  BY <1>4, <1>5, SumsAre
<1> QED
  BY <1>1, <1>2, <1>3, <1>6, RefundsAssumption DEF Invariant, RInv,
     GatewayBounded, OpenRefundsFitThePayment, AskedFor,
     RefundedMeansAllGivenBack

\* Rows, deciders, webhooks and the gateway keep together, and what they add up
\* to never exceeds the payment.
THEOREM Invariance == Spec => []Invariant
<1>1. ASSUME RInv, NEW d \in Deciders, Decide(d)
      PROVE  RInv'
  BY <1>1, ClaimRefundKeeps, CheckRejectionKeeps, StoreRefundIdKeeps,
     GiveBackKeeps, RejectRefundKeeps, DecisionDiesKeeps, GatewayRefundsKeeps,
     GatewayRefundFailsKeeps, GatewayRefusesKeeps DEF Decide
<1>2. ASSUME RInv, NEW h \in Hooks, Settle(h)
      PROVE  RInv'
  BY <1>2, ReceiveProcessedKeeps, SettleRefundKeeps, CommitSettlementKeeps,
     SettlementThrowsKeeps, SettlementDiesKeeps DEF Settle
<1>3. RInv /\ Next => RInv'
  BY <1>1, <1>2, RequestRefundKeeps, DashboardRefundKeeps DEF Next
<1>4. Invariant /\ Next => Invariant'
  BY <1>3, Step DEF Invariant
<1>5. Invariant /\ UNCHANGED vars => Invariant'
  BY DEF vars, Invariant, RInv, RefundsTypeOK, CallsFit, OneCallPerRefund,
     GatewayFits, FourEyes, RowsFit, HooksFit, GatewayBounded,
     OpenRefundsFitThePayment, RefundedMeansAllGivenBack, Status, Calling,
     Active, Settling, GivenBack, AmountOf, OpenRefunds, MapThenSumSet,
     MapThenFoldSet
<1> QED
  BY <1>4, <1>5, InitHolds, PTL DEF Spec

\* Every variable of the refunds keeps its type: in particular no refund, here or
\* at the gateway, is larger than the payment.
THEOREM TypeCorrectness == Spec => []RefundsTypeOK
<1>1. Invariant => RefundsTypeOK
  BY DEF Invariant, RInv
<1> QED
  BY <1>1, Invariance, PTL

\* Whatever the gateway pays for the program was approved by another admin than
\* the one who asked for it.
THEOREM ApprovedByAnother == Spec => []FourEyes
<1>1. Invariant => FourEyes
  BY DEF Invariant, RInv
<1> QED
  BY <1>1, Invariance, PTL

\* Two approvals never talk to the gateway about one refund at a time.
THEOREM OneCall == Spec => []OneCallPerRefund
<1>1. Invariant => OneCallPerRefund
  BY DEF Invariant, RInv
<1> QED
  BY <1>1, Invariance, PTL

\* The refunds asked for never exceed the payment, unless a rejection overwrote
\* a row that was no longer REQUESTED.
THEOREM AskedForFits == Spec => []OpenRefundsFitThePayment
<1>1. Invariant => OpenRefundsFitThePayment
  BY DEF Invariant
<1> QED
  BY <1>1, Invariance, PTL

\* A payment is marked REFUNDED only when the gateway has given all of it back.
THEOREM RefundedIsGivenBack == Spec => []RefundedMeansAllGivenBack
<1>1. Invariant => RefundedMeansAllGivenBack
  BY DEF Invariant
<1> QED
  BY <1>1, Invariance, PTL
=============================================================================
