--------------------------- MODULE DispatchPolicy ---------------------------
(***************************************************************************)
(* How a booking gets its dispatch mode: rules saved by a form of the desk,  *)
(* the first of which, by priority, that matches the booking decides.  A     *)
(* field left blank arrives as the empty string, null is what other writers  *)
(* leave a field (the seed's rule); the two are not the same to the resolver. *)
(*                                                                         *)
(* The rules of one organisation, and bookings of one branch and one type.   *)
(***************************************************************************)
EXTENDS BookingRules, FiniteSets, Naturals

CONSTANTS Priorities,      \* a rule of the form may have; the lower the earlier
          SeedPriority,    \* of the rule the seed writes
          Segments,        \* tags of customers somebody types
          MaxPolicies,     \* bound: rules at one time
          Blank,           \* the empty string
          Null

ASSUME DispatchPolicyAssumption ==
    /\ Priorities \subseteq Nat /\ SeedPriority \in Nat
    /\ Blank # Null /\ {Blank, Null} \cap Segments = {}

VARIABLES policies,   \* table DispatchRule, the rows not deleted
          decided     \* the mode of the last booking made, or Null

dispatchPolicyVars == <<policies, decided>>

\* Of branches and types: the bookings', any other, left blank, null.
Narrowings == {"this", "other", Blank, Null}

Policy == [priority : Priorities \cup {SeedPriority}, branch : Narrowings, type : Narrowings,
           segment : Segments \cup {Blank, Null}, mode : DispatchModes, active : BOOLEAN]

SeedRule == [priority |-> SeedPriority, branch |-> Null, type |-> Null, segment |-> Null,
             mode |-> "MANUAL", active |-> TRUE]

DispatchPolicyInit == policies = {SeedRule} /\ decided = Null

-----------------------------------------------------------------------------
\* What the form holds; an id that is there has a character at least.
Submitted == [priority : Priorities, branch : {"this", "other", Blank},
              type : {"this", "other", Blank}, segment : Segments \cup {Blank},
              mode : DispatchModes, active : BOOLEAN]
Valid(p) == p.branch # Blank /\ p.type # Blank

\* A form that is not valid stays as it is, and says nothing.
CreateDispatchRule(p) ==
    /\ Valid(p)
    /\ Cardinality(policies) < MaxPolicies
    /\ policies' = policies \cup {p}
    /\ UNCHANGED decided

DeleteDispatchRule(p) ==
    /\ policies' = policies \ {p}
    /\ UNCHANGED decided

-----------------------------------------------------------------------------
FirstOf(set) == {p \in set : \A q \in set : p.priority <= q.priority}

\* createBooking names no segment.
Match(p) == /\ p.branch \in {Null, "this"} /\ p.type \in {Null, "this"}
            /\ p.segment = Null

ModesOf(set) == IF set = {} THEN {"MANUAL"} ELSE {p.mode : p \in FirstOf(set)}

\* Rules of one priority come in any order.
ResolveDispatchPolicy == ModesOf({p \in policies : p.active /\ Match(p)})

\* A resolution that fails means MANUAL.
BookingMade ==
    /\ decided' \in ResolveDispatchPolicy \cup {"MANUAL"}
    /\ UNCHANGED policies

DispatchPolicyNext ==
    \/ \E p \in Submitted : CreateDispatchRule(p)
    \/ \E p \in policies : DeleteDispatchRule(p)
    \/ BookingMade

DispatchPolicySpec == DispatchPolicyInit /\ [][DispatchPolicyNext]_dispatchPolicyVars

-----------------------------------------------------------------------------
\* Rules and modes have their shapes.
DispatchPolicyTypeOK ==
    /\ policies \subseteq Policy
    /\ decided \in DispatchModes \cup {Null}

\* What the rule says to its reader, for a booking without a segment.
Applies(p) == /\ p.branch \in {Blank, Null, "this"} /\ p.type \in {Blank, Null, "this"}
              /\ p.segment \in {Blank, Null}

\* VIOLATED, claimed by CreateDispatchRuleForm.tsx:144: "blank = any".  The mode
\* of a booking is that of the first rule which applies as the form says.
BlankMeansAny == ResolveDispatchPolicy = ModesOf({p \in policies : p.active /\ Applies(p)})
=============================================================================
