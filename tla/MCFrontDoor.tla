---------------------------- MODULE MCFrontDoor -----------------------------
(* Accounts and FrontDoor share no state: FrontDoor asks who a session is,  *)
(* Accounts how the rows behind it come about.  One run explores both, each *)
(* behaviour one of them.                                                   *)
EXTENDS Accounts, FrontDoor, TLC

VARIABLE explored    \* the component this behaviour is of

Init ==
    /\ AccountsInit /\ FrontDoorInit
    /\ explored \in {"accounts", "front door"}
    /\ explored = "accounts" => gates = {} /\ setUp /\ role = "none"

Next ==
    \/ explored = "accounts" /\ AccountsNext /\ UNCHANGED <<explored, frontDoorVars>>
    \/ explored = "front door" /\ FrontDoorNext /\ UNCHANGED <<explored, accountVars>>

Spec == Init /\ [][Next]_<<explored, accountVars, frontDoorVars>>

\* The type invariants of the two components.
TypesOK == AccountsTypeOK /\ FrontDoorTypeOK

MCSymmetry == Permutations(Users) \cup Permutations(Mailboxes) \cup Permutations(Workers)
=============================================================================
