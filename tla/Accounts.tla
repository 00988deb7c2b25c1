------------------------------ MODULE Accounts ------------------------------
(***************************************************************************)
(* Who a person is, in three stores no transaction spans: the auth user of  *)
(* Supabase, the Profile row its trigger writes (prisma/sql/13), and the    *)
(* Customer, Staff or Driver row a service adds afterwards.                 *)
(*                                                                         *)
(* The SQL files install the trigger AFTER INSERT in the transaction of the *)
(* auth user; the services provide for one that fires later or never, and   *)
(* the model has both.                                                      *)
(*                                                                         *)
(* The services call Supabase first and open their own transaction after    *)
(* it: a worker that stops between the two leaves half a person behind.     *)
(* Desk guests have an address nobody reads (digits@...) until a claim link *)
(* gives the account a real one; drivers are terminated by a ban at         *)
(* Supabase and then a transaction.                                         *)
(***************************************************************************)
EXTENDS FiniteSets, Naturals

CONSTANTS Users,      \* ids Supabase hands out
          Phones,     \* mobiles, already in E.164
          Mailboxes,  \* addresses somebody reads
          Workers,    \* requests being served
          Nobody      \* no row, no phone, an idle worker

VARIABLES authUser,   \* [Users -> auth.users row or Nobody]
          owed,       \* [Users -> the new row of a trigger that has not fired, or Nobody]
          profile,    \* [Users -> Profile row or Nobody]
          customer,   \* [Users -> "none", "managed" (staffManaged) or "own"]
          staffRow,   \* [Users -> "none", "active" or "deleted"]
          driverRow,  \* [Users -> "none", "employed", "removed" (deletedAt set, the licence
                      \*  number tombstoned) or "relicensed" (deletedAt set, not the number)]
          job         \* [Workers -> what the request has read and done, or Nobody]

accountVars == <<authUser, owed, profile, customer, staffRow, driverRow, job>>

\* "STAFF" stands for ADMIN and STAFF, the two roles the staff form offers.
CrewRoles == {"STAFF", "DRIVER"}

\* Addresses: a mailbox, the synthetic one of a desk guest, a tombstone.
Real(m) == <<"mailbox", m>>
StaffManagedEmail(p) == <<"guest", p>>
ErasedEmail(u) == <<"erased", u>>
IsReal(e) == e[1] = "mailbox"
Addresses == {Real(m) : m \in Mailboxes} \cup {StaffManagedEmail(p) : p \in Phones}
                 \cup {ErasedEmail(u) : u \in Users}

AuthUserRow == [email : Addresses, confirmed : BOOLEAN, banned : BOOLEAN]
NewRow == [email : Addresses, phone : Phones \cup {Nobody}]
ProfileRow == [email : Addresses, phone : Phones \cup {Nobody}, role : CrewRoles \cup {"CUSTOMER"}]

\* A request: which service it is in, how far, and what it was asked.
JobRecord ==
    [kind : CrewRoles \cup {"guest", "signup", "portal", "claim", "update", "terminate"},
     step : {"checked", "created", "updated", "invited", "banned"},
     user : Users \cup {Nobody}, email : Addresses \cup {Nobody}, phone : Phones \cup {Nobody}]

ASSUME AccountsAssumption ==
    Nobody \notin Users \cup Addresses \cup AuthUserRow \cup NewRow \cup ProfileRow \cup JobRecord

-----------------------------------------------------------------------------
(* Supabase and the rows' unique columns.                                  *)

AccountOf(e) == {u \in Users : authUser[u] # Nobody /\ authUser[u].email = e}
ProfilesWith(p) == {u \in Users : profile[u] # Nobody /\ profile[u].phone = p}
ProfilesAt(e) == {u \in Users : profile[u] # Nobody /\ profile[u].email = e}

\* Profile.email and Profile.phone are unique; no phone (NULL) is no conflict.
FreeFor(u, e, p) == /\ ProfilesAt(e) \subseteq {u}
                    /\ p = Nobody \/ ProfilesWith(p) \subseteq {u}

\* The trigger inserts the Profile as CUSTOMER, whatever role the metadata asks
\* for; a row that a service has written already keeps all but its address.
HandleNewAuthUser(u, new) ==
    IF profile[u] = Nobody
    THEN /\ FreeFor(u, new.email, new.phone)
         /\ profile' = [profile EXCEPT
                ![u] = [email |-> new.email, phone |-> new.phone, role |-> "CUSTOMER"]]
    ELSE /\ FreeFor(u, new.email, profile[u].phone)
         /\ profile' = [profile EXCEPT ![u].email = new.email]

\* Mutant: that Supabase refused the address is not looked at.
CreateUnchecked(u, e, p, confirmed) ==
    /\ authUser[u] = Nobody
    /\ IF AccountOf(e) # {} THEN UNCHANGED <<authUser, profile>>
       ELSE /\ authUser' = [authUser EXCEPT
                  ![u] = [email |-> e, confirmed |-> confirmed, banned |-> FALSE]]
            /\ HandleNewAuthUser(u, [email |-> e, phone |-> p])
    /\ UNCHANGED owed

\* A trigger inside the transaction refuses the auth user with the Profile; one
\* that fires later does not.
CreateAuthUser(u, e, p, confirmed) ==
    LET new == [email |-> e, phone |-> p] IN
    /\ authUser[u] = Nobody
    /\ AccountOf(e) = {}
    /\ authUser' = [authUser EXCEPT ![u] = [email |-> e, confirmed |-> confirmed, banned |-> FALSE]]
    /\ \/ HandleNewAuthUser(u, new) /\ UNCHANGED owed
       \/ owed' = [owed EXCEPT ![u] = new] /\ UNCHANGED profile

TriggerFires(u) ==
    /\ owed[u] # Nobody
    /\ HandleNewAuthUser(u, owed[u])
    /\ owed' = [owed EXCEPT ![u] = Nobody]
    /\ UNCHANGED <<authUser, customer, staffRow, driverRow, job>>

\* An account a person can sign in to: a real address, proved, not banned.
CanSignIn(u) == /\ authUser[u] # Nobody
                /\ IsReal(authUser[u].email)
                /\ authUser[u].confirmed /\ ~authUser[u].banned

ConfirmEmail(u) ==
    /\ authUser[u] # Nobody /\ ~authUser[u].confirmed
    /\ authUser' = [authUser EXCEPT ![u].confirmed = TRUE]
    /\ UNCHANGED <<owed, profile, customer, staffRow, driverRow, job>>

-----------------------------------------------------------------------------
(* Workers.                                                                *)

Starts(w, j) == job[w] = Nobody /\ job' = [job EXCEPT ![w] = j]
At(w, kind, step) == job[w] # Nobody /\ job[w].kind = kind /\ job[w].step = step
Moves(w, step, u) == job' = [job EXCEPT ![w].step = step, ![w].user = u]
Ends(w) == job' = [job EXCEPT ![w] = Nobody]

Job(kind, step, u, e, p) == [kind |-> kind, step |-> step, user |-> u, email |-> e, phone |-> p]

\* A request is killed, or its next statement fails: what it did stays done.
JobDies(w) ==
    /\ job[w] # Nobody
    /\ Ends(w)
    /\ UNCHANGED <<authUser, owed, profile, customer, staffRow, driverRow>>

\* Mutant: an update leaves the role to the trigger.
UpsertPhone(u, e, p, role) ==
    IF profile[u] = Nobody
    THEN /\ FreeFor(u, e, p)
         /\ profile' = [profile EXCEPT ![u] = [email |-> e, phone |-> p, role |-> role]]
    ELSE /\ FreeFor(u, profile[u].email, p)
         /\ profile' = [profile EXCEPT ![u].phone = p]

\* The upsert of the services: a Profile the trigger has not written yet is
\* created; one that is there gets the phone and the role, not the address.
UpsertProfile(u, e, p, role) ==
    IF profile[u] = Nobody
    THEN /\ FreeFor(u, e, p)
         /\ profile' = [profile EXCEPT ![u] = [email |-> e, phone |-> p, role |-> role]]
    ELSE /\ FreeFor(u, profile[u].email, p)
         /\ profile' = [profile EXCEPT ![u].phone = p, ![u].role = role]

(* The desk: find the customer of a mobile, or create a guest.             *)

FindStaffCustomer(w, p) ==
    /\ ProfilesWith(p) = {}
    /\ Starts(w, Job("guest", "checked", Nobody, StaffManagedEmail(p), p))
    /\ UNCHANGED <<authUser, owed, profile, customer, staffRow, driverRow>>

CreateGuestUser(w, u) ==
    /\ At(w, "guest", "checked")
    /\ CreateAuthUser(u, job[w].email, job[w].phone, TRUE)
    /\ Moves(w, "created", u)
    /\ UNCHANGED <<customer, staffRow, driverRow>>

\* The transaction: the Profile is upserted, the Customer created managed.
CommitGuest(w) ==
    LET u == job[w].user IN
    /\ At(w, "guest", "created")
    /\ customer[u] = "none"
    /\ UpsertProfile(u, job[w].email, job[w].phone, "CUSTOMER")
    /\ customer' = [customer EXCEPT ![u] = "managed"]
    /\ Ends(w)
    /\ UNCHANGED <<authUser, owed, staffRow, driverRow>>

(* Sign-up: the form asks whether the details are free, then signs up.     *)

PrepareCustomerSignup(w, m, p) ==
    /\ ProfilesAt(Real(m)) = {}
    /\ ProfilesWith(p) = {}
    /\ Starts(w, Job("signup", "checked", Nobody, Real(m), p))
    /\ UNCHANGED <<authUser, owed, profile, customer, staffRow, driverRow>>

SignUp(w, u) ==
    /\ At(w, "signup", "checked")
    /\ CreateAuthUser(u, job[w].email, job[w].phone, FALSE)
    /\ Ends(w)
    /\ UNCHANGED <<customer, staffRow, driverRow>>

\* Layout and page of a portal request both give a customer's profile its
\* Customer row on first sight, side by side: the unique profileId fails one.
ReadOwnCustomer(w, u) ==
    /\ CanSignIn(u)
    /\ profile[u] # Nobody /\ profile[u].role = "CUSTOMER"
    /\ customer[u] = "none"
    /\ Starts(w, Job("portal", "checked", u, Nobody, Nobody))
    /\ UNCHANGED <<authUser, owed, profile, customer, staffRow, driverRow>>

InsertOwnCustomer(w) ==
    LET u == job[w].user IN
    /\ At(w, "portal", "checked")
    /\ customer[u] = "none"
    /\ customer' = [customer EXCEPT ![u] = "own"]
    /\ Ends(w)
    /\ UNCHANGED <<authUser, owed, profile, staffRow, driverRow>>

(* The desk may issue a claim link for a guest at any time: it is a signed  *)
(* token, stored nowhere, good for 24 hours and as often as it is used       *)
(* while the guest is still managed.                                         *)

CheckClaim(w, u, m) ==
    /\ customer[u] = "managed"
    /\ ProfilesAt(Real(m)) \subseteq {u}
    /\ Starts(w, Job("claim", "checked", u, Real(m), Nobody))
    /\ UNCHANGED <<authUser, owed, profile, customer, staffRow, driverRow>>

\* Where the optional trigger on_auth_user_updated is installed, the Profile's
\* address follows in the same transaction.
UpdateClaimedUser(w) ==
    LET u == job[w].user IN
    /\ At(w, "claim", "checked")
    /\ AccountOf(job[w].email) \subseteq {u}
    /\ authUser' = [authUser EXCEPT ![u].email = job[w].email]
    /\ \/ UNCHANGED profile
       \/ /\ FreeFor(u, job[w].email, profile[u].phone)
          /\ profile' = [profile EXCEPT ![u].email = job[w].email]
    /\ Moves(w, "updated", u)
    /\ UNCHANGED <<owed, customer, staffRow, driverRow>>

\* Mutant: the transaction does not wait for Supabase.
CommitClaimFirst(w) ==
    LET u == job[w].user IN
    /\ At(w, "claim", "checked")
    /\ FreeFor(u, job[w].email, profile[u].phone)
    /\ profile' = [profile EXCEPT ![u].email = job[w].email]
    /\ customer' = [customer EXCEPT ![u] = "own"]
    /\ Ends(w)
    /\ UNCHANGED <<authUser, owed, staffRow, driverRow>>

\* Nothing here asks whether the guest is still managed.
CommitClaim(w) ==
    LET u == job[w].user IN
    /\ At(w, "claim", "updated")
    /\ FreeFor(u, job[w].email, profile[u].phone)
    /\ profile' = [profile EXCEPT ![u].email = job[w].email]
    /\ customer' = [customer EXCEPT ![u] = "own"]
    /\ Ends(w)
    /\ UNCHANGED <<authUser, owed, staffRow, driverRow>>

-----------------------------------------------------------------------------
(* Staff and drivers are invited by mail; GoTrue invites an address again   *)
(* as long as its account is unconfirmed, and refuses a confirmed one.      *)

InviteUserByEmail(w, role, u, m, p) ==
    /\ \/ CreateAuthUser(u, Real(m), p, FALSE)
       \/ /\ u \in AccountOf(Real(m)) /\ ~authUser[u].confirmed
          /\ UNCHANGED <<authUser, owed, profile>>
    /\ Starts(w, Job(role, "invited", u, Real(m), p))
    /\ UNCHANGED <<customer, staffRow, driverRow>>

CommitStaffInvite(w) ==
    LET u == job[w].user IN
    /\ At(w, "STAFF", "invited")
    /\ UpsertProfile(u, job[w].email, job[w].phone, "STAFF")
    /\ staffRow[u] = "none"
    /\ staffRow' = [staffRow EXCEPT ![u] = "active"]
    /\ Ends(w)
    /\ UNCHANGED <<authUser, owed, customer, driverRow>>

CommitDriverInvite(w) ==
    LET u == job[w].user IN
    /\ At(w, "DRIVER", "invited")
    /\ UpsertProfile(u, job[w].email, job[w].phone, "DRIVER")
    /\ driverRow[u] = "none"
    /\ driverRow' = [driverRow EXCEPT ![u] = "employed"]
    /\ Ends(w)
    /\ UNCHANGED <<authUser, owed, customer, staffRow>>

\* The form always sends a role of the staff's, whoever the person is by now.
UpdateStaff(u) ==
    /\ staffRow[u] = "active"
    /\ profile' = [profile EXCEPT ![u].role = "STAFF"]
    /\ UNCHANGED <<authUser, owed, customer, staffRow, driverRow, job>>

\* The row alone: the Profile keeps its role and the account its sessions.
SoftDeleteStaff(u) ==
    /\ staffRow[u] = "active"
    /\ staffRow' = [staffRow EXCEPT ![u] = "deleted"]
    /\ UNCHANGED <<authUser, owed, profile, customer, driverRow, job>>

ReadDriver(w, u, kind) ==
    /\ driverRow[u] = "employed"
    /\ Starts(w, Job(kind, "checked", u, Nobody, Nobody))
    /\ UNCHANGED <<authUser, owed, profile, customer, staffRow, driverRow>>

\* WHERE id alone: a row removed since the read gets its number and status back.
CommitDriverUpdate(w) ==
    LET u == job[w].user IN
    /\ At(w, "update", "checked")
    /\ driverRow' = [driverRow EXCEPT
          ![u] = IF driverRow[u] = "employed" THEN "employed" ELSE "relicensed"]
    /\ Ends(w)
    /\ UNCHANGED <<authUser, owed, profile, customer, staffRow>>

\* Supabase first; the row only when the ban has been taken.
BanDriver(w) ==
    LET u == job[w].user IN
    /\ At(w, "terminate", "checked")
    /\ authUser' = [authUser EXCEPT ![u].banned = TRUE]
    /\ Moves(w, "banned", u)
    /\ UNCHANGED <<owed, profile, customer, staffRow, driverRow>>

CommitTermination(w) ==
    LET u == job[w].user IN
    /\ At(w, "terminate", "banned")
    /\ driverRow' = [driverRow EXCEPT ![u] = "removed"]
    /\ Ends(w)
    /\ UNCHANGED <<authUser, owed, profile, customer, staffRow>>

SoftDeleteDriver(u) ==
    /\ driverRow[u] = "employed"
    /\ driverRow' = [driverRow EXCEPT ![u] = "removed"]
    /\ UNCHANGED <<authUser, owed, profile, customer, staffRow, job>>

-----------------------------------------------------------------------------
(* Everyone edits an own profile; the erasure of a customer scrubs one.    *)

UpdateProfile(u, p) ==
    /\ CanSignIn(u) /\ profile[u] # Nobody
    /\ FreeFor(u, profile[u].email, p)
    /\ profile' = [profile EXCEPT ![u].phone = p]
    /\ UNCHANGED <<authUser, owed, customer, staffRow, driverRow, job>>

\* The auth user, its address and the staffManaged flag are left as they are.
EraseCustomer(u) ==
    /\ customer[u] # "none"
    /\ profile' = [profile EXCEPT ![u].email = ErasedEmail(u), ![u].phone = Nobody]
    /\ UNCHANGED <<authUser, owed, customer, staffRow, driverRow, job>>

-----------------------------------------------------------------------------
AccountsInit ==
    /\ authUser = [u \in Users |-> Nobody]
    /\ owed = [u \in Users |-> Nobody]
    /\ profile = [u \in Users |-> Nobody]
    /\ customer = [u \in Users |-> "none"]
    /\ staffRow = [u \in Users |-> "none"]
    /\ driverRow = [u \in Users |-> "none"]
    /\ job = [w \in Workers |-> Nobody]

DeskStep(w) ==
    \/ \E p \in Phones : FindStaffCustomer(w, p)
    \/ \E u \in Users : CreateGuestUser(w, u)
    \/ CommitGuest(w)
    \/ JobDies(w)

CustomerStep(w) ==
    \/ \E m \in Mailboxes, p \in Phones : PrepareCustomerSignup(w, m, p)
    \/ \E u \in Users : SignUp(w, u)
    \/ \E u \in Users : ReadOwnCustomer(w, u)
    \/ InsertOwnCustomer(w)
    \/ \E u \in Users, m \in Mailboxes : CheckClaim(w, u, m)
    \/ UpdateClaimedUser(w)
    \/ CommitClaim(w)

CrewStep(w) ==
    \/ \E role \in CrewRoles, u \in Users, m \in Mailboxes, p \in Phones :
          InviteUserByEmail(w, role, u, m, p)
    \/ CommitStaffInvite(w)
    \/ CommitDriverInvite(w)
    \/ \E u \in Users, kind \in {"update", "terminate"} : ReadDriver(w, u, kind)
    \/ CommitDriverUpdate(w)
    \/ BanDriver(w)
    \/ CommitTermination(w)

PersonStep(u) ==
    \/ TriggerFires(u)
    \/ ConfirmEmail(u)
    \/ UpdateStaff(u)
    \/ SoftDeleteStaff(u)
    \/ SoftDeleteDriver(u)
    \/ \E p \in Phones \cup {Nobody} : UpdateProfile(u, p)
    \/ EraseCustomer(u)

AccountsNext ==
    \/ \E w \in Workers : DeskStep(w) \/ CustomerStep(w) \/ CrewStep(w)
    \/ \E u \in Users : PersonStep(u)

-----------------------------------------------------------------------------
AccountsShapes ==
    /\ authUser \in [Users -> {Nobody} \cup AuthUserRow]
    /\ owed \in [Users -> {Nobody} \cup NewRow]
    /\ profile \in [Users -> {Nobody} \cup ProfileRow]
    /\ customer \in [Users -> {"none", "managed", "own"}]
    /\ staffRow \in [Users -> {"none", "active", "deleted"}]
    /\ driverRow \in [Users -> {"none", "employed", "removed", "relicensed"}]
    /\ job \in [Workers -> {Nobody} \cup JobRecord]

PeopleHaveAccounts ==
    \A u \in Users :
        /\ customer[u] # "none" \/ staffRow[u] # "none" \/ driverRow[u] # "none" =>
             profile[u] # Nobody
        /\ profile[u] # Nobody \/ owed[u] # Nobody => authUser[u] # Nobody

\* Every row has the shape its table gives it, and every request belongs to
\* one of the services.  No key ties a Profile to its auth user: whoever has a
\* Customer, Staff or Driver row has a Profile, and whoever has a Profile has an
\* auth user, although each may have been there for a while without the next.
AccountsTypeOK == AccountsShapes /\ PeopleHaveAccounts

\* Supabase is told first: a customer who owns a portal account has a real
\* address to sign in with, whichever claims of the account overlapped, failed
\* half-way or were made again, and whatever was erased or created meanwhile.
OwnersCanSignIn ==
    \A u \in Users : customer[u] = "own" => IsReal(authUser[u].email)

\* Whoever has a Driver row and never a Staff row is a DRIVER to every
\* permission check, and whoever has only a Staff row is staff: the CUSTOMER
\* of a trigger, early or late, never outlives the invitation, whatever an
\* erasure, the portal or the desk did to the same person meanwhile.  And nobody
\* passes as either without the row.
RolesFollowRows ==
    \A u \in Users :
        /\ (driverRow[u] # "none" /\ staffRow[u] = "none") => profile[u].role = "DRIVER"
        /\ (staffRow[u] # "none" /\ driverRow[u] = "none") => profile[u].role = "STAFF"
        /\ profile[u] # Nobody => /\ profile[u].role = "DRIVER" => driverRow[u] # "none"
                                  /\ profile[u].role = "STAFF" => staffRow[u] # "none"
=============================================================================
