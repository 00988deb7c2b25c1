----------------------------- MODULE FrontDoor ------------------------------
(***************************************************************************)
(* Where a browser ends up.  Five places redirect without knowing of each   *)
(* other: the middleware (signed in or not), the landing page and /setup    *)
(* (is the install set up), the three route-group layouts (role, second     *)
(* factor), the pages (role) and the forms that sign somebody in.  A visit   *)
(* asks for a path, and follows answers until a page is rendered; meanwhile  *)
(* the install is completed, a role is changed, a session runs out.          *)
(*                                                                         *)
(* A link to a page under the layout of the page shown is followed by the    *)
(* router of Next.js in the browser: the server answers with the page alone, *)
(* the layout both share is kept and not asked again.                        *)
(*                                                                         *)
(* One person at one browser.  Paths are the ones the code decides about.   *)
(***************************************************************************)
EXTENDS FiniteSets, Naturals

CONSTANT NoPath    \* nothing is asked for, no redirectTo

VARIABLES gates,    \* which gates the deployment turns on: "install", "aal2"
          setUp,    \* InstallSettings.setupCompletedAt is set
          role,     \* the Profile's role; "none" while there is no row
          factor,   \* the authenticator app: "none", "unverified" or "verified"
          session,  \* the cookie: 0 signed out, 1 aal1, 2 aal2
          proof,    \* the password-setup cookie: "none", "invite" or "recovery"
          form,     \* what the rendered page is asking: "plain", "challenge" or "password"
          asked,    \* the path being requested, or NoPath
          inApp,    \* it is requested by the router, that is by a link of the page
          trail,    \* the paths this visit has asked for since anything changed
          page,     \* the path rendered last
          letIn,    \* history: the role its layout was rendered for, "none" without one
          wanted    \* the redirectTo of the sign-in page

serverVars == <<gates, setUp, role, factor>>
browserVars == <<session, proof, form, asked, inApp, trail, page, letIn, wanted>>
frontDoorVars == <<serverVars, browserVars>>

Admins == {"SUPER_ADMIN", "ADMIN"}
Staff == Admins \cup {"STAFF"}
Roles == Staff \cup {"DRIVER", "CUSTOMER"}

AuthPaths == {"/signin", "/signup", "/reset-password", "/set-password", "/claim-portal"}
PublicPaths == AuthPaths \cup {"/", "/setup", "/auth-error"}

DriverPaths == {"/driver", "/driver/trips/my", "/driver/attendance", "/driver/profile"}
PortalPaths == {"/portal", "/portal/book", "/portal/bookings", "/portal/profile"}

\* The entries of the sidebar, one for those no page restricts, and what the
\* user menu and the settings page link to besides.
SidebarPaths == {"/dashboard", "/audit", "/settings", "/settings/gst", "/orgs", "/dsr"}
DeskPaths == SidebarPaths \cup {"/profile", "/profile/account", "/payments/refunds"}

LayoutOf(path) == CASE path \in DeskPaths -> "desk"
                    [] path \in DriverPaths -> "driver"
                    [] path \in PortalPaths -> "portal"
                    [] OTHER -> "none"
SharedLayout(p, q) == LayoutOf(p) # "none" /\ LayoutOf(p) = LayoutOf(q)

Paths == PublicPaths \cup DriverPaths \cup PortalPaths \cup DeskPaths

ASSUME FrontDoorAssumption == NoPath \notin Paths

RoleHome(r) == IF r \in Staff THEN "/dashboard" ELSE IF r = "DRIVER" THEN "/driver" ELSE "/portal"

\* A session counts only with a Profile row behind it.
SignedIn == session > 0 /\ role # "none"
Is(roles) == SignedIn /\ role \in roles
NotSetUp == "install" \in gates /\ ~setUp

-----------------------------------------------------------------------------
(* Who answers what: the path itself is rendered, another is redirected to. *)

\* Mutant: signed-in users go to the desk at once.
MiddlewareToDesk(path) ==
    IF session > 0 /\ path \in {"/signin", "/signup"} THEN "/dashboard"
    ELSE IF session = 0 /\ path \notin PublicPaths THEN "/signin"
    ELSE path

Middleware(path) ==
    IF session > 0 /\ path \in {"/signin", "/signup"} THEN "/"
    ELSE IF session = 0 /\ path \notin PublicPaths THEN "/signin"
    ELSE path

LandingPage == IF NotSetUp THEN "/setup" ELSE IF SignedIn THEN RoleHome(role) ELSE "/"

SetupPage == IF "install" \in gates /\ setUp /\ ~Is(Admins)
             THEN "/signin" ELSE "/setup"

IsStaffMfaExemptPath(path) == path \in {"/profile", "/profile/account"}

\* Mutant: any session passes.
StaffMustSignIn(path) == "aal2" \in gates /\ ~IsStaffMfaExemptPath(path) /\ session < 1

StaffMustChallengeAal2(path) ==
    "aal2" \in gates /\ ~IsStaffMfaExemptPath(path) /\ session < 2

(* The three layouts, and what their pages ask for themselves.             *)

AdminLayout(path) ==
    CASE ~SignedIn -> "/signin"
      [] SignedIn /\ NotSetUp -> "/setup"
      [] SignedIn /\ ~NotSetUp /\ role \notin Staff -> RoleHome(role)
      [] Is(Staff) /\ ~NotSetUp -> IF StaffMustChallengeAal2(path) THEN "/profile/account" ELSE path

DriverLayout(path) ==
    CASE ~SignedIn -> "/signin"
      [] SignedIn /\ role # "DRIVER" -> RoleHome(role)
      [] Is({"DRIVER"}) -> IF NotSetUp THEN "/setup" ELSE path

CustomerLayout(path) == IF NotSetUp THEN "/setup" ELSE path

\* Most pages of the desk leave everything to the layout.
DeskPage(path) ==
    CASE path \in {"/profile", "/profile/account", "/settings/gst"} /\ ~SignedIn -> "/signin"
      [] path \in {"/audit", "/payments/refunds"} /\ ~Is(Admins) -> "/dashboard"
      [] path \in {"/orgs", "/dsr"} /\ ~Is({"SUPER_ADMIN"}) -> "/dashboard"
      [] path = "/settings/gst" /\ SignedIn /\ role \notin Admins -> "/settings"
      [] OTHER -> path

DriverPage(path) ==
    CASE ~SignedIn -> "/signin"
      [] path = "/driver/profile" /\ SignedIn /\ role # "DRIVER" -> RoleHome(role)
      [] OTHER -> path

PortalPage(path) ==
    CASE ~SignedIn -> "/signin"
      [] SignedIn /\ role # "CUSTOMER" -> RoleHome(role)
      [] OTHER -> path

Layout(path) ==
    CASE path \in DeskPaths -> AdminLayout(path)
      [] path \in DriverPaths -> DriverLayout(path)
      [] path \in PortalPaths -> CustomerLayout(path)
      [] OTHER -> path

Page(path) ==
    CASE path = "/" -> LandingPage
      [] path = "/setup" -> SetupPage
      [] path \in DeskPaths -> DeskPage(path)
      [] path \in DriverPaths -> DriverPage(path)
      [] path \in PortalPaths -> PortalPage(path)
      [] OTHER -> path

\* The layout of the page shown is not rendered again for a link below it.
LayoutKept(path) == inApp /\ SharedLayout(page, path)

Route(path) == IF ~LayoutKept(path) /\ Layout(path) # path THEN Layout(path) ELSE Page(path)

Answer(path) == IF Middleware(path) # path THEN Middleware(path) ELSE Route(path)

\* /set-password shows its form to the browser of the callback, a link page otherwise.
FormOf(path) == IF path = "/set-password" /\ proof # "none" /\ session > 0
                THEN "password" ELSE "plain"

-----------------------------------------------------------------------------
(* A visit.                                                                *)

Asks(path, link) == asked' = path /\ trail' = {path} /\ inApp' = link
Goes(path) == Asks(path, FALSE)

\* Somebody types a path, or follows a link of the page to its layout's pages.
Visit(path) ==
    /\ asked = NoPath
    /\ \E link \in {FALSE, SharedLayout(page, path)} : Asks(path, link)
    /\ wanted' \in IF path = "/signin" /\ page = "/" THEN {RoleHome(r) : r \in Roles} ELSE {NoPath}
    /\ UNCHANGED <<serverVars, session, proof, form, page, letIn>>

\* One answer: the next path of a redirect, or the page.
Follow ==
    LET next == Answer(asked) IN
    /\ asked # NoPath
    /\ IF next = asked
       THEN /\ page' = asked /\ form' = FormOf(asked)
            /\ letIn' = CASE LayoutKept(asked) -> letIn
                          [] LayoutOf(asked) = "none" -> "none"
                          [] OTHER -> role
            /\ asked' = NoPath /\ trail' = {} /\ inApp' = FALSE
            /\ UNCHANGED wanted
       ELSE /\ asked' = next /\ trail' = trail \cup {next}
            /\ wanted' = IF Middleware(asked) = "/signin" THEN asked ELSE NoPath
            /\ UNCHANGED <<page, letIn, inApp, form>>
    /\ UNCHANGED <<serverVars, session, proof>>

\* getPostAuthRedirect: the wanted path if it is the role's, else its home.
PostAuthRedirect(r, path) ==
    LET allowed == CASE r \in Staff -> DeskPaths \cup PublicPaths
                     [] r = "DRIVER" -> DriverPaths
                     [] OTHER -> PortalPaths
    IN IF path \in allowed \ (AuthPaths \cup {"/"}) THEN path ELSE RoleHome(r)

CompleteSignIn == Goes(IF role = "none" THEN "/signin" ELSE PostAuthRedirect(role, wanted))

-----------------------------------------------------------------------------
(* The forms.  Each belongs to a rendered page and answers with a new path. *)

Rendered(path, what) == asked = NoPath /\ page = path /\ form = what

SubmitPassword ==
    /\ Rendered("/signin", "plain")
    /\ session' = 1
    /\ IF factor = "verified"
       THEN form' = "challenge" /\ UNCHANGED <<asked, trail, inApp>>
       ELSE CompleteSignIn /\ UNCHANGED form
    /\ UNCHANGED <<serverVars, proof, page, letIn, wanted>>

SubmitMfaCode ==
    /\ Rendered("/signin", "challenge")
    /\ session > 0 /\ session' = 2
    /\ CompleteSignIn
    /\ UNCHANGED <<serverVars, proof, form, page, letIn, wanted>>

\* The challenge is put away, the aal1 session is not.
BackToSignIn ==
    /\ Rendered("/signin", "challenge")
    /\ form' = "plain"
    /\ UNCHANGED <<serverVars, session, proof, asked, inApp, trail, page, letIn, wanted>>

\* With e-mail confirmation off Supabase answers with a session.
SubmitSignUp(live) ==
    /\ Rendered("/signup", "plain")
    /\ role = "none" /\ role' = "CUSTOMER"
    /\ IF live THEN session' = 1 /\ Goes("/portal") ELSE UNCHANGED session /\ Goes("/signin")
    /\ UNCHANGED <<gates, setUp, factor, proof, form, page, letIn, wanted>>

\* /auth/callback: the link is verified and signs in, at aal1 whatever the factor.
FollowMailLink(flow) ==
    /\ asked = NoPath
    /\ session' = 1
    /\ IF role = "none" THEN proof' = "none" /\ Goes("/auth-error")
       ELSE IF flow = "signup" THEN UNCHANGED proof /\ Goes(RoleHome(role))
       ELSE proof' = flow /\ Goes("/set-password")
    /\ UNCHANGED <<serverVars, form, page, letIn, wanted>>

FollowDeadLink ==
    /\ asked = NoPath
    /\ proof' = "none" /\ Goes("/set-password")
    /\ UNCHANGED <<serverVars, session, form, page, letIn, wanted>>

\* The redirect in the proof names /set-password or nothing: both come to "/".
SubmitNewPassword ==
    /\ Rendered("/set-password", "password") /\ session > 0
    /\ proof' = "none" /\ Goes("/")
    /\ UNCHANGED <<serverVars, session, form, page, letIn, wanted>>

\* Only the three shells show the button.
SignOut ==
    /\ asked = NoPath /\ page \notin PublicPaths
    /\ session' = 0 /\ Goes("/signin")
    /\ UNCHANGED <<serverVars, proof, form, page, letIn, wanted>>

(* The account page: an authenticator app is added, confirmed, removed;    *)
(* the current password is asked for by signing in with it.                *)

AtAccountPage == Rendered("/profile/account", "plain") /\ session > 0

StartEnroll ==
    /\ AtAccountPage /\ factor # "verified"
    /\ factor' = "unverified"
    /\ UNCHANGED <<gates, setUp, role, browserVars>>

ConfirmEnroll ==
    /\ AtAccountPage /\ factor = "unverified"
    /\ factor' = "verified" /\ session' = 2
    /\ Goes(page)
    /\ UNCHANGED <<gates, setUp, role, proof, form, page, letIn, wanted>>

\* Supabase lets go of a verified factor at aal2 alone.
Unenroll ==
    /\ AtAccountPage
    /\ factor = "unverified" \/ (factor = "verified" /\ session = 2)
    /\ factor' = "none"
    /\ UNCHANGED <<gates, setUp, role, browserVars>>

ChangePassword ==
    /\ AtAccountPage
    /\ session' = 1
    /\ UNCHANGED <<serverVars, proof, form, asked, inApp, trail, page, letIn, wanted>>

\* The action asks who completes a set-up again, not who completes the first.
CompleteSetup ==
    /\ Rendered("/setup", "plain")
    /\ setUp => Is(Admins) /\ ("aal2" \in gates => session = 2)
    /\ setUp' = TRUE
    /\ Goes("/signin")
    /\ UNCHANGED <<gates, role, factor, session, proof, form, page, letIn, wanted>>

-----------------------------------------------------------------------------
(* Meanwhile, elsewhere: the trail of a visit starts anew.                 *)

Anew == /\ trail' = IF asked = NoPath THEN {} ELSE {asked}
        /\ UNCHANGED <<gates, factor, form, asked, inApp, page, letIn, wanted>>

ProfileChanges(r) ==
    /\ r # role /\ role' = r
    /\ Anew /\ UNCHANGED <<setUp, session, proof>>

SetUpElsewhere ==
    /\ ~setUp /\ setUp' = TRUE
    /\ Anew /\ UNCHANGED <<role, session, proof>>

\* The session ends, or its next token is of the level the factors still give.
SessionRefreshed ==
    /\ session > 0
    /\ session' = IF session = 2 /\ factor # "verified" THEN 1 ELSE 0
    /\ Anew /\ UNCHANGED <<setUp, role, proof>>

ProofExpires ==
    /\ proof # "none" /\ proof' = "none"
    /\ Anew /\ UNCHANGED <<setUp, role, session>>

-----------------------------------------------------------------------------
FrontDoorInit ==
    /\ gates \in SUBSET {"install", "aal2"}
    /\ setUp \in BOOLEAN
    /\ role \in Roles \cup {"none"}
    /\ factor = "none" /\ session = 0 /\ proof = "none" /\ form = "plain"
    /\ asked = NoPath /\ inApp = FALSE /\ trail = {} /\ page = "/" /\ letIn = "none" /\ wanted = NoPath

Visiting == Follow \/ (\E path \in Paths : Visit(path))

Submitting ==
    \/ SubmitPassword \/ SubmitMfaCode \/ BackToSignIn
    \/ \E live \in BOOLEAN : SubmitSignUp(live)
    \/ \E flow \in {"invite", "recovery", "signup"} : FollowMailLink(flow)
    \/ FollowDeadLink \/ SubmitNewPassword \/ SignOut
    \/ StartEnroll \/ ConfirmEnroll \/ Unenroll \/ ChangePassword
    \/ CompleteSetup

Meanwhile ==
    \/ \E r \in Roles : ProfileChanges(r)
    \/ SetUpElsewhere \/ SessionRefreshed \/ ProofExpires

FrontDoorNext == Visiting \/ Submitting \/ Meanwhile

-----------------------------------------------------------------------------
\* The cookies, the forms and the paths are the ones there are; nothing is
\* asked for without a trail, and the router asks for nothing without a page to
\* keep the layout of.
FrontDoorTypeOK ==
    /\ gates \subseteq {"install", "aal2"} /\ setUp \in BOOLEAN
    /\ role \in Roles \cup {"none"} /\ factor \in {"none", "unverified", "verified"}
    /\ session \in 0..2 /\ proof \in {"none", "invite", "recovery"}
    /\ form \in {"plain", "challenge", "password"}
    /\ page \in Paths /\ asked \in Paths \cup {NoPath} /\ wanted \in Paths \cup {NoPath}
    /\ trail \subseteq Paths /\ (asked = NoPath) = (trail = {})
    /\ letIn \in Roles \cup {"none"}
    /\ inApp \in BOOLEAN /\ (inApp => asked # NoPath /\ LayoutOf(page) # "none")

\* No visit is sent round in a circle: as long as nothing else changes, an
\* answer is the page asked for or a path this visit has not asked for yet,
\* whoever the middleware, the layouts and the pages take the reader for, and
\* whether or not the layout is asked.
NoRedirectLoop ==
    asked # NoPath => Answer(asked) = asked \/ Answer(asked) \notin trail

AreaOf(r) == CASE r \in Staff -> DeskPaths
               [] r = "DRIVER" -> DriverPaths
               [] r = "CUSTOMER" -> PortalPaths
               [] OTHER -> {}

\* Where a layout is rendered, somebody with a profile ends on a page of an own
\* area, with the second factor where it is asked for, on the set-up, or on a
\* public page that is not the way in; anybody else ends on a public page.
EndsWhereItBelongs ==
    IF SignedIn
    THEN /\ page \in AreaOf(role) \cup (PublicPaths \ {"/", "/signin", "/signup"})
         /\ page \in DeskPaths /\ "aal2" \in gates =>
                 session = 2 \/ page \in {"/profile", "/profile/account"}
         /\ page \in AreaOf(role) => ~NotSetUp
    ELSE page \in PublicPaths

\* Where it is kept, a reader with a session stays in the area some layout once
\* let in, of an install that is set up, and the pages of one role alone, which
\* all ask for it themselves, are shown to nobody of another role by now.
StaysWhereLetIn ==
    /\ session > 0
    /\ page \in AreaOf(letIn) /\ ~NotSetUp
    /\ page \in {"/audit", "/payments/refunds", "/settings/gst"} => role \in Admins
    /\ page \in {"/orgs", "/dsr"} => role = "SUPER_ADMIN"
    /\ page = "/driver/profile" => role = "DRIVER"
    /\ page \in PortalPaths => role = "CUSTOMER"

VisitEnds == asked # NoPath /\ asked' = NoPath

VisitsEndWhereTheyBelong ==
    [][VisitEnds => IF LayoutKept(asked) THEN StaysWhereLetIn'
                                         ELSE EndsWhereItBelongs']_frontDoorVars
=============================================================================
