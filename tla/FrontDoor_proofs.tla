-------------------------- MODULE FrontDoor_proofs --------------------------
(***************************************************************************)
(* What is proved of the front door and of the people behind it, for any    *)
(* people, phones, mailboxes and requests.                                  *)
(*                                                                         *)
(* A visit ends because every redirect goes down: Rank says how many        *)
(* answers a path is away from a page for the reader the server takes this  *)
(* session for, and what has been asked for lies above what is asked now.   *)
(* The people's invariant says what a request that has been begun knows of  *)
(* the person it is for, across the calls no transaction spans.             *)
(***************************************************************************)
EXTENDS MCFrontDoor, TLAPS

(* Visits.                                                                 *)

\* How many answers a path is away from a page, at most.
Rank(path) ==
    CASE path = "/setup" -> IF NotSetUp THEN 0 ELSE 6
      [] path \in {"/signin", "/signup"} -> 5
      [] path = "/" -> 4
      [] path \in PublicPaths \ {"/setup", "/signin", "/signup", "/"} -> 0
      [] path \notin PublicPaths ->
           IF ~SignedIn THEN IF path \in {"/dashboard", "/settings"} THEN 6 ELSE 7
           ELSE IF path = RoleHome(role) THEN 2
           ELSE IF role \in Staff /\ path \in {"/profile", "/profile/account"} THEN 1
           ELSE IF path \in {"/dashboard", "/settings"} THEN 3 ELSE 4

\* The trail of a visit comes down to the path that is asked for.
TrailDescends ==
    asked # NoPath =>
        asked \in trail /\ \A path \in trail \ {asked} : Rank(path) > Rank(asked)

\* The page shown lies in the area of the role its layout has let in, which it
\* does for an install that is set up.
LetInFits == LayoutOf(page) # "none" => page \in AreaOf(letIn) /\ ~NotSetUp

\* The desk's, the drivers', the portal's and the public paths do not overlap.
LEMMA PathsApart ==
    /\ \A path \in DeskPaths : path \notin PublicPaths \cup DriverPaths \cup PortalPaths
    /\ \A path \in DriverPaths : path \notin PublicPaths \cup DeskPaths \cup PortalPaths
    /\ \A path \in PortalPaths : path \notin PublicPaths \cup DeskPaths \cup DriverPaths
  BY DEF DeskPaths, SidebarPaths, DriverPaths, PortalPaths, PublicPaths,
     AuthPaths

\* So a path has one layout or none.
LEMMA Layouts ==
    \A path : /\ LayoutOf(path) = "desk" <=> path \in DeskPaths
              /\ LayoutOf(path) = "driver" <=> path \in DriverPaths
              /\ LayoutOf(path) = "portal" <=> path \in PortalPaths
              /\ LayoutOf(path) \in {"desk", "driver", "portal", "none"}
  BY PathsApart DEF LayoutOf

\* Each role's home lies in the area of that role.
LEMMA Homes ==
    /\ role \in Staff => /\ RoleHome(role) = "/dashboard"
                        /\ role # "DRIVER" /\ role # "CUSTOMER"
    /\ role = "DRIVER" => RoleHome(role) = "/driver"
    /\ role = "CUSTOMER" => RoleHome(role) = "/portal"
    /\ "/dashboard" \in DeskPaths /\ "/driver" \in DriverPaths /\ "/portal" \in PortalPaths
  BY DEF RoleHome, Staff, Admins, DeskPaths, SidebarPaths, DriverPaths,
     PortalPaths

\* The home of a reader who has one is two answers away at most.
LEMMA HomeRank ==
    ASSUME FrontDoorTypeOK, SignedIn
    PROVE  RoleHome(role) \in Paths \ PublicPaths /\ Rank(RoleHome(role)) = 2
<1>1. role \in Roles /\ role \in Staff \cup {"DRIVER", "CUSTOMER"}
  BY DEF FrontDoorTypeOK, SignedIn, Roles
<1>2. RoleHome(role) \in Paths \ PublicPaths
  BY <1>1, Homes, PathsApart DEF Paths
<1> QED
  BY <1>2 DEF Rank, PublicPaths, AuthPaths

\* A layout renders, or sends the visit to a path of a lower rank.
LEMMA LayoutDescends ==
    ASSUME FrontDoorTypeOK, NEW path \in DeskPaths \cup DriverPaths \cup PortalPaths
    PROVE  /\ Layout(path) \in Paths
           /\ Layout(path) = path \/ Rank(Layout(path)) < Rank(path)
<1>1. path \notin PublicPaths /\ path \in Paths
  BY PathsApart DEF Paths
<1>2. /\ {"/signin", "/setup"} \subseteq Paths
      /\ Rank("/signin") = 5 /\ (NotSetUp => Rank("/setup") = 0)
  BY DEF Rank, Paths, PublicPaths, AuthPaths
<1>3. /\ Rank(path) \in 1..7
      /\ ~SignedIn => Rank(path) \in 6..7
      /\ SignedIn /\ path # RoleHome(role) /\ ~(role \in Staff /\ path \in {"/profile", "/profile/account"})
            => Rank(path) \in 3..4
      /\ SignedIn /\ path = RoleHome(role) => Rank(path) = 2
  BY <1>1 DEF Rank, PublicPaths, AuthPaths
<1>4. CASE path \in DeskPaths
  <2>1. Layout(path) = AdminLayout(path)
    BY <1>4, PathsApart DEF Layout
  <2>2. CASE ~SignedIn
    BY <1>2, <1>3, <2>1, <2>2 DEF AdminLayout, Is
  <2>3. CASE SignedIn /\ NotSetUp
    BY <1>2, <1>3, <2>1, <2>3 DEF AdminLayout, Is
  <2>4. CASE SignedIn /\ ~NotSetUp /\ role \notin Staff
    <3>1. Layout(path) = RoleHome(role)
      BY <2>1, <2>4 DEF AdminLayout, Is
    <3> QED
      BY <1>3, <2>4, <3>1, HomeRank
  <2>5. CASE SignedIn /\ ~NotSetUp /\ role \in Staff
    <3>1. Layout(path) = path
             \/ (Layout(path) = "/profile/account" /\ path \notin {"/profile", "/profile/account"})
      BY <2>1, <2>5 DEF AdminLayout, Is, StaffMustChallengeAal2, IsStaffMfaExemptPath
    <3>2. /\ "/profile/account" \in Paths
          /\ Rank("/profile/account") = 1
      BY <2>5, Homes DEF Rank, Paths, PublicPaths, AuthPaths, DeskPaths
    <3> QED
      BY <1>1, <1>3, <2>5, <3>1, <3>2
  <2> QED
    BY <2>2, <2>3, <2>4, <2>5
<1>5. CASE path \in DriverPaths
  <2>1. Layout(path) = DriverLayout(path)
    BY <1>5, PathsApart DEF Layout
  <2>2. CASE ~SignedIn
    BY <1>2, <1>3, <2>1, <2>2 DEF DriverLayout, Is
  <2>3. CASE SignedIn /\ role # "DRIVER"
    <3>1. Layout(path) = RoleHome(role)
      BY <2>1, <2>3 DEF DriverLayout, Is
    <3>2. path \notin {"/profile", "/profile/account"}
      BY <1>5 DEF DriverPaths
    <3> QED
      BY <1>3, <2>3, <3>1, <3>2, HomeRank
  <2>4. CASE SignedIn /\ role = "DRIVER"
    BY <1>1, <1>2, <1>3, <2>1, <2>4 DEF DriverLayout, Is
  <2> QED
    BY <2>2, <2>3, <2>4
<1>6. CASE path \in PortalPaths
  BY <1>1, <1>2, <1>3, <1>6, PathsApart DEF Layout, CustomerLayout
<1> QED
  BY <1>4, <1>5, <1>6

\* So does a page, whether or not its layout has been asked.
LEMMA PageDescends ==
    ASSUME FrontDoorTypeOK, NEW path \in DeskPaths \cup DriverPaths \cup PortalPaths
    PROVE  /\ Page(path) \in Paths
           /\ Page(path) = path \/ Rank(Page(path)) < Rank(path)
<1>1. path \notin PublicPaths /\ path \in Paths /\ path \notin {"/", "/setup"}
  BY PathsApart DEF Paths, PublicPaths
<1>2. "/signin" \in Paths /\ Rank("/signin") = 5
  BY DEF Rank, Paths, PublicPaths, AuthPaths
<1>3. /\ ~SignedIn => Rank(path) \in 6..7
      /\ SignedIn /\ path \in DriverPaths \cup PortalPaths /\ path # RoleHome(role) => Rank(path) = 4
  BY <1>1, PathsApart DEF Rank, PublicPaths, AuthPaths, DeskPaths, SidebarPaths,
     DriverPaths, PortalPaths
<1>4. CASE path \in DeskPaths
  <2>1. Page(path) = DeskPage(path)
    BY <1>1, <1>4, PathsApart DEF Page
  <2>2. \/ DeskPage(path) = path
        \/ ~SignedIn /\ DeskPage(path) = "/signin"
        \/ /\ path \in {"/audit", "/payments/refunds", "/orgs", "/dsr"}
           /\ DeskPage(path) = "/dashboard"
        \/ path = "/settings/gst" /\ SignedIn /\ DeskPage(path) = "/settings"
    BY <1>4 DEF DeskPage, DeskPaths, SidebarPaths
  <2>3. {"/dashboard", "/settings"} \subseteq Paths
    BY DEF Paths, DeskPaths, SidebarPaths
  <2>4. /\ Rank("/dashboard") \in 2..3 \cup {6} /\ (SignedIn => Rank("/dashboard") \in 2..3)
        /\ SignedIn => Rank("/settings") = 3
    BY DEF Rank, PublicPaths, AuthPaths, RoleHome
  <2>5. path \in {"/audit", "/payments/refunds", "/orgs", "/dsr", "/settings/gst"} =>
           Rank(path) = IF SignedIn THEN 4 ELSE 7
    BY DEF Rank, PublicPaths, AuthPaths, RoleHome
  <2> QED
    BY <1>1, <1>2, <1>3, <2>1, <2>2, <2>3, <2>4, <2>5
<1>5. CASE path \in DriverPaths
  <2>1. Page(path) = DriverPage(path)
    BY <1>1, <1>5, PathsApart DEF Page
  <2>2. \/ DriverPage(path) = path
        \/ ~SignedIn /\ DriverPage(path) = "/signin"
        \/ SignedIn /\ role # "DRIVER" /\ DriverPage(path) = RoleHome(role)
    BY DEF DriverPage
  <2> QED
    BY <1>1, <1>2, <1>3, <1>5, <2>1, <2>2, HomeRank
<1>6. CASE path \in PortalPaths
  <2>1. Page(path) = PortalPage(path)
    BY <1>1, <1>6, PathsApart DEF Page
  <2>2. \/ PortalPage(path) = path
        \/ ~SignedIn /\ PortalPage(path) = "/signin"
        \/ SignedIn /\ role # "CUSTOMER" /\ PortalPage(path) = RoleHome(role)
    BY DEF PortalPage
  <2> QED
    BY <1>1, <1>2, <1>3, <1>6, <2>1, <2>2, HomeRank
<1> QED
  BY <1>4, <1>5, <1>6

\* A public path has no layout.
LEMMA PublicRoute ==
    ASSUME NEW path \in PublicPaths
    PROVE  Route(path) = CASE path = "/" -> LandingPage
                           [] path = "/setup" -> SetupPage
                           [] OTHER -> path
  BY PathsApart DEF Route, Layout, Page

\* Middleware, layout and page: an answer renders the path asked for or sends the
\* visit to a path of a lower rank.
LEMMA Descends ==
    ASSUME FrontDoorTypeOK, NEW path \in Paths
    PROVE  /\ Answer(path) \in Paths
           /\ Answer(path) = path \/ Rank(Answer(path)) < Rank(path)
<1>1. CASE path \in {"/signin", "/signup"}
  BY <1>1, PublicRoute DEF FrontDoorTypeOK, Answer, Middleware, Rank, Paths,
     PublicPaths, AuthPaths
<1>2. CASE path = "/"
  <2>1. Answer(path) = LandingPage
    BY <1>2, PublicRoute DEF Answer, Middleware, PublicPaths
  <2>2. CASE NotSetUp
    BY <1>2, <2>1, <2>2 DEF LandingPage, Rank, Paths, PublicPaths, AuthPaths
  <2>3. CASE ~NotSetUp /\ SignedIn
    BY <1>2, <2>1, <2>3, HomeRank DEF LandingPage, Rank, PublicPaths, AuthPaths
  <2>4. CASE ~NotSetUp /\ ~SignedIn
    BY <1>2, <2>1, <2>4 DEF LandingPage
  <2> QED
    BY <2>2, <2>3, <2>4
<1>3. CASE path = "/setup"
  <2>1. Answer(path) = SetupPage
    BY <1>3, PublicRoute DEF Answer, Middleware, PublicPaths
  <2>2. SetupPage = "/setup" \/ (SetupPage = "/signin" /\ ~NotSetUp)
    BY Zenon DEF SetupPage, NotSetUp
  <2> QED
    BY <1>3, <2>1, <2>2 DEF Rank, Paths, PublicPaths, AuthPaths
<1>4. CASE path \in PublicPaths \ {"/setup", "/signin", "/signup", "/"}
  BY <1>4, PublicRoute DEF Answer, Middleware, Paths
<1>5. ASSUME path \notin PublicPaths, session = 0
      PROVE  Answer(path) \in Paths /\ Rank(Answer(path)) < Rank(path)
  BY <1>5 DEF Answer, Middleware, Rank, Paths, SignedIn, PublicPaths, AuthPaths
<1>6. ASSUME path \notin PublicPaths, session # 0
      PROVE  /\ Answer(path) \in Paths
             /\ Answer(path) = path \/ Rank(Answer(path)) < Rank(path)
  <2>1. Answer(path) = Route(path)
    BY <1>6 DEF Answer, Middleware, FrontDoorTypeOK, PublicPaths, AuthPaths
  <2>2. Route(path) \in {Layout(path), Page(path)}
    BY DEF Route
  <2>3. path \in DeskPaths \cup DriverPaths \cup PortalPaths
    BY <1>6 DEF Paths
  <2> QED
    BY <2>1, <2>2, <2>3, LayoutDescends, PageDescends
<1> QED
  BY <1>1, <1>2, <1>3, <1>4, <1>5, <1>6

\* The inductive invariant of the visits.
VisitInv == FrontDoorTypeOK /\ TrailDescends /\ LetInFits

\* Whoever is sent down the ranks is not sent to a path of this visit's trail.
LEMMA NoLoop == ASSUME VisitInv PROVE NoRedirectLoop
<1> SUFFICES ASSUME asked # NoPath, Answer(asked) # asked, Answer(asked) \in trail
             PROVE  FALSE
  BY DEF NoRedirectLoop
<1>1. asked \in Paths
  BY DEF VisitInv, FrontDoorTypeOK
<1>2. Rank(Answer(asked)) < Rank(asked) /\ Rank(Answer(asked)) > Rank(asked)
  BY <1>1, Descends DEF VisitInv, TrailDescends
<1>3. \A path \in Paths : Rank(path) \in 0..7
  BY DEF Rank, Paths
<1> QED
  BY <1>1, <1>2, <1>3, Descends DEF VisitInv

\* A visit that begins, or begins anew, has asked for one path.
LEMMA OnePath ==
    ASSUME asked' # NoPath => trail' = {asked'}
    PROVE  TrailDescends'
  BY DEF TrailDescends

\* A page that stays is in the area it was let in to.
LEMMA SamePage ==
    ASSUME LetInFits, UNCHANGED <<gates, page, letIn>>, setUp => setUp'
    PROVE  LetInFits'
  BY DEF LetInFits, NotSetUp

\* An answer that renders the path asked for has passed the middleware and the
\* page, and the layout unless that is kept.
LEMMA Passes ==
    ASSUME FrontDoorTypeOK, NEW path \in Paths, Answer(path) = path
    PROVE  /\ session = 0 => path \in PublicPaths
           /\ session # 0 => path \notin {"/signin", "/signup"}
           /\ path \notin PublicPaths =>
                /\ Page(path) = path
                /\ LayoutKept(path) \/ Layout(path) = path
           /\ path \in PublicPaths => Route(path) = path
<1>1. /\ session = 0 => path \in PublicPaths
      /\ session # 0 => path \notin {"/signin", "/signup"}
      /\ path = Route(path)
  BY DEF Answer, Middleware, FrontDoorTypeOK, PublicPaths, AuthPaths
<1> QED
  BY <1>1 DEF Route

\* Where the layout has been passed, the reader belongs.
LEMMA LayoutAdmits ==
    ASSUME FrontDoorTypeOK, NEW path \in DeskPaths \cup DriverPaths \cup PortalPaths,
           Layout(path) = path, Page(path) = path
    PROVE  /\ SignedIn /\ ~NotSetUp /\ path \in AreaOf(role)
           /\ path \in DeskPaths /\ "aal2" \in gates =>
                session = 2 \/ path \in {"/profile", "/profile/account"}
<1>1. path \notin PublicPaths /\ path \notin {"/signin", "/setup", "/"}
  BY PathsApart DEF PublicPaths, AuthPaths
<1>2. SignedIn => role \in Staff \cup {"DRIVER", "CUSTOMER"} /\ session \in 1..2
  BY DEF SignedIn, FrontDoorTypeOK, Roles
<1>3. "DRIVER" \notin Staff /\ "CUSTOMER" \notin Staff
  BY DEF Staff, Admins
<1>4. CASE path \in DeskPaths
  <2>1. path = AdminLayout(path)
    BY <1>4, PathsApart DEF Layout
  <2>2. SignedIn /\ ~NotSetUp
    BY <1>1, <2>1 DEF AdminLayout, Is
  <2>3. role \in Staff
    BY <1>2, <1>3, <1>4, <2>1, <2>2, PathsApart, Homes DEF AdminLayout, Is
  <2>4. ~StaffMustChallengeAal2(path) \/ path = "/profile/account"
    BY <2>1, <2>2, <2>3 DEF AdminLayout, Is
  <2>5. "aal2" \in gates => session = 2 \/ path \in {"/profile", "/profile/account"}
    BY <1>2, <2>2, <2>4 DEF StaffMustChallengeAal2, IsStaffMfaExemptPath
  <2>6. path \in AreaOf(role)
    BY <1>3, <1>4, <2>3, Zenon DEF AreaOf
  <2> QED
    BY <2>2, <2>5, <2>6
<1>5. CASE path \in DriverPaths
  <2>1. path = DriverLayout(path)
    BY <1>5, PathsApart DEF Layout
  <2>2. SignedIn
    BY <1>1, <2>1 DEF DriverLayout, Is
  <2>3. role = "DRIVER"
    BY <1>2, <1>3, <1>5, <2>1, <2>2, PathsApart, Homes DEF DriverLayout, Is
  <2>4. ~NotSetUp
    BY <1>1, <2>1, <2>2, <2>3 DEF DriverLayout, Is
  <2> QED
    BY <1>3, <1>5, <2>2, <2>3, <2>4, PathsApart DEF AreaOf
<1>6. CASE path \in PortalPaths
  <2>1. path = CustomerLayout(path) /\ path = PortalPage(path)
    BY <1>1, <1>6, PathsApart DEF Layout, Page
  <2>2. ~NotSetUp /\ SignedIn
    BY <1>1, <2>1 DEF CustomerLayout, PortalPage
  <2>3. role = "CUSTOMER"
    BY <1>2, <1>3, <1>6, <2>1, <2>2, PathsApart, Homes DEF PortalPage
  <2> QED
    BY <1>3, <1>6, <2>2, <2>3, PathsApart DEF AreaOf
<1> QED
  BY <1>4, <1>5, <1>6

\* A page under the layout of another lies in the same areas.
LEMMA SameArea ==
    ASSUME NEW p, NEW q, SharedLayout(p, q), NEW r, p \in AreaOf(r)
    PROVE  q \in AreaOf(r)
  BY Layouts, PathsApart DEF SharedLayout, AreaOf

\* One answer of a visit adds one path of a lower rank to the trail.
LEMMA FollowKeeps ==
    ASSUME VisitInv, Follow
    PROVE  VisitInv'
<1>1. asked \in Paths /\ trail \subseteq Paths /\ asked # NoPath /\ Answer(asked) \in Paths
  BY Descends DEF VisitInv, FrontDoorTypeOK, Follow
<1>2. CASE Answer(asked) = asked
  <2>1. /\ asked' = NoPath /\ trail' = {} /\ page' = asked /\ form' = FormOf(asked)
        /\ inApp' = FALSE /\ UNCHANGED <<gates, setUp, role, factor, session, proof, wanted>>
        /\ letIn' = CASE LayoutKept(asked) -> letIn
                      [] LayoutOf(asked) = "none" -> "none"
                      [] OTHER -> role
    BY <1>2 DEF Follow, serverVars
  <2>2. letIn' \in {letIn, role, "none"} /\ FormOf(asked) \in {"plain", "password"}
    BY <2>1 DEF FormOf
  <2>3. FrontDoorTypeOK'
    BY <1>1, <2>1, <2>2 DEF VisitInv, FrontDoorTypeOK
  <2>4. LetInFits'
    <3>1. SUFFICES ASSUME LayoutOf(asked) # "none"
                   PROVE  asked \in AreaOf(letIn') /\ ~NotSetUp
      BY <2>1 DEF LetInFits, NotSetUp
    <3>2. asked \in DeskPaths \cup DriverPaths \cup PortalPaths /\ asked \notin PublicPaths
      BY <3>1, Layouts, PathsApart
    <3>3. CASE LayoutKept(asked)
      <4>1. letIn' = letIn /\ SharedLayout(page, asked)
        BY <2>1, <3>1, <3>3 DEF LayoutKept
      <4>2. page \in AreaOf(letIn) /\ ~NotSetUp
        BY <4>1 DEF VisitInv, LetInFits, SharedLayout
      <4> QED
        BY <4>1, <4>2, SameArea
    <3>4. CASE ~LayoutKept(asked)
      <4>1. letIn' = role
        BY <2>1, <3>1, <3>4
      <4>2. Layout(asked) = asked /\ Page(asked) = asked
        BY <1>1, <1>2, <3>2, <3>4, Passes DEF VisitInv
      <4> QED
        BY <3>2, <4>1, <4>2, LayoutAdmits DEF VisitInv
    <3> QED
      BY <3>3, <3>4
  <2> QED
    BY <2>1, <2>3, <2>4, OnePath DEF VisitInv
<1>3. CASE Answer(asked) # asked
  <2> DEFINE next == Answer(asked)
  <2>1. /\ asked' = next /\ trail' = trail \cup {next}
        /\ wanted' \in {asked, NoPath}
        /\ UNCHANGED <<page, letIn, inApp, form>> /\ UNCHANGED <<serverVars, session, proof>>
    BY <1>3 DEF Follow
  <2>2. Rank(next) < Rank(asked)
    BY <1>1, <1>3, Descends DEF VisitInv
  <2> HIDE DEF next
  <2>3. next \in Paths /\ next # NoPath
    BY <1>1, FrontDoorAssumption DEF next
  <2>4. FrontDoorTypeOK'
    BY <1>1, <2>1, <2>3 DEF VisitInv, FrontDoorTypeOK, serverVars
  <2>5. \A path \in Paths : Rank(path)' = Rank(path) /\ Rank(path) \in 0..7
    BY <2>1 DEF Rank, NotSetUp, SignedIn, serverVars, Paths
  <2>6. TrailDescends'
    <3>1. asked \in trail /\ \A path \in trail \ {asked} : Rank(path) > Rank(asked)
      BY <1>1 DEF VisitInv, TrailDescends
    <3>2. \A path \in trail : Rank(path) > Rank(next)
      BY <1>1, <2>2, <2>3, <2>5, <3>1
    <3>3. \A path \in trail' \ {asked'} : path \in Paths /\ path \in trail
      BY <1>1, <2>1
    <3>4. \A path \in trail' \ {asked'} : Rank(path)' > Rank(asked)'
      BY <2>1, <2>3, <2>5, <3>2, <3>3
    <3> QED
      BY <2>1, <3>4 DEF TrailDescends
  <2>7. LetInFits'
    BY <2>1, SamePage DEF VisitInv, serverVars
  <2> QED
    BY <2>4, <2>6, <2>7 DEF VisitInv
<1> QED
  BY <1>2, <1>3

\* Wherever a sign-in leads is a path of the application.
LEMMA HomePaths ==
    \A r \in Roles : /\ RoleHome(r) \in Paths
                     /\ \A path \in Paths : PostAuthRedirect(r, path) \in Paths
  BY DEF RoleHome, PostAuthRedirect, Roles, Staff, Admins, Paths, DeskPaths,
     SidebarPaths, DriverPaths, PortalPaths, PublicPaths, AuthPaths

\* A completed sign-in begins a visit of one path.
LEMMA SignInPath ==
    ASSUME FrontDoorTypeOK, CompleteSignIn
    PROVE  \E path \in Paths : Goes(path)
<1>1. PostAuthRedirect(role, wanted) \in Paths \/ role = "none"
  <2>1. RoleHome(role) \in Paths \/ role = "none"
    BY HomePaths DEF FrontDoorTypeOK
  <2>2. DeskPaths \cup PublicPaths \cup DriverPaths \cup PortalPaths = Paths
    BY DEF Paths
  <2> QED
    BY <2>1, <2>2 DEF PostAuthRedirect
<1> QED
  BY <1>1 DEF CompleteSignIn, Paths, PublicPaths, AuthPaths

\* The paths the forms and the links name exist.
LEMMA NamedPaths ==
    /\ {"/signin", "/portal", "/auth-error", "/set-password", "/", "/setup"} \subseteq Paths
    /\ NoPath \notin Paths
  BY FrontDoorAssumption DEF Paths, PublicPaths, AuthPaths, PortalPaths

\* A visit begins with a path that exists, whatever a form has set besides.
LEMMA Begins ==
    ASSUME FrontDoorTypeOK, NEW path \in Paths, Goes(path),
           UNCHANGED <<gates, setUp, page, letIn>>,
           role' \in Roles \cup {"none"}, factor' \in {"none", "unverified", "verified"},
           session' \in 0..2, proof' \in {"none", "invite", "recovery"},
           UNCHANGED <<form, wanted>>
    PROVE  FrontDoorTypeOK' /\ TrailDescends'
<1>1. asked' = path /\ trail' = {path} /\ inApp' = FALSE /\ path # NoPath
  BY NamedPaths DEF Goes, Asks
<1>2. FrontDoorTypeOK'
  BY <1>1 DEF FrontDoorTypeOK
<1> QED
  BY <1>1, <1>2, OnePath

\* Whatever a form or a link does, a visit it begins has asked for one path.
LEMMA SubmitTypes ==
    ASSUME VisitInv, Submitting
    PROVE  FrontDoorTypeOK' /\ TrailDescends'
<1>1. CASE SubmitPassword
  <2>1. CASE factor = "verified"
    <3>1. /\ asked = NoPath /\ UNCHANGED <<asked, trail, inApp>>
          /\ form' = "challenge" /\ session' = 1
          /\ UNCHANGED <<serverVars, proof, page, letIn, wanted>>
      BY <1>1, <2>1 DEF SubmitPassword, Rendered
    <3> QED
      BY <3>1 DEF VisitInv, FrontDoorTypeOK, TrailDescends, serverVars
  <2>2. CASE factor # "verified"
    <3>1. /\ CompleteSignIn /\ session' = 1
          /\ UNCHANGED <<form, gates, setUp, role, factor, proof, page, letIn, wanted>>
      BY <1>1, <2>2 DEF SubmitPassword, serverVars
    <3> QED
      BY <3>1, SignInPath, Begins DEF VisitInv, FrontDoorTypeOK
  <2> QED
    BY <2>1, <2>2
<1>2. CASE SubmitMfaCode
  <2>1. /\ CompleteSignIn /\ session' = 2
        /\ UNCHANGED <<form, gates, setUp, role, factor, proof, page, letIn, wanted>>
    BY <1>2 DEF SubmitMfaCode, serverVars
  <2> QED
    BY <2>1, SignInPath, Begins DEF VisitInv, FrontDoorTypeOK
<1>3. CASE BackToSignIn
  BY <1>3, NamedPaths DEF BackToSignIn, Rendered, VisitInv, FrontDoorTypeOK,
     TrailDescends, serverVars
<1>4. ASSUME NEW live \in BOOLEAN, SubmitSignUp(live)
      PROVE  FrontDoorTypeOK' /\ TrailDescends'
  <2>1. /\ \E path \in Paths : Goes(path)
        /\ role' = "CUSTOMER" /\ session' \in {1, session}
        /\ UNCHANGED <<gates, setUp, factor, proof, form, page, letIn, wanted>>
    BY <1>4, NamedPaths DEF SubmitSignUp
  <2> QED
    BY <2>1, Begins DEF VisitInv, FrontDoorTypeOK, Roles
<1>5. ASSUME NEW flow \in {"invite", "recovery", "signup"}, FollowMailLink(flow)
      PROVE  FrontDoorTypeOK' /\ TrailDescends'
  <2>1. role # "none" => RoleHome(role) \in Paths
    BY HomePaths DEF VisitInv, FrontDoorTypeOK
  <2>2. /\ \E path \in Paths : Goes(path)
        /\ session' = 1 /\ proof' \in {proof, "none", "invite", "recovery"}
        /\ UNCHANGED <<gates, setUp, role, factor, form, page, letIn, wanted>>
    BY <1>5, <2>1, NamedPaths DEF FollowMailLink, serverVars
  <2> QED
    BY <2>2, Begins DEF VisitInv, FrontDoorTypeOK
<1>6. CASE FollowDeadLink
  BY <1>6, NamedPaths, Begins DEF FollowDeadLink, VisitInv, FrontDoorTypeOK, serverVars
<1>7. CASE SubmitNewPassword
  BY <1>7, NamedPaths, Begins DEF SubmitNewPassword, VisitInv, FrontDoorTypeOK, serverVars
<1>8. CASE SignOut
  BY <1>8, NamedPaths, Begins DEF SignOut, VisitInv, FrontDoorTypeOK, serverVars
<1>9. CASE StartEnroll \/ Unenroll
  <2>1. /\ factor' \in {"none", "unverified"}
        /\ UNCHANGED <<gates, setUp, role, session, proof, form, page, letIn>>
        /\ UNCHANGED <<asked, inApp, trail, wanted>>
    BY <1>9 DEF StartEnroll, Unenroll, browserVars
  <2>2. FrontDoorTypeOK'
    BY <2>1 DEF VisitInv, FrontDoorTypeOK
  <2>3. TrailDescends'
    <3>1. asked = NoPath
      BY <1>9 DEF StartEnroll, Unenroll, AtAccountPage, Rendered
    <3> QED
      BY <2>1, <3>1 DEF TrailDescends
  <2> QED
    BY <2>2, <2>3
<1>10. CASE ConfirmEnroll
  BY <1>10, Begins DEF ConfirmEnroll, VisitInv, FrontDoorTypeOK
<1>11. CASE ChangePassword
  <2>1. /\ asked = NoPath /\ session' = 1
        /\ UNCHANGED <<gates, setUp, role, factor, proof, form, page, letIn>>
        /\ UNCHANGED <<asked, inApp, trail, wanted>>
    BY <1>11 DEF ChangePassword, AtAccountPage, Rendered, serverVars
  <2>2. FrontDoorTypeOK'
    BY <2>1 DEF VisitInv, FrontDoorTypeOK
  <2> QED
    BY <2>1, <2>2 DEF TrailDescends
<1>12. CASE CompleteSetup
  BY <1>12, NamedPaths DEF CompleteSetup, Goes, Asks, VisitInv, FrontDoorTypeOK,
     TrailDescends
<1> QED
  BY <1>1, <1>2, <1>3, <1>4, <1>5, <1>6, <1>7, <1>8, <1>9, <1>10, <1>11, <1>12
     DEF Submitting

\* A form leaves the page shown where it is.
LEMMA SubmitKeeps ==
    ASSUME VisitInv, Submitting
    PROVE  VisitInv'
<1>1. UNCHANGED <<gates, page, letIn>> /\ (setUp => setUp')
  BY DEF Submitting, SubmitPassword, SubmitMfaCode, BackToSignIn, SubmitSignUp,
     FollowMailLink, FollowDeadLink, SubmitNewPassword, SignOut, StartEnroll,
     ConfirmEnroll, Unenroll, ChangePassword, CompleteSetup, serverVars, browserVars
<1> QED
  BY <1>1, SubmitTypes, SamePage DEF VisitInv

\* A visit begins with the path that is typed, or that a link of the page names.
LEMMA VisitKeeps ==
    ASSUME VisitInv, NEW path \in Paths, Visit(path)
    PROVE  VisitInv'
<1>1. PICK link \in {FALSE, SharedLayout(page, path)} : Asks(path, link)
  BY DEF Visit
<1>2. /\ link \in BOOLEAN /\ (link => LayoutOf(page) # "none")
      /\ wanted' \in Paths \cup {NoPath}
      /\ UNCHANGED <<serverVars, session, proof, form, page, letIn>>
  BY HomePaths DEF Visit, SharedLayout
<1>3. FrontDoorTypeOK'
  BY <1>1, <1>2, NamedPaths DEF Asks, VisitInv, FrontDoorTypeOK, serverVars
<1>4. LetInFits'
  BY <1>2, SamePage DEF VisitInv, serverVars
<1> QED
  BY <1>1, <1>3, <1>4, OnePath DEF Asks, VisitInv

\* What changes under a visit begins its trail anew, with the path asked for.
LEMMA MeanwhileKeeps ==
    ASSUME VisitInv, Meanwhile
    PROVE  VisitInv'
<1>1. /\ UNCHANGED <<gates, factor, form, asked, inApp, page, letIn, wanted>>
      /\ trail' = IF asked = NoPath THEN {} ELSE {asked}
      /\ setUp' \in BOOLEAN /\ role' \in Roles \cup {"none"} /\ (setUp => setUp')
      /\ session' \in 0..2 /\ proof' \in {"none", "invite", "recovery"}
  <2>1. FrontDoorTypeOK
    BY DEF VisitInv
  <2>2. ASSUME NEW r \in Roles, ProfileChanges(r)
        PROVE  role' = r /\ UNCHANGED <<setUp, session, proof>>
    BY <2>2 DEF ProfileChanges
  <2>3. SetUpElsewhere => setUp' = TRUE /\ UNCHANGED <<role, session, proof>>
    BY DEF SetUpElsewhere
  <2>4. SessionRefreshed => session' \in 0..2 /\ UNCHANGED <<setUp, role, proof>>
    BY DEF SessionRefreshed
  <2>5. ProofExpires => proof' = "none" /\ UNCHANGED <<setUp, role, session>>
    BY DEF ProofExpires
  <2>6. Anew
    BY DEF Meanwhile, ProfileChanges, SetUpElsewhere, SessionRefreshed,
       ProofExpires
  <2> QED
    BY <2>1, <2>2, <2>3, <2>4, <2>5, <2>6 DEF Meanwhile, Anew, FrontDoorTypeOK
<1>2. FrontDoorTypeOK'
  BY <1>1 DEF VisitInv, FrontDoorTypeOK
<1> QED
  BY <1>1, <1>2, OnePath, SamePage DEF VisitInv

\* An answer that renders the path asked for ends the visit where the layout, or
\* where it is kept the page before, has let the reader in.
LEMMA PageBelongs ==
    ASSUME VisitInv, asked # NoPath, asked' = NoPath, Follow
    PROVE  IF LayoutKept(asked) THEN StaysWhereLetIn' ELSE EndsWhereItBelongs'
<1>1. FrontDoorTypeOK
  BY DEF VisitInv
<1>2. /\ asked \in Paths /\ page' = asked /\ Answer(asked) = asked
      /\ UNCHANGED <<gates, setUp, role, session>>
      /\ LayoutKept(asked) => letIn' = letIn
  <2>1. asked \in Paths /\ Answer(asked) \in Paths
    BY <1>1, Descends DEF FrontDoorTypeOK
  <2>2. Answer(asked) = asked
    BY <2>1, NamedPaths DEF Follow
  <2>3. /\ page' = asked /\ UNCHANGED <<gates, setUp, role, session>>
        /\ letIn' = CASE LayoutKept(asked) -> letIn
                      [] LayoutOf(asked) = "none" -> "none"
                      [] OTHER -> role
    BY <2>2 DEF Follow, serverVars
  <2>4. LayoutKept(asked) => LayoutOf(asked) # "none"
    BY DEF LayoutKept, SharedLayout
  <2> QED
    BY <2>1, <2>2, <2>3, <2>4
<1>3. CASE LayoutKept(asked)
  <2>1. /\ SharedLayout(page, asked)
        /\ asked \in DeskPaths \cup DriverPaths \cup PortalPaths
    BY <1>3, Layouts DEF LayoutKept, SharedLayout
  <2>2. asked \notin PublicPaths
    BY <2>1, PathsApart
  <2>3. session > 0 /\ Page(asked) = asked
    BY <1>1, <1>2, <2>2, Passes DEF FrontDoorTypeOK
  <2>4. asked \in AreaOf(letIn) /\ ~NotSetUp
    BY <2>1, SameArea DEF VisitInv, LetInFits, SharedLayout
  <2>5. asked \in DeskPaths =>
          /\ asked \in {"/audit", "/payments/refunds", "/settings/gst"} => role \in Admins
          /\ asked \in {"/orgs", "/dsr"} => role = "SUPER_ADMIN"
    BY <2>2, <2>3, PathsApart DEF Page, DeskPage, Is, PublicPaths
  <2>6. asked = "/driver/profile" => role = "DRIVER"
    <3>1. SUFFICES ASSUME asked = "/driver/profile" PROVE role = "DRIVER"
      OBVIOUS
    <3>2. DriverPage(asked) = asked
      BY <2>2, <2>3, <3>1, PathsApart DEF Page, PublicPaths, DriverPaths
    <3>3. RoleHome(role) # "/driver/profile"
      BY DEF RoleHome
    <3> QED
      BY <3>1, <3>2, <3>3 DEF DriverPage
  <2>7. asked \in PortalPaths => role = "CUSTOMER"
    <3>1. SUFFICES ASSUME asked \in PortalPaths PROVE role = "CUSTOMER"
      OBVIOUS
    <3>2. PortalPage(asked) = asked
      BY <2>2, <2>3, <3>1, PathsApart DEF Page, PublicPaths
    <3>3. SignedIn /\ asked \notin {"/dashboard", "/driver"}
      BY <2>2, <3>1, <3>2, PathsApart, Homes DEF PortalPage, PublicPaths, AuthPaths
    <3>4. role \in Staff \cup {"DRIVER", "CUSTOMER"}
      BY <1>1, <3>3 DEF FrontDoorTypeOK, SignedIn, Roles
    <3> QED
      BY <3>2, <3>3, <3>4, Homes DEF PortalPage
  <2>8. /\ asked \in {"/audit", "/payments/refunds", "/settings/gst", "/orgs", "/dsr"} =>
             asked \in DeskPaths
        /\ asked = "/driver/profile" => asked \in DriverPaths
    BY DEF DeskPaths, SidebarPaths, DriverPaths
  <2> QED
    BY <1>2, <1>3, <2>3, <2>4, <2>5, <2>6, <2>7, <2>8 DEF StaysWhereLetIn, NotSetUp
<1>4. CASE ~LayoutKept(asked)
  <2>1. CASE asked \in PublicPaths
    <3>1. SignedIn => asked \notin {"/", "/signin", "/signup"}
      <4>1. SignedIn => asked \notin {"/signin", "/signup"}
        BY <1>1, <1>2, Passes DEF SignedIn
      <4>2. Route("/") = LandingPage
        BY PublicRoute DEF PublicPaths
      <4>3. SignedIn => LandingPage # "/"
        BY DEF LandingPage, RoleHome
      <4> QED
        BY <1>1, <1>2, <2>1, <4>1, <4>2, <4>3, Passes
    <3>2. asked \notin DeskPaths /\ asked \notin AreaOf(role)
      BY <2>1, PathsApart DEF AreaOf
    <3> QED
      BY <1>2, <1>4, <2>1, <3>1, <3>2 DEF EndsWhereItBelongs, SignedIn
  <2>2. CASE asked \notin PublicPaths
    <3>1. asked \in DeskPaths \cup DriverPaths \cup PortalPaths
      BY <1>2, <2>2 DEF Paths
    <3>2. Layout(asked) = asked /\ Page(asked) = asked
      BY <1>1, <1>2, <1>4, <2>2, Passes
    <3>3. /\ SignedIn /\ ~NotSetUp /\ asked \in AreaOf(role)
          /\ asked \in DeskPaths /\ "aal2" \in gates =>
               session = 2 \/ asked \in {"/profile", "/profile/account"}
      BY <1>1, <3>1, <3>2, LayoutAdmits
    <3> QED
      BY <1>2, <1>4, <3>3 DEF EndsWhereItBelongs, SignedIn, NotSetUp
  <2> QED
    BY <2>1, <2>2
<1> QED
  BY <1>3, <1>4

-----------------------------------------------------------------------------
(* People.                                                                 *)

\* What a request knows of the person it is for, whatever has happened since it
\* read: the account is there, a guest it has created has no crew's row yet, an
\* address it has changed was real, a Profile it read is still there, and a
\* driver it read keeps a Driver row.
Fits(j) ==
    /\ j.user # Nobody => authUser[j.user] # Nobody
    /\ j.email # Nobody \/ j.kind \in {"portal", "update", "terminate"}
    /\ j.kind \notin {"guest", "signup"} => j.user # Nobody
    /\ j.kind = "guest" /\ j.step = "created" =>
         /\ j.user # Nobody /\ authUser[j.user].confirmed
         /\ staffRow[j.user] = "none" /\ driverRow[j.user] = "none"
    /\ j.kind \in {"claim", "portal"} => profile[j.user] # Nobody
    /\ j.kind = "portal" => IsReal(authUser[j.user].email)
    /\ j.kind = "claim" =>
         /\ IsReal(j.email)
         /\ j.step = "updated" => IsReal(authUser[j.user].email)
    /\ j.kind \in {"update", "terminate"} => driverRow[j.user] # "none"

JobsFit == \A w \in Workers : job[w] # Nobody => Fits(job[w])

\* A guest created at the desk is confirmed, so no invitation finds it.
GuestsAreNoCrew ==
    \A w, x \in Workers :
        /\ At(w, "guest", "created")
        /\ job[x] # Nobody /\ job[x].kind \in CrewRoles
        => job[w].user # job[x].user

\* The inductive invariant of the people.
PeopleInv ==
    /\ AccountsShapes
    /\ JobsFit
    /\ GuestsAreNoCrew
    /\ PeopleHaveAccounts
    /\ OwnersCanSignIn
    /\ RolesFollowRows

\* The addresses the services make are addresses, and a mailbox is one.
LEMMA Reals ==
    /\ \A m : IsReal(Real(m))
    /\ \A m \in Mailboxes : Real(m) \in Addresses
    /\ \A p \in Phones : StaffManagedEmail(p) \in Addresses
    /\ \A u \in Users : ErasedEmail(u) \in Addresses
  BY DEF IsReal, Real, Addresses

\* A request that is written holds what was written, and the others what they had.
LEMMA JobTypes ==
    ASSUME AccountsShapes, NEW w \in Workers, NEW j \in JobRecord,
           job' = [job EXCEPT ![w] = j]
    PROVE  /\ job' \in [Workers -> {Nobody} \cup JobRecord]
           /\ job'[w] = j /\ j # Nobody
           /\ \A x \in Workers : x # w => job'[x] = job[x]
  BY AccountsAssumption DEF AccountsShapes

\* So does a row of auth.users,
LEMMA RowTypes ==
    ASSUME AccountsShapes, NEW u \in Users, NEW row \in AuthUserRow,
           authUser' = [authUser EXCEPT ![u] = row]
    PROVE  /\ authUser' \in [Users -> {Nobody} \cup AuthUserRow]
           /\ authUser'[u] = row /\ row # Nobody
           /\ \A x \in Users : x # u => authUser'[x] = authUser[x]
  BY AccountsAssumption DEF AccountsShapes

\* and a Profile.
LEMMA ProfileTypes ==
    ASSUME AccountsShapes, NEW u \in Users, NEW row \in ProfileRow,
           profile' = [profile EXCEPT ![u] = row]
    PROVE  /\ profile' \in [Users -> {Nobody} \cup ProfileRow]
           /\ profile'[u] = row /\ row # Nobody
           /\ \A x \in Users : x # u => profile'[x] = profile[x]
  BY AccountsAssumption DEF AccountsShapes

\* The trigger leaves a Profile, a new one a CUSTOMER's, an old one its role.
LEMMA TriggerEffect ==
    ASSUME AccountsShapes, NEW u \in Users, NEW new \in NewRow, HandleNewAuthUser(u, new)
    PROVE  /\ profile' \in [Users -> {Nobody} \cup ProfileRow]
           /\ profile'[u] # Nobody
           /\ profile'[u].role = IF profile[u] = Nobody THEN "CUSTOMER" ELSE profile[u].role
           /\ \A x \in Users : x # u => profile'[x] = profile[x]
<1>1. CASE profile[u] = Nobody
  <2> DEFINE row == [email |-> new.email, phone |-> new.phone, role |-> "CUSTOMER"]
  <2>1. row \in ProfileRow /\ row.role = "CUSTOMER"
    BY DEF NewRow, ProfileRow
  <2>2. profile' = [profile EXCEPT ![u] = row]
    BY <1>1 DEF HandleNewAuthUser
  <2> HIDE DEF row
  <2> QED
    BY <1>1, <2>1, <2>2, ProfileTypes
<1>2. CASE profile[u] # Nobody
  <2> DEFINE row == [profile[u] EXCEPT !.email = new.email]
  <2>1. row \in ProfileRow /\ row.role = profile[u].role
    BY <1>2 DEF AccountsShapes, NewRow, ProfileRow
  <2>2. profile' = [profile EXCEPT ![u] = row]
    BY <1>2 DEF HandleNewAuthUser
  <2> HIDE DEF row
  <2> QED
    BY <1>2, <2>1, <2>2, ProfileTypes
<1> QED
  BY <1>1, <1>2

\* The services' upsert leaves one of the role they ask for.
LEMMA UpsertEffect ==
    ASSUME AccountsShapes, NEW u \in Users, NEW e \in Addresses,
           NEW p \in Phones \cup {Nobody}, NEW r \in CrewRoles \cup {"CUSTOMER"},
           UpsertProfile(u, e, p, r)
    PROVE  /\ profile' \in [Users -> {Nobody} \cup ProfileRow]
           /\ profile'[u] # Nobody /\ profile'[u].role = r
           /\ \A x \in Users : x # u => profile'[x] = profile[x]
<1>1. CASE profile[u] = Nobody
  <2> DEFINE row == [email |-> e, phone |-> p, role |-> r]
  <2>1. row \in ProfileRow /\ row.role = r
    BY DEF ProfileRow
  <2>2. profile' = [profile EXCEPT ![u] = row]
    BY <1>1 DEF UpsertProfile
  <2> HIDE DEF row
  <2> QED
    BY <2>1, <2>2, ProfileTypes
<1>2. CASE profile[u] # Nobody
  <2> DEFINE row == [profile[u] EXCEPT !.phone = p, !.role = r]
  <2>1. row \in ProfileRow /\ row.role = r
    BY <1>2 DEF AccountsShapes, ProfileRow
  <2>2. profile' = [profile EXCEPT ![u] = row]
    BY <1>2 DEF UpsertProfile
  <2> HIDE DEF row
  <2> QED
    BY <2>1, <2>2, ProfileTypes
<1> QED
  BY <1>1, <1>2

\* What the creation of a person leaves.
Created(u, e, c) ==
    /\ authUser[u] = Nobody /\ profile[u] = Nobody
    /\ customer[u] = "none" /\ staffRow[u] = "none" /\ driverRow[u] = "none"
    /\ authUser' \in [Users -> {Nobody} \cup AuthUserRow]
    /\ owed' \in [Users -> {Nobody} \cup NewRow]
    /\ profile' \in [Users -> {Nobody} \cup ProfileRow]
    /\ authUser'[u] # Nobody
    /\ authUser'[u].email = e /\ authUser'[u].confirmed = c
    /\ profile'[u] # Nobody => profile'[u].role = "CUSTOMER"
    /\ \A x \in Users : x # u => /\ authUser'[x] = authUser[x]
                               /\ owed'[x] = owed[x] /\ profile'[x] = profile[x]

\* A person Supabase creates has no rows; the Profile is the trigger's, at once
\* or when it fires.
LEMMA Creates ==
    ASSUME AccountsShapes, PeopleHaveAccounts, NEW u \in Users, NEW e \in Addresses,
           NEW p \in Phones \cup {Nobody}, NEW c \in BOOLEAN, CreateAuthUser(u, e, p, c)
    PROVE  Created(u, e, c)
<1> DEFINE row == [email |-> e, confirmed |-> c, banned |-> FALSE]
           new == [email |-> e, phone |-> p]
<1>1. row \in AuthUserRow /\ row.email = e /\ row.confirmed = c
  BY DEF AuthUserRow
<1>2. new \in NewRow
  BY DEF NewRow
<1>3. /\ authUser' = [authUser EXCEPT ![u] = row] /\ authUser[u] = Nobody
      /\ \/ HandleNewAuthUser(u, new) /\ UNCHANGED owed
         \/ owed' = [owed EXCEPT ![u] = new] /\ UNCHANGED profile
  BY DEF CreateAuthUser
<1>4. /\ profile[u] = Nobody
      /\ customer[u] = "none" /\ staffRow[u] = "none" /\ driverRow[u] = "none"
  BY <1>3 DEF PeopleHaveAccounts
<1> HIDE DEF row, new
<1>5. /\ authUser' \in [Users -> {Nobody} \cup AuthUserRow]
      /\ authUser'[u] = row /\ row # Nobody
      /\ \A x \in Users : x # u => authUser'[x] = authUser[x]
  BY <1>1, <1>3, RowTypes
<1>6. CASE HandleNewAuthUser(u, new) /\ UNCHANGED owed
  BY <1>1, <1>2, <1>3, <1>4, <1>5, <1>6, TriggerEffect DEF AccountsShapes, Created
<1>7. CASE owed' = [owed EXCEPT ![u] = new] /\ UNCHANGED profile
  <2>1. /\ owed' \in [Users -> {Nobody} \cup NewRow]
        /\ \A x \in Users : x # u => owed'[x] = owed[x]
    BY <1>2, <1>7 DEF AccountsShapes
  <2> QED
    BY <1>1, <1>3, <1>4, <1>5, <1>7, <2>1 DEF AccountsShapes, Created
<1> QED
  BY <1>3, <1>6, <1>7

\* A step that takes nobody's account, address, Profile or row away, and
\* confirms and employs nobody, leaves a request what fits it.
LEMMA FitsStays ==
    ASSUME \A x \in Users :
              /\ authUser[x] # Nobody =>
                    /\ authUser'[x] # Nobody
                    /\ authUser[x].confirmed => authUser'[x].confirmed
                    /\ IsReal(authUser[x].email) => IsReal(authUser'[x].email)
              /\ profile[x] # Nobody => profile'[x] # Nobody
              /\ driverRow[x] # "none" <=> driverRow'[x] # "none"
              /\ staffRow[x] # "none" <=> staffRow'[x] # "none"
    PROVE  \A i : Fits(i) /\ (i.user # Nobody => i.user \in Users) => Fits(i)'
  BY DEF Fits

\* A person who is created disturbs no request,
LEMMA CreatedFits ==
    ASSUME NEW u \in Users, NEW e, NEW c, Created(u, e, c),
           UNCHANGED <<customer, staffRow, driverRow>>
    PROVE  \A i : Fits(i) /\ (i.user # Nobody => i.user \in Users) => Fits(i)'
<1> USE DEF Created
<1> QED
  BY FitsStays

\* and no row.
LEMMA CreatedRows ==
    ASSUME PeopleInv, NEW u \in Users, NEW e, NEW c, Created(u, e, c),
           UNCHANGED <<customer, staffRow, driverRow>>
    PROVE  PeopleHaveAccounts' /\ OwnersCanSignIn' /\ RolesFollowRows'
<1>1. PeopleHaveAccounts'
  BY DEF Created, PeopleInv, PeopleHaveAccounts
<1>2. OwnersCanSignIn'
  BY DEF Created, PeopleInv, OwnersCanSignIn
<1>3. RolesFollowRows'
  BY DEF Created, PeopleInv, RolesFollowRows
<1> QED
  BY <1>1, <1>2, <1>3

\* Whoever a request is for has an account.
LEMMA UsersOfJobs ==
    ASSUME PeopleInv
    PROVE  \A x \in Workers : job[x] # Nobody /\ job[x].user # Nobody =>
             job[x].user \in Users /\ authUser[job[x].user] # Nobody
  BY DEF PeopleInv, AccountsShapes, JobRecord, JobsFit, Fits

\* Signing up creates a person nobody knows of.
LEMMA SignUpKeeps ==
    ASSUME PeopleInv, NEW w \in Workers, NEW u \in Users, SignUp(w, u)
    PROVE  PeopleInv'
<1>1. /\ job[w] \in JobRecord /\ job[w].email \in Addresses
      /\ job[w].phone \in Phones \cup {Nobody}
  BY DEF PeopleInv, AccountsShapes, JobsFit, Fits, SignUp, At, JobRecord
<1>2. /\ CreateAuthUser(u, job[w].email, job[w].phone, FALSE)
      /\ job' = [job EXCEPT ![w] = Nobody]
      /\ UNCHANGED <<customer, staffRow, driverRow>>
  BY DEF SignUp, Ends
<1>3. Created(u, job[w].email, FALSE)
  BY <1>1, <1>2, Creates DEF PeopleInv
<1>4. /\ job' \in [Workers -> {Nobody} \cup JobRecord]
      /\ \A x \in Workers : job'[x] # Nobody => job'[x] = job[x]
  BY <1>2 DEF PeopleInv, AccountsShapes
<1>5. AccountsShapes'
  BY <1>2, <1>3, <1>4 DEF Created, PeopleInv, AccountsShapes
<1>6. JobsFit'
  <2>1. \A i : Fits(i) /\ (i.user # Nobody => i.user \in Users) => Fits(i)'
    BY <1>2, <1>3, CreatedFits
  <2> QED
    BY <1>4, <2>1, UsersOfJobs DEF PeopleInv, JobsFit, Fits
<1>7. GuestsAreNoCrew'
  BY <1>4 DEF PeopleInv, GuestsAreNoCrew, At
<1> QED
  BY <1>2, <1>3, <1>5, <1>6, <1>7, CreatedRows DEF PeopleInv

\* An auth user that is edited in place keeps the types.
LEMMA EditRow ==
    ASSUME AccountsShapes, NEW u \in Users, authUser[u] # Nobody,
           NEW row \in AuthUserRow, authUser' = [authUser EXCEPT ![u] = row],
           UNCHANGED <<owed, profile, customer, staffRow, driverRow>>,
           job' \in [Workers -> {Nobody} \cup JobRecord]
    PROVE  AccountsShapes'
  BY RowTypes DEF AccountsShapes

\* A claim gives the account its address, and the Profile where that is mirrored.
LEMMA UpdateEffect ==
    ASSUME PeopleInv, NEW w \in Workers, UpdateClaimedUser(w)
    PROVE  /\ AccountsShapes'
           /\ job'[w] # Nobody /\ job'[w].kind = "claim" /\ job'[w].user = job[w].user
           /\ job'[w].email = job[w].email /\ job[w].user \in Users
           /\ IsReal(authUser'[job[w].user].email)
           /\ \A x \in Workers : x # w => job'[x] = job[x]
           /\ \A x \in Users :
                 /\ authUser[x] # Nobody =>
                       /\ authUser'[x] # Nobody
                       /\ authUser[x].confirmed => authUser'[x].confirmed
                       /\ IsReal(authUser[x].email) => IsReal(authUser'[x].email)
                 /\ profile[x] # Nobody <=> profile'[x] # Nobody
                 /\ profile'[x].role = profile[x].role
<1> DEFINE u == job[w].user
           row == [authUser[u] EXCEPT !.email = job[w].email]
           prow == [profile[u] EXCEPT !.email = job[w].email]
           j == [job[w] EXCEPT !.step = "updated", !.user = u]
<1>1. /\ u \in Users /\ authUser[u] # Nobody /\ profile[u] # Nobody
      /\ job[w].email \in Addresses /\ job[w] \in JobRecord
      /\ job[w].kind = "claim" /\ IsReal(job[w].email)
  BY DEF PeopleInv, AccountsShapes, JobsFit, Fits, UpdateClaimedUser, At,
     JobRecord
<1>2. authUser[u] \in AuthUserRow /\ profile[u] \in ProfileRow
  BY <1>1 DEF PeopleInv, AccountsShapes
<1>3. /\ row \in AuthUserRow /\ row.email = job[w].email
      /\ row.confirmed = authUser[u].confirmed
  BY <1>1, <1>2 DEF AuthUserRow
<1>4. prow \in ProfileRow /\ prow.role = profile[u].role
  BY <1>1, <1>2 DEF ProfileRow
<1>5. /\ authUser' = [authUser EXCEPT ![u] = row]
      /\ UNCHANGED profile \/ profile' = [profile EXCEPT ![u] = prow]
      /\ UNCHANGED <<owed, customer, staffRow, driverRow>>
  BY <1>1, <1>2 DEF UpdateClaimedUser
<1>6. j \in JobRecord /\ j.kind = "claim" /\ j.user = u /\ j.email = job[w].email
  BY <1>1 DEF JobRecord
<1>7. job' = [job EXCEPT ![w] = j]
  BY <1>1 DEF UpdateClaimedUser, Moves, PeopleInv, AccountsShapes, JobRecord
<1> HIDE DEF row, prow, j, u
<1>8. /\ job' \in [Workers -> {Nobody} \cup JobRecord]
      /\ job'[w] = j /\ j # Nobody /\ \A x \in Workers : x # w => job'[x] = job[x]
  BY <1>6, <1>7, JobTypes DEF PeopleInv
<1>9. /\ authUser' \in [Users -> {Nobody} \cup AuthUserRow]
      /\ authUser'[u] = row /\ row # Nobody
      /\ \A x \in Users : x # u => authUser'[x] = authUser[x]
  BY <1>1, <1>3, <1>5, RowTypes DEF PeopleInv
<1>10. /\ profile' \in [Users -> {Nobody} \cup ProfileRow]
       /\ profile'[u] # Nobody /\ profile'[u].role = profile[u].role
       /\ \A x \in Users : x # u => profile'[x] = profile[x]
  <2>1. CASE UNCHANGED profile
    BY <1>1, <2>1 DEF PeopleInv, AccountsShapes
  <2>2. CASE profile' = [profile EXCEPT ![u] = prow]
    BY <1>1, <1>4, <2>2, ProfileTypes DEF PeopleInv
  <2> QED
    BY <1>5, <2>1, <2>2
<1>11. AccountsShapes'
  BY <1>5, <1>8, <1>9, <1>10 DEF PeopleInv, AccountsShapes
<1> QED
  BY <1>1, <1>3, <1>6, <1>8, <1>9, <1>10, <1>11 DEF u

\* A ban is one flag of one auth user.
LEMMA BanKeeps ==
    ASSUME PeopleInv, NEW w \in Workers, BanDriver(w)
    PROVE  PeopleInv'
<1> DEFINE u == job[w].user
           row == [authUser[u] EXCEPT !.banned = TRUE]
           j == [job[w] EXCEPT !.step = "banned", !.user = u]
<1>1. /\ u \in Users /\ authUser[u] # Nobody /\ job[w] \in JobRecord
      /\ job[w] # Nobody /\ job[w].kind = "terminate" /\ job[w].step = "checked"
  BY DEF PeopleInv, AccountsShapes, JobsFit, Fits, BanDriver, At, JobRecord
<1>2. authUser[u] \in AuthUserRow
  BY <1>1 DEF PeopleInv, AccountsShapes
<1>3. /\ row \in AuthUserRow /\ row.email = authUser[u].email
      /\ row.confirmed = authUser[u].confirmed
  BY <1>1, <1>2 DEF AuthUserRow
<1>4. /\ authUser' = [authUser EXCEPT ![u] = row]
      /\ UNCHANGED <<owed, profile, customer, staffRow, driverRow>>
  BY <1>1, <1>2 DEF BanDriver
<1>5. j \in JobRecord /\ j.kind = "terminate" /\ j.user = u
  BY <1>1 DEF JobRecord
<1>6. job' = [job EXCEPT ![w] = j]
  BY <1>1 DEF BanDriver, Moves, PeopleInv, AccountsShapes, JobRecord
<1> HIDE DEF row, j
<1>7. /\ job' \in [Workers -> {Nobody} \cup JobRecord]
      /\ job'[w] = j /\ j # Nobody /\ \A x \in Workers : x # w => job'[x] = job[x]
  BY <1>5, <1>6, JobTypes DEF PeopleInv
<1>8. AccountsShapes'
  BY <1>1, <1>3, <1>4, <1>7, EditRow DEF PeopleInv
<1>9. \A x \in Users :
          /\ authUser'[x] = Nobody <=> authUser[x] = Nobody
          /\ authUser[x] # Nobody =>
                /\ authUser'[x].email = authUser[x].email
                /\ authUser'[x].confirmed = authUser[x].confirmed
  BY <1>1, <1>3, <1>4, RowTypes DEF PeopleInv
<1> HIDE DEF u
<1>10. \A x \in Workers :
         job[x] # Nobody /\ job[x].user # Nobody => job[x].user \in Users
  BY DEF PeopleInv, AccountsShapes, JobRecord
<1>11. JobsFit'
  <2>1. \A x \in Workers : job'[x] # Nobody /\ x # w =>
           job[x] # Nobody /\ Fits(job[x]) /\ job'[x] = job[x]
    BY <1>7 DEF PeopleInv, JobsFit
  <2>2. \A i : Fits(i) /\ (i.user # Nobody => i.user \in Users) => Fits(i)'
    BY <1>4, <1>9 DEF Fits, IsReal
  <2>3. \A i : i = j => Fits(i)'
    BY <1>1, <1>4, <1>5, <1>9 DEF Fits, IsReal, PeopleInv, JobsFit, u
  <2> QED
    BY <1>7, <1>10, <2>1, <2>2, <2>3 DEF JobsFit, Fits, IsReal
<1>12. GuestsAreNoCrew'
  BY <1>1, <1>5, <1>7 DEF PeopleInv, GuestsAreNoCrew, At, CrewRoles
<1>13. (PeopleHaveAccounts /\ OwnersCanSignIn /\ RolesFollowRows)'
  BY <1>4, <1>9 DEF PeopleInv, PeopleHaveAccounts, OwnersCanSignIn,
     RolesFollowRows, IsReal
<1> QED
  BY <1>8, <1>11, <1>12, <1>13 DEF PeopleInv

\* A confirmation is one flag, and no guest being created is without it.
LEMMA ConfirmKeeps ==
    ASSUME PeopleInv, NEW u \in Users, ConfirmEmail(u)
    PROVE  PeopleInv'
<1> DEFINE row == [authUser[u] EXCEPT !.confirmed = TRUE]
<1>1. authUser[u] # Nobody /\ authUser[u] \in AuthUserRow
  BY DEF PeopleInv, AccountsShapes, ConfirmEmail
<1>2. row \in AuthUserRow /\ row.email = authUser[u].email /\ row.confirmed
  BY <1>1 DEF AuthUserRow
<1>3. /\ authUser' = [authUser EXCEPT ![u] = row]
      /\ UNCHANGED <<owed, profile, customer, staffRow, driverRow, job>>
  BY <1>1 DEF ConfirmEmail
<1> HIDE DEF row
<1>4. AccountsShapes'
  BY <1>1, <1>2, <1>3, EditRow DEF PeopleInv, AccountsShapes
<1>5. \A x \in Users :
          /\ authUser'[x] = Nobody <=> authUser[x] = Nobody
          /\ authUser[x] # Nobody =>
                /\ authUser'[x].email = authUser[x].email
                /\ authUser[x].confirmed => authUser'[x].confirmed
  BY <1>1, <1>2, <1>3, RowTypes DEF PeopleInv
<1>6. \A x \in Workers :
         job[x] # Nobody /\ job[x].user # Nobody => job[x].user \in Users
  BY DEF PeopleInv, AccountsShapes, JobRecord
<1>7. JobsFit'
  <2>1. \A i : Fits(i) /\ (i.user # Nobody => i.user \in Users) => Fits(i)'
    BY <1>3, <1>5 DEF Fits, IsReal
  <2> QED
    BY <1>3, <1>6, <2>1 DEF PeopleInv, JobsFit
<1>8. (GuestsAreNoCrew /\ PeopleHaveAccounts /\ OwnersCanSignIn /\ RolesFollowRows)'
  BY <1>3, <1>5 DEF PeopleInv, PeopleHaveAccounts, OwnersCanSignIn,
     RolesFollowRows, GuestsAreNoCrew, At, IsReal
<1> QED
  BY <1>4, <1>7, <1>8 DEF PeopleInv

\* A trigger, early or late, takes nobody's role away.
LEMMA TriggerKeeps ==
    ASSUME PeopleInv, NEW u \in Users, TriggerFires(u)
    PROVE  PeopleInv'
<1>1. /\ owed[u] \in NewRow /\ authUser[u] # Nobody
      /\ HandleNewAuthUser(u, owed[u]) /\ owed' = [owed EXCEPT ![u] = Nobody]
      /\ UNCHANGED <<authUser, customer, staffRow, driverRow, job>>
  BY DEF TriggerFires, PeopleInv, AccountsShapes, PeopleHaveAccounts
<1>2. /\ profile' \in [Users -> {Nobody} \cup ProfileRow]
      /\ profile'[u] # Nobody
      /\ profile'[u].role = IF profile[u] = Nobody THEN "CUSTOMER" ELSE profile[u].role
      /\ \A x \in Users : x # u => profile'[x] = profile[x]
  BY <1>1, TriggerEffect DEF PeopleInv
<1>3. AccountsShapes'
  BY <1>1, <1>2 DEF PeopleInv, AccountsShapes
<1>4. JobsFit'
  <2>1. \A i : Fits(i) /\ (i.user # Nobody => i.user \in Users) => Fits(i)'
    BY <1>1, <1>2, FitsStays
  <2> QED
    BY <1>1, <2>1, UsersOfJobs DEF PeopleInv, JobsFit
<1>5. GuestsAreNoCrew'
  BY <1>1 DEF PeopleInv, GuestsAreNoCrew, At
<1>6. PeopleHaveAccounts'
  BY <1>1, <1>2 DEF PeopleInv, PeopleHaveAccounts, AccountsShapes
<1>7. OwnersCanSignIn'
  BY <1>1 DEF PeopleInv, OwnersCanSignIn
<1>8. RolesFollowRows'
  BY <1>1, <1>2 DEF PeopleInv, RolesFollowRows, PeopleHaveAccounts
<1> QED
  BY <1>3, <1>4, <1>5, <1>6, <1>7, <1>8 DEF PeopleInv

\* A Profile that is edited in place disturbs no request and no account.
LEMMA EditProfile ==
    ASSUME PeopleInv, NEW u \in Users, profile[u] # Nobody, NEW row \in ProfileRow,
           profile' = [profile EXCEPT ![u] = row],
           UNCHANGED <<authUser, owed, staffRow, driverRow>>,
           customer' \in [Users -> {"none", "managed", "own"}],
           \A x \in Users : x = u \/ customer'[x] = customer[x],
           job' \in [Workers -> {Nobody} \cup JobRecord],
           \A x \in Workers : job'[x] # Nobody => job'[x] = job[x]
    PROVE  /\ AccountsShapes' /\ JobsFit' /\ GuestsAreNoCrew' /\ PeopleHaveAccounts'
           /\ row.role = profile[u].role => RolesFollowRows'
           /\ profile'[u] = row /\ row # Nobody
           /\ \A x \in Users : x # u => profile'[x] = profile[x]
<1>1. /\ profile' \in [Users -> {Nobody} \cup ProfileRow]
      /\ profile'[u] = row /\ row # Nobody
      /\ \A x \in Users : x # u => profile'[x] = profile[x]
  BY ProfileTypes DEF PeopleInv
<1>2. AccountsShapes'
  BY <1>1 DEF PeopleInv, AccountsShapes
<1>3. JobsFit'
  <2>1. \A i : Fits(i) /\ (i.user # Nobody => i.user \in Users) => Fits(i)'
    BY <1>1, FitsStays
  <2> QED
    BY <2>1, UsersOfJobs DEF PeopleInv, JobsFit
<1>4. GuestsAreNoCrew'
  BY DEF PeopleInv, GuestsAreNoCrew, At
<1>5. PeopleHaveAccounts'
  BY <1>1 DEF PeopleInv, PeopleHaveAccounts
<1>6. row.role = profile[u].role => RolesFollowRows'
  BY <1>1 DEF PeopleInv, RolesFollowRows
<1> QED
  BY <1>1, <1>2, <1>3, <1>4, <1>5, <1>6

\* The transaction of a claim finds a real address at Supabase.
LEMMA ClaimKeeps ==
    ASSUME PeopleInv, NEW w \in Workers, CommitClaim(w)
    PROVE  PeopleInv'
<1> DEFINE u == job[w].user
           row == [profile[u] EXCEPT !.email = job[w].email]
<1>1. /\ job[w] # Nobody /\ job[w].kind = "claim" /\ job[w].step = "updated"
      /\ job[w] \in JobRecord /\ Fits(job[w])
  BY DEF CommitClaim, At, PeopleInv, JobsFit, AccountsShapes
<1>2. /\ u \in Users /\ job[w].email \in Addresses /\ profile[u] # Nobody
      /\ IsReal(authUser[u].email)
  BY <1>1 DEF Fits, JobRecord
<1>3. profile[u] \in ProfileRow
  BY <1>2 DEF PeopleInv, AccountsShapes
<1>4. row \in ProfileRow /\ row.role = profile[u].role
  BY <1>2, <1>3 DEF ProfileRow
<1>5. /\ profile' = [profile EXCEPT ![u] = row]
      /\ customer' = [customer EXCEPT ![u] = "own"] /\ job' = [job EXCEPT ![w] = Nobody]
      /\ UNCHANGED <<authUser, owed, staffRow, driverRow>>
  BY <1>2, <1>3 DEF CommitClaim, Ends
<1> HIDE DEF u, row
<1>6. /\ customer' \in [Users -> {"none", "managed", "own"}]
      /\ \A x \in Users : x = u \/ customer'[x] = customer[x]
      /\ job' \in [Workers -> {Nobody} \cup JobRecord]
      /\ \A x \in Workers : job'[x] # Nobody => job'[x] = job[x]
  BY <1>2, <1>5 DEF PeopleInv, AccountsShapes
<1>7. OwnersCanSignIn'
  BY <1>2, <1>5, <1>6 DEF PeopleInv, OwnersCanSignIn
<1> QED
  BY <1>2, <1>4, <1>5, <1>6, <1>7, EditProfile DEF PeopleInv

\* The staff form makes somebody with a Staff row staff.
LEMMA UpdateStaffKeeps ==
    ASSUME PeopleInv, NEW u \in Users, UpdateStaff(u)
    PROVE  PeopleInv'
<1> DEFINE row == [profile[u] EXCEPT !.role = "STAFF"]
<1>1. profile[u] # Nobody /\ profile[u] \in ProfileRow /\ staffRow[u] = "active"
  BY DEF PeopleInv, AccountsShapes, PeopleHaveAccounts, UpdateStaff
<1>2. row \in ProfileRow /\ row.role = "STAFF"
  BY <1>1 DEF ProfileRow, CrewRoles
<1>3. /\ profile' = [profile EXCEPT ![u] = row]
      /\ UNCHANGED <<authUser, owed, customer, staffRow, driverRow, job>>
  BY <1>1 DEF UpdateStaff
<1> HIDE DEF row
<1>4. /\ AccountsShapes' /\ JobsFit' /\ GuestsAreNoCrew' /\ PeopleHaveAccounts'
      /\ profile'[u] = row /\ row # Nobody
      /\ \A x \in Users : x # u => profile'[x] = profile[x]
  BY <1>1, <1>2, <1>3, EditProfile DEF PeopleInv, AccountsShapes
<1>5. RolesFollowRows'
  BY <1>1, <1>2, <1>3, <1>4 DEF PeopleInv, RolesFollowRows
<1>6. OwnersCanSignIn'
  BY <1>3 DEF PeopleInv, OwnersCanSignIn
<1> QED
  BY <1>4, <1>5, <1>6 DEF PeopleInv

\* An erasure and an own profile's form leave the role.
LEMMA ScrubKeeps ==
    ASSUME PeopleInv, NEW u \in Users, NEW e \in Addresses, NEW p \in Phones \cup {Nobody},
           profile[u] # Nobody,
           profile' = [profile EXCEPT ![u].email = e, ![u].phone = p],
           UNCHANGED <<authUser, owed, customer, staffRow, driverRow, job>>
    PROVE  PeopleInv'
<1> DEFINE row == [profile[u] EXCEPT !.email = e, !.phone = p]
<1>1. profile[u] \in ProfileRow
  BY DEF PeopleInv, AccountsShapes
<1>2. row \in ProfileRow /\ row.role = profile[u].role
  BY <1>1 DEF ProfileRow
<1>3. profile' = [profile EXCEPT ![u] = row]
  BY <1>1
<1> HIDE DEF row
<1>4. OwnersCanSignIn'
  BY DEF PeopleInv, OwnersCanSignIn
<1> QED
  BY <1>2, <1>3, <1>4, EditProfile DEF PeopleInv, AccountsShapes

\* An invitation creates a person or finds one that has not confirmed.
LEMMA InviteKeeps ==
    ASSUME PeopleInv, NEW w \in Workers, NEW r \in CrewRoles, NEW u \in Users,
           NEW m \in Mailboxes, NEW p \in Phones, InviteUserByEmail(w, r, u, m, p)
    PROVE  PeopleInv'
<1> DEFINE j == Job(r, "invited", u, Real(m), p)
<1>1. /\ j \in JobRecord /\ j.kind = r /\ j.user = u /\ j.email \in Addresses
      /\ j.step = "invited"
  BY Reals DEF Job, JobRecord
<1>2. job' = [job EXCEPT ![w] = j] /\ UNCHANGED <<customer, staffRow, driverRow>>
  BY DEF InviteUserByEmail, Starts
<1> HIDE DEF j
<1>3. /\ job' \in [Workers -> {Nobody} \cup JobRecord]
      /\ job'[w] = j /\ j # Nobody /\ \A x \in Workers : x # w => job'[x] = job[x]
  BY <1>1, <1>2, JobTypes DEF PeopleInv
<1>4. /\ j.email # Nobody /\ u # Nobody
      /\ j.kind \notin {"guest", "signup", "portal", "claim", "update", "terminate"}
  BY <1>1, AccountsAssumption DEF CrewRoles
<1>5. \A x \in Workers : job'[x] # Nobody => x = w \/ (job'[x] = job[x] /\ Fits(job[x]))
  BY <1>3 DEF PeopleInv, JobsFit
<1>6. CASE CreateAuthUser(u, Real(m), p, FALSE)
  <2>1. Created(u, Real(m), FALSE)
    BY <1>6, Reals, Creates DEF PeopleInv
  <2>2. AccountsShapes'
    BY <1>2, <1>3, <2>1 DEF Created, PeopleInv, AccountsShapes
  <2>3. JobsFit'
    <3>1. \A i : Fits(i) /\ (i.user # Nobody => i.user \in Users) => Fits(i)'
      BY <1>2, <2>1, CreatedFits
    <3>2. \A i : i = j => Fits(i)'
      BY <1>1, <1>4, <2>1 DEF Fits, Created
    <3> QED
      BY <1>3, <1>5, <3>1, <3>2, UsersOfJobs DEF JobsFit, Fits
  <2>4. GuestsAreNoCrew'
    BY <1>1, <1>3, <1>4, <2>1, UsersOfJobs DEF PeopleInv, GuestsAreNoCrew, At, Created
  <2> QED
    BY <1>2, <2>1, <2>2, <2>3, <2>4, CreatedRows DEF PeopleInv
<1>7. CASE /\ u \in AccountOf(Real(m)) /\ ~authUser[u].confirmed
           /\ UNCHANGED <<authUser, owed, profile>>
  <2>1. AccountsShapes'
    BY <1>2, <1>3, <1>7 DEF PeopleInv, AccountsShapes
  <2>2. JobsFit'
    <3>1. \A i : Fits(i) => Fits(i)'
      BY <1>2, <1>7 DEF Fits, IsReal
    <3>2. \A i : i = j => Fits(i)'
      BY <1>1, <1>4, <1>7 DEF Fits, AccountOf
    <3> QED
      BY <1>3, <1>5, <3>1, <3>2 DEF JobsFit, Fits
  <2>3. GuestsAreNoCrew'
    BY <1>1, <1>3, <1>4, <1>7 DEF PeopleInv, JobsFit, Fits, GuestsAreNoCrew, At
  <2>4. (PeopleHaveAccounts /\ OwnersCanSignIn)'
    BY <1>2, <1>7 DEF PeopleInv, PeopleHaveAccounts, OwnersCanSignIn, IsReal
  <2>5. RolesFollowRows'
    BY <1>2, <1>7 DEF PeopleInv, RolesFollowRows
  <2> QED
    BY <2>1, <2>2, <2>3, <2>4, <2>5 DEF PeopleInv
<1> QED
  BY <1>6, <1>7 DEF InviteUserByEmail

\* An account created for a guest is no crew's.
LEMMA CreateGuestKeeps ==
    ASSUME PeopleInv, NEW w \in Workers, NEW u \in Users, CreateGuestUser(w, u)
    PROVE  PeopleInv'
<1> DEFINE j == [job[w] EXCEPT !.step = "created", !.user = u]
<1>1. /\ job[w] \in JobRecord /\ job[w].email \in Addresses
      /\ job[w].phone \in Phones \cup {Nobody} /\ job[w].kind = "guest"
  BY DEF PeopleInv, AccountsShapes, JobsFit, Fits, CreateGuestUser, At, JobRecord
<1>2. /\ j \in JobRecord /\ j.kind = "guest" /\ j.step = "created" /\ j.user = u
      /\ j.email = job[w].email
  BY <1>1 DEF JobRecord
<1>3. /\ job' = [job EXCEPT ![w] = j] /\ UNCHANGED <<customer, staffRow, driverRow>>
      /\ CreateAuthUser(u, job[w].email, job[w].phone, TRUE)
  BY <1>1 DEF CreateGuestUser, Moves, PeopleInv, AccountsShapes, JobRecord
<1> HIDE DEF j
<1>4. Created(u, job[w].email, TRUE)
  BY <1>1, <1>3, Creates DEF PeopleInv
<1>5. /\ job' \in [Workers -> {Nobody} \cup JobRecord]
      /\ job'[w] = j /\ j # Nobody /\ \A x \in Workers : x # w => job'[x] = job[x]
  BY <1>2, <1>3, JobTypes DEF PeopleInv
<1>6. AccountsShapes'
  BY <1>3, <1>4, <1>5 DEF Created, PeopleInv, AccountsShapes
<1>7. JobsFit'
  <2>1. \A i : Fits(i) /\ (i.user # Nobody => i.user \in Users) => Fits(i)'
    BY <1>3, <1>4, CreatedFits
  <2>2. \A i : i = j => Fits(i)'
    BY <1>1, <1>2, <1>3, <1>4, AccountsAssumption DEF Fits, Created
  <2>3. \A x \in Workers : job'[x] # Nobody => x = w \/ (job'[x] = job[x] /\ Fits(job[x]))
    BY <1>5 DEF PeopleInv, JobsFit
  <2> QED
    BY <1>5, <2>1, <2>2, <2>3, UsersOfJobs DEF JobsFit, Fits
<1>8. GuestsAreNoCrew'
  BY <1>2, <1>4, <1>5, UsersOfJobs, AccountsAssumption DEF PeopleInv, GuestsAreNoCrew, At,
     Created, CrewRoles
<1> QED
  BY <1>3, <1>4, <1>6, <1>7, <1>8, CreatedRows DEF PeopleInv

\* The desk's requests keep the invariant.
LEMMA DeskStepKeeps ==
    ASSUME PeopleInv, NEW w \in Workers, DeskStep(w)
    PROVE  PeopleInv'
<1>1. ASSUME NEW p \in Phones, FindStaffCustomer(w, p)
      PROVE  PeopleInv'
  <2>1. AccountsShapes'
    BY <1>1, Reals DEF PeopleInv, FindStaffCustomer, AccountsShapes, JobRecord,
       Starts, Job
  <2>2. JobsFit'
    BY <1>1, AccountsAssumption, Reals DEF PeopleInv, FindStaffCustomer,
       JobsFit, Fits, Starts, Job
  <2>3. GuestsAreNoCrew'
    BY <1>1 DEF PeopleInv, FindStaffCustomer, GuestsAreNoCrew, At, Starts, Job
  <2>4. (PeopleHaveAccounts /\ OwnersCanSignIn)'
    BY <1>1 DEF PeopleInv, FindStaffCustomer, PeopleHaveAccounts,
       OwnersCanSignIn
  <2>5. RolesFollowRows'
    BY <1>1 DEF PeopleInv, FindStaffCustomer, RolesFollowRows
  <2> QED
    BY <2>1, <2>2, <2>3, <2>4, <2>5 DEF PeopleInv
<1>2. ASSUME NEW u \in Users, CreateGuestUser(w, u)
      PROVE  PeopleInv'
  BY <1>2, CreateGuestKeeps
<1>3. ASSUME CommitGuest(w) PROVE PeopleInv'
  <2> DEFINE u == job[w].user
  <2>1. /\ job[w] # Nobody /\ job[w].kind = "guest" /\ job[w].step = "created"
        /\ Fits(job[w]) /\ job[w] \in JobRecord
    BY <1>3 DEF CommitGuest, At, PeopleInv, JobsFit, AccountsShapes
  <2>2. /\ u \in Users /\ authUser[u] # Nobody /\ job[w].email \in Addresses
        /\ job[w].phone \in Phones \cup {Nobody}
    BY <2>1 DEF Fits, JobRecord
  <2>3. /\ UpsertProfile(u, job[w].email, job[w].phone, "CUSTOMER")
        /\ customer[u] = "none" /\ customer' = [customer EXCEPT ![u] = "managed"]
        /\ job' = [job EXCEPT ![w] = Nobody]
        /\ UNCHANGED <<authUser, owed, staffRow, driverRow>>
    BY <1>3 DEF CommitGuest, Ends
  <2> HIDE DEF u
  <2>4. /\ profile' \in [Users -> {Nobody} \cup ProfileRow]
        /\ profile'[u] # Nobody /\ profile'[u].role = "CUSTOMER"
        /\ \A x \in Users : x # u => profile'[x] = profile[x]
    BY <2>2, <2>3, UpsertEffect DEF PeopleInv, CrewRoles
  <2>5. \A x \in Workers : job'[x] # Nobody => x # w /\ job'[x] = job[x]
    BY <2>3 DEF PeopleInv, AccountsShapes
  <2>6. AccountsShapes'
    BY <2>2, <2>3, <2>4 DEF PeopleInv, AccountsShapes
  <2>7. JobsFit'
    <3>1. \A i : Fits(i) /\ (i.user # Nobody => i.user \in Users) => Fits(i)'
      BY <2>2, <2>3, <2>4, FitsStays
    <3> QED
      BY <2>5, <3>1, UsersOfJobs DEF PeopleInv, JobsFit
  <2>8. GuestsAreNoCrew'
    BY <2>5 DEF PeopleInv, GuestsAreNoCrew, At
  <2>9. (PeopleHaveAccounts /\ OwnersCanSignIn)'
    BY <2>2, <2>3, <2>4 DEF PeopleInv, PeopleHaveAccounts, OwnersCanSignIn, IsReal, AccountsShapes
  <2>10. RolesFollowRows'
    BY <2>1, <2>2, <2>3, <2>4 DEF PeopleInv, RolesFollowRows, AccountsShapes, Fits, u
  <2> QED
    BY <2>6, <2>7, <2>8, <2>9, <2>10 DEF PeopleInv
<1>4. ASSUME JobDies(w) PROVE PeopleInv'
  <2>1. AccountsShapes'
    BY <1>4 DEF PeopleInv, JobDies, AccountsShapes, Ends
  <2>2. JobsFit'
    BY <1>4 DEF PeopleInv, JobDies, JobsFit, Fits, Ends
  <2>3. GuestsAreNoCrew'
    BY <1>4 DEF PeopleInv, JobDies, GuestsAreNoCrew, At, Ends
  <2>4. (PeopleHaveAccounts /\ OwnersCanSignIn)'
    BY <1>4 DEF PeopleInv, JobDies, PeopleHaveAccounts, OwnersCanSignIn
  <2>5. RolesFollowRows'
    BY <1>4 DEF PeopleInv, JobDies, RolesFollowRows
  <2> QED
    BY <2>1, <2>2, <2>3, <2>4, <2>5 DEF PeopleInv
<1> QED
  BY <1>1, <1>2, <1>3, <1>4 DEF DeskStep

\* So do a customer's,
LEMMA CustomerStepKeeps ==
    ASSUME PeopleInv, NEW w \in Workers, CustomerStep(w)
    PROVE  PeopleInv'
<1>1. ASSUME NEW m \in Mailboxes, NEW p \in Phones, PrepareCustomerSignup(w, m, p)
      PROVE  PeopleInv'
  <2>1. AccountsShapes'
    BY <1>1, Reals DEF PeopleInv, PrepareCustomerSignup, AccountsShapes,
       JobRecord, Starts, Job
  <2>2. JobsFit'
    BY <1>1, AccountsAssumption, Reals DEF PeopleInv, PrepareCustomerSignup,
       JobsFit, Fits, Starts, Job
  <2>3. GuestsAreNoCrew'
    BY <1>1 DEF PeopleInv, PrepareCustomerSignup, GuestsAreNoCrew, At, Starts,
       Job, JobsFit, Fits
  <2>4. (PeopleHaveAccounts /\ OwnersCanSignIn)'
    BY <1>1 DEF PeopleInv, PrepareCustomerSignup, PeopleHaveAccounts,
       OwnersCanSignIn
  <2>5. RolesFollowRows'
    BY <1>1 DEF PeopleInv, PrepareCustomerSignup, RolesFollowRows
  <2> QED
    BY <2>1, <2>2, <2>3, <2>4, <2>5 DEF PeopleInv
<1>2. ASSUME NEW u \in Users, SignUp(w, u)
      PROVE  PeopleInv'
  BY <1>2, SignUpKeeps
<1>3. ASSUME NEW u \in Users, NEW m \in Mailboxes, CheckClaim(w, u, m)
      PROVE  PeopleInv'
  <2>1. AccountsShapes'
    BY <1>3, Reals DEF PeopleInv, CheckClaim, AccountsShapes, JobRecord, Starts,
       Job
  <2>2. JobsFit'
    BY <1>3, AccountsAssumption, Reals DEF PeopleInv, CheckClaim, JobsFit, Fits,
       PeopleHaveAccounts, Starts, Job
  <2>3. GuestsAreNoCrew'
    BY <1>3 DEF PeopleInv, CheckClaim, GuestsAreNoCrew, At, Starts, Job,
       CrewRoles
  <2>4. (PeopleHaveAccounts /\ OwnersCanSignIn)'
    BY <1>3 DEF PeopleInv, CheckClaim, PeopleHaveAccounts, OwnersCanSignIn
  <2>5. RolesFollowRows'
    BY <1>3 DEF PeopleInv, CheckClaim, RolesFollowRows
  <2> QED
    BY <2>1, <2>2, <2>3, <2>4, <2>5 DEF PeopleInv
<1>4. ASSUME UpdateClaimedUser(w) PROVE PeopleInv'
  <2>1. UNCHANGED <<owed, customer, staffRow, driverRow>>
    BY <1>4 DEF UpdateClaimedUser
  <2>2. \A x \in Workers : job[x] # Nobody /\ job[x].user # Nobody => job[x].user \in Users
    BY DEF PeopleInv, AccountsShapes, JobRecord
  <2>3. JobsFit'
    <3>1. \A i : Fits(i) /\ (i.user # Nobody => i.user \in Users) => Fits(i)'
      BY <1>4, <2>1, UpdateEffect, FitsStays
    <3>2. Fits(job[w]) /\ job[w].kind = "claim"
      BY <1>4 DEF PeopleInv, JobsFit, UpdateClaimedUser, At
    <3>3. \A i : /\ i.kind = "claim" /\ i.user = job[w].user /\ i.email = job[w].email
                 => Fits(i)'
      BY <1>4, <2>1, <3>2, UpdateEffect DEF Fits, PeopleInv, PeopleHaveAccounts
    <3>4. \A x \in Workers : job'[x] # Nobody => x = w \/ (job'[x] = job[x] /\ Fits(job[x]))
      BY <1>4, UpdateEffect DEF PeopleInv, JobsFit
    <3> QED
      BY <1>4, <2>2, <3>1, <3>3, <3>4, UpdateEffect DEF JobsFit, Fits
  <2>4. GuestsAreNoCrew'
    BY <1>4, UpdateEffect DEF PeopleInv, GuestsAreNoCrew, At, CrewRoles
  <2>5. (PeopleHaveAccounts /\ OwnersCanSignIn)'
    BY <1>4, <2>1, UpdateEffect DEF PeopleInv, PeopleHaveAccounts, OwnersCanSignIn
  <2>6. RolesFollowRows'
    BY <1>4, <2>1, UpdateEffect DEF PeopleInv, RolesFollowRows
  <2> QED
    BY <1>4, <2>3, <2>4, <2>5, <2>6, UpdateEffect DEF PeopleInv
<1>5. ASSUME CommitClaim(w) PROVE PeopleInv'
  BY <1>5, ClaimKeeps
<1>6. ASSUME NEW u \in Users, ReadOwnCustomer(w, u) PROVE PeopleInv'
  <2>1. AccountsShapes'
    BY <1>6 DEF PeopleInv, ReadOwnCustomer, AccountsShapes, Starts, Job, JobRecord
  <2>2. JobsFit'
    BY <1>6, AccountsAssumption DEF PeopleInv, ReadOwnCustomer, JobsFit, Fits,
       CanSignIn, IsReal, Starts, Job
  <2>3. GuestsAreNoCrew'
    BY <1>6 DEF PeopleInv, ReadOwnCustomer, GuestsAreNoCrew, At, Starts, Job, CrewRoles
  <2>4. (PeopleHaveAccounts /\ OwnersCanSignIn)'
    BY <1>6 DEF PeopleInv, ReadOwnCustomer, PeopleHaveAccounts, OwnersCanSignIn
  <2>5. RolesFollowRows'
    BY <1>6 DEF PeopleInv, ReadOwnCustomer, RolesFollowRows
  <2> QED
    BY <2>1, <2>2, <2>3, <2>4, <2>5 DEF PeopleInv
<1>7. ASSUME InsertOwnCustomer(w) PROVE PeopleInv'
  <2>1. AccountsShapes'
    BY <1>7 DEF PeopleInv, InsertOwnCustomer, AccountsShapes, Ends
  <2>2. JobsFit'
    BY <1>7 DEF PeopleInv, InsertOwnCustomer, JobsFit, Fits, Ends
  <2>3. GuestsAreNoCrew'
    BY <1>7 DEF PeopleInv, InsertOwnCustomer, GuestsAreNoCrew, At, Ends
  <2>4. (PeopleHaveAccounts /\ OwnersCanSignIn)'
    BY <1>7 DEF PeopleInv, InsertOwnCustomer, PeopleHaveAccounts, OwnersCanSignIn,
       JobsFit, Fits, At, AccountsShapes
  <2>5. RolesFollowRows'
    BY <1>7 DEF PeopleInv, InsertOwnCustomer, RolesFollowRows
  <2> QED
    BY <2>1, <2>2, <2>3, <2>4, <2>5 DEF PeopleInv
<1> QED
  BY <1>1, <1>2, <1>3, <1>4, <1>5, <1>6, <1>7 DEF CustomerStep

\* those that invite, update and terminate the crew,
LEMMA CrewStepKeeps ==
    ASSUME PeopleInv, NEW w \in Workers, CrewStep(w)
    PROVE  PeopleInv'
<1>1. ASSUME NEW r \in CrewRoles, NEW u \in Users, NEW m \in Mailboxes,
             NEW p \in Phones, InviteUserByEmail(w, r, u, m, p)
      PROVE  PeopleInv'
  BY <1>1, InviteKeeps
<1>2. ASSUME CommitStaffInvite(w) PROVE PeopleInv'
  <2> DEFINE u == job[w].user
  <2>1. /\ job[w] # Nobody /\ job[w].kind = "STAFF" /\ job[w].step = "invited"
        /\ Fits(job[w]) /\ job[w] \in JobRecord
    BY <1>2 DEF CommitStaffInvite, At, PeopleInv, JobsFit, AccountsShapes
  <2>2. /\ u \in Users /\ authUser[u] # Nobody /\ job[w].email \in Addresses
        /\ job[w].phone \in Phones \cup {Nobody}
    BY <2>1 DEF Fits, JobRecord
  <2>3. /\ UpsertProfile(u, job[w].email, job[w].phone, "STAFF")
        /\ staffRow[u] = "none" /\ staffRow' = [staffRow EXCEPT ![u] = "active"]
        /\ job' = [job EXCEPT ![w] = Nobody]
        /\ UNCHANGED <<authUser, owed, customer, driverRow>>
    BY <1>2 DEF CommitStaffInvite, Ends
  <2> HIDE DEF u
  <2>4. /\ profile' \in [Users -> {Nobody} \cup ProfileRow]
        /\ profile'[u] # Nobody /\ profile'[u].role = "STAFF"
        /\ \A x \in Users : x # u => profile'[x] = profile[x]
    BY <2>2, <2>3, UpsertEffect DEF PeopleInv, CrewRoles
  <2>5. \A x \in Workers : job'[x] # Nobody => x # w /\ job'[x] = job[x]
    BY <2>3 DEF PeopleInv, AccountsShapes
  <2>6. AccountsShapes'
    BY <2>2, <2>3, <2>4 DEF PeopleInv, AccountsShapes
  <2>7. JobsFit'
    <3>1. \A i : Fits(i) /\ (i.user # Nobody => i.user \in Users)
                /\ ~(i.kind = "guest" /\ i.step = "created" /\ i.user = u) => Fits(i)'
      BY <2>2, <2>3, <2>4 DEF Fits, IsReal, PeopleInv, AccountsShapes
    <3>2. \A x \in Workers : ~(At(x, "guest", "created") /\ job[x].user = u)
      BY <2>1 DEF PeopleInv, GuestsAreNoCrew, CrewRoles, u
    <3> QED
      BY <2>5, <3>1, <3>2, UsersOfJobs DEF PeopleInv, JobsFit, At
  <2>8. GuestsAreNoCrew'
    BY <2>5 DEF PeopleInv, GuestsAreNoCrew, At
  <2>9. (PeopleHaveAccounts /\ OwnersCanSignIn)'
    BY <2>2, <2>3, <2>4 DEF PeopleInv, PeopleHaveAccounts, OwnersCanSignIn, IsReal, AccountsShapes
  <2>10. RolesFollowRows'
    BY <2>1, <2>2, <2>3, <2>4 DEF PeopleInv, RolesFollowRows, AccountsShapes, Fits, u
  <2> QED
    BY <2>6, <2>7, <2>8, <2>9, <2>10 DEF PeopleInv
<1>3. ASSUME CommitDriverInvite(w) PROVE PeopleInv'
  <2> DEFINE u == job[w].user
  <2>1. /\ job[w] # Nobody /\ job[w].kind = "DRIVER" /\ job[w].step = "invited"
        /\ Fits(job[w]) /\ job[w] \in JobRecord
    BY <1>3 DEF CommitDriverInvite, At, PeopleInv, JobsFit, AccountsShapes
  <2>2. /\ u \in Users /\ authUser[u] # Nobody /\ job[w].email \in Addresses
        /\ job[w].phone \in Phones \cup {Nobody}
    BY <2>1 DEF Fits, JobRecord
  <2>3. /\ UpsertProfile(u, job[w].email, job[w].phone, "DRIVER")
        /\ driverRow[u] = "none" /\ driverRow' = [driverRow EXCEPT ![u] = "employed"]
        /\ job' = [job EXCEPT ![w] = Nobody]
        /\ UNCHANGED <<authUser, owed, customer, staffRow>>
    BY <1>3 DEF CommitDriverInvite, Ends
  <2> HIDE DEF u
  <2>4. /\ profile' \in [Users -> {Nobody} \cup ProfileRow]
        /\ profile'[u] # Nobody /\ profile'[u].role = "DRIVER"
        /\ \A x \in Users : x # u => profile'[x] = profile[x]
    BY <2>2, <2>3, UpsertEffect DEF PeopleInv, CrewRoles
  <2>5. \A x \in Workers : job'[x] # Nobody => x # w /\ job'[x] = job[x]
    BY <2>3 DEF PeopleInv, AccountsShapes
  <2>6. AccountsShapes'
    BY <2>2, <2>3, <2>4 DEF PeopleInv, AccountsShapes
  <2>7. JobsFit'
    <3>1. \A i : Fits(i) /\ (i.user # Nobody => i.user \in Users)
                /\ ~(i.kind = "guest" /\ i.step = "created" /\ i.user = u) => Fits(i)'
      BY <2>2, <2>3, <2>4 DEF Fits, IsReal, PeopleInv, AccountsShapes
    <3>2. \A x \in Workers : ~(At(x, "guest", "created") /\ job[x].user = u)
      BY <2>1 DEF PeopleInv, GuestsAreNoCrew, CrewRoles, u
    <3> QED
      BY <2>5, <3>1, <3>2, UsersOfJobs DEF PeopleInv, JobsFit, At
  <2>8. GuestsAreNoCrew'
    BY <2>5 DEF PeopleInv, GuestsAreNoCrew, At
  <2>9. (PeopleHaveAccounts /\ OwnersCanSignIn)'
    BY <2>2, <2>3, <2>4 DEF PeopleInv, PeopleHaveAccounts, OwnersCanSignIn, IsReal, AccountsShapes
  <2>10. RolesFollowRows'
    BY <2>1, <2>2, <2>3, <2>4 DEF PeopleInv, RolesFollowRows, AccountsShapes, Fits, u
  <2> QED
    BY <2>6, <2>7, <2>8, <2>9, <2>10 DEF PeopleInv
<1>4. ASSUME NEW u \in Users, NEW kind \in {"update", "terminate"}, ReadDriver(w, u, kind)
      PROVE  PeopleInv'
  <2>1. AccountsShapes'
    BY <1>4 DEF PeopleInv, ReadDriver, AccountsShapes, Starts, Job, JobRecord
  <2>2. JobsFit'
    BY <1>4, AccountsAssumption DEF PeopleInv, ReadDriver, JobsFit, Fits,
       PeopleHaveAccounts, Starts, Job
  <2>3. GuestsAreNoCrew'
    BY <1>4 DEF PeopleInv, ReadDriver, GuestsAreNoCrew, At, Starts, Job,
       JobsFit, Fits
  <2>4. (PeopleHaveAccounts /\ OwnersCanSignIn)'
    BY <1>4 DEF PeopleInv, ReadDriver, PeopleHaveAccounts, OwnersCanSignIn
  <2>5. RolesFollowRows'
    BY <1>4 DEF PeopleInv, ReadDriver, RolesFollowRows
  <2> QED
    BY <2>1, <2>2, <2>3, <2>4, <2>5 DEF PeopleInv
<1>5. ASSUME CommitDriverUpdate(w) PROVE PeopleInv'
  <2>1. AccountsShapes'
    BY <1>5 DEF PeopleInv, CommitDriverUpdate, AccountsShapes, Ends, At,
       JobRecord, JobsFit, Fits
  <2>2. JobsFit'
    BY <1>5 DEF PeopleInv, CommitDriverUpdate, JobsFit, Fits, Ends, At
  <2>3. GuestsAreNoCrew'
    BY <1>5 DEF PeopleInv, CommitDriverUpdate, GuestsAreNoCrew, At, Ends
  <2>4. (PeopleHaveAccounts /\ OwnersCanSignIn)'
    BY <1>5 DEF PeopleInv, CommitDriverUpdate, PeopleHaveAccounts,
       OwnersCanSignIn, JobsFit, Fits, At
  <2>5. RolesFollowRows'
    BY <1>5 DEF PeopleInv, CommitDriverUpdate, RolesFollowRows, JobsFit, Fits,
       At
  <2> QED
    BY <2>1, <2>2, <2>3, <2>4, <2>5 DEF PeopleInv
<1>6. ASSUME BanDriver(w) PROVE PeopleInv'
  BY <1>6, BanKeeps
<1>7. ASSUME CommitTermination(w) PROVE PeopleInv'
  <2>1. AccountsShapes'
    BY <1>7 DEF PeopleInv, CommitTermination, AccountsShapes, Ends, At,
       JobRecord, JobsFit, Fits
  <2>2. JobsFit'
    BY <1>7 DEF PeopleInv, CommitTermination, JobsFit, Fits, Ends, At
  <2>3. GuestsAreNoCrew'
    BY <1>7 DEF PeopleInv, CommitTermination, GuestsAreNoCrew, At, Ends
  <2>4. (PeopleHaveAccounts /\ OwnersCanSignIn)'
    BY <1>7 DEF PeopleInv, CommitTermination, PeopleHaveAccounts,
       OwnersCanSignIn, JobsFit, Fits, At
  <2>5. RolesFollowRows'
    BY <1>7 DEF PeopleInv, CommitTermination, RolesFollowRows, JobsFit, Fits, At
  <2> QED
    BY <2>1, <2>2, <2>3, <2>4, <2>5 DEF PeopleInv
<1> QED
  BY <1>1, <1>2, <1>3, <1>4, <1>5, <1>6, <1>7 DEF CrewStep

\* and what a person or the desk does in one transaction.
LEMMA PersonStepKeeps ==
    ASSUME PeopleInv, NEW u \in Users, PersonStep(u)
    PROVE  PeopleInv'
<1>1. ASSUME ConfirmEmail(u) PROVE PeopleInv'
  BY <1>1, ConfirmKeeps
<1>2. ASSUME TriggerFires(u) PROVE PeopleInv'
  BY <1>2, TriggerKeeps
<1>3. ASSUME UpdateStaff(u) PROVE PeopleInv'
  BY <1>3, UpdateStaffKeeps
<1>4. ASSUME SoftDeleteStaff(u) PROVE PeopleInv'
  <2>1. AccountsShapes'
    BY <1>4 DEF PeopleInv, SoftDeleteStaff, AccountsShapes
  <2>2. JobsFit'
    BY <1>4 DEF PeopleInv, SoftDeleteStaff, JobsFit, Fits
  <2>3. GuestsAreNoCrew'
    BY <1>4 DEF PeopleInv, SoftDeleteStaff, GuestsAreNoCrew, At
  <2>4. (PeopleHaveAccounts /\ OwnersCanSignIn)'
    BY <1>4 DEF PeopleInv, SoftDeleteStaff, PeopleHaveAccounts, OwnersCanSignIn
  <2>5. RolesFollowRows'
    BY <1>4 DEF PeopleInv, SoftDeleteStaff, RolesFollowRows
  <2> QED
    BY <2>1, <2>2, <2>3, <2>4, <2>5 DEF PeopleInv
<1>5. ASSUME SoftDeleteDriver(u) PROVE PeopleInv'
  <2>1. AccountsShapes'
    BY <1>5 DEF PeopleInv, SoftDeleteDriver, AccountsShapes
  <2>2. JobsFit'
    BY <1>5 DEF PeopleInv, SoftDeleteDriver, JobsFit, Fits
  <2>3. GuestsAreNoCrew'
    BY <1>5 DEF PeopleInv, SoftDeleteDriver, GuestsAreNoCrew, At
  <2>4. (PeopleHaveAccounts /\ OwnersCanSignIn)'
    BY <1>5 DEF PeopleInv, SoftDeleteDriver, PeopleHaveAccounts, OwnersCanSignIn
  <2>5. RolesFollowRows'
    BY <1>5 DEF PeopleInv, SoftDeleteDriver, RolesFollowRows
  <2> QED
    BY <2>1, <2>2, <2>3, <2>4, <2>5 DEF PeopleInv
<1>6. ASSUME NEW q \in Phones \cup {Nobody}, UpdateProfile(u, q)
      PROVE  PeopleInv'
  <2>1. profile[u] # Nobody /\ profile[u] \in ProfileRow
    BY <1>6 DEF UpdateProfile, PeopleInv, AccountsShapes
  <2>2. profile[u].email \in Addresses
    BY <2>1 DEF ProfileRow
  <2>3. profile' = [profile EXCEPT ![u].email = profile[u].email, ![u].phone = q]
    <3>1. [profile[u] EXCEPT !.phone = q] = [profile[u] EXCEPT !.email = @, !.phone = q]
      BY <2>1 DEF ProfileRow
    <3> QED
      BY <1>6, <2>1, <3>1 DEF UpdateProfile, PeopleInv, AccountsShapes, ProfileRow
  <2> QED
    BY <1>6, <2>1, <2>2, <2>3, ScrubKeeps DEF UpdateProfile
<1>7. ASSUME EraseCustomer(u) PROVE PeopleInv'
  <2>1. profile[u] # Nobody
    BY <1>7 DEF EraseCustomer, PeopleInv, PeopleHaveAccounts
  <2> QED
    BY <1>7, <2>1, Reals, ScrubKeeps DEF EraseCustomer
<1> QED
  BY <1>1, <1>2, <1>3, <1>4, <1>5, <1>6, <1>7 DEF PersonStep

-----------------------------------------------------------------------------
(* The specification: a behaviour of one of the two.                       *)

Invariant == PeopleInv /\ VisitInv

\* Nobody is known, and nothing asked for, when the system is first started.
LEMMA InitHolds ==
    Init => Invariant
<1> SUFFICES ASSUME Init PROVE Invariant
  OBVIOUS
<1>1. VisitInv
  <2>1. "/" \in Paths
    BY NamedPaths
  <2>2. /\ gates \subseteq {"install", "aal2"} /\ setUp \in BOOLEAN
        /\ role \in Roles \cup {"none"} /\ trail = {}
        /\ factor = "none" /\ session = 0 /\ proof = "none" /\ form = "plain"
        /\ asked = NoPath /\ page = "/" /\ wanted = NoPath
        /\ inApp = FALSE /\ letIn = "none"
    BY DEF Init, FrontDoorInit
  <2>3. FrontDoorTypeOK
    <3>1. /\ (asked = NoPath) = (trail = {}) /\ 0 \in 0..2
          /\ trail \subseteq Paths /\ page \in Paths
      BY <2>1, <2>2
    <3>2. /\ asked \in Paths \cup {NoPath} /\ wanted \in Paths \cup {NoPath}
          /\ letIn \in Roles \cup {"none"} /\ inApp \in BOOLEAN /\ ~inApp
      BY <2>2
    <3> QED
      BY <2>2, <3>1, <3>2 DEF FrontDoorTypeOK
  <2>4. LayoutOf("/") = "none"
    BY Layouts, PathsApart DEF PublicPaths
  <2> QED
    BY <2>2, <2>3, <2>4 DEF VisitInv, TrailDescends, LetInFits
<1>2. PeopleInv
  BY DEF Init, AccountsInit, PeopleInv, AccountsShapes, JobsFit,
     GuestsAreNoCrew, At, PeopleHaveAccounts, OwnersCanSignIn, RolesFollowRows
<1> QED
  BY <1>1, <1>2 DEF Invariant

\* A step that is not the accounts' leaves their invariant alone,
LEMMA AccountsStutter ==
    ASSUME PeopleInv, UNCHANGED accountVars
    PROVE  PeopleInv'
BY DEF accountVars, PeopleInv, AccountsShapes, JobsFit, Fits, GuestsAreNoCrew,
   At, PeopleHaveAccounts, OwnersCanSignIn, RolesFollowRows, IsReal

\* and one that is not the front door's leaves the visits'.
LEMMA FrontDoorStutter ==
    ASSUME VisitInv, UNCHANGED frontDoorVars
    PROVE  VisitInv'
<1>1. UNCHANGED <<gates, setUp, role, factor, session, proof, form, asked, inApp,
                  trail, page, letIn, wanted>>
  BY DEF frontDoorVars, serverVars, browserVars
<1>2. FrontDoorTypeOK'
  BY <1>1 DEF VisitInv, FrontDoorTypeOK
<1>3. \A path : Rank(path)' = Rank(path)
  BY <1>1 DEF Rank, NotSetUp, SignedIn
<1>4. TrailDescends'
  BY <1>1, <1>3 DEF VisitInv, TrailDescends
<1>5. LetInFits'
  BY <1>1, SamePage DEF VisitInv
<1> QED
  BY <1>2, <1>4, <1>5 DEF VisitInv

\* Every step of the specification keeps both.
LEMMA NextKeeps ==
    Invariant /\ [Next]_<<explored, accountVars, frontDoorVars>> => Invariant'
<1> SUFFICES ASSUME Invariant, [Next]_<<explored, accountVars, frontDoorVars>>
             PROVE  Invariant'
  OBVIOUS
<1>1. CASE AccountsNext /\ UNCHANGED frontDoorVars
  <2>1. PeopleInv'
    BY <1>1, DeskStepKeeps, CustomerStepKeeps, CrewStepKeeps, PersonStepKeeps
       DEF AccountsNext, Invariant
  <2> QED
    BY <1>1, <2>1, FrontDoorStutter DEF Invariant
<1>2. CASE FrontDoorNext /\ UNCHANGED accountVars
  <2>1. VisitInv'
    BY <1>2, FollowKeeps, VisitKeeps, SubmitKeeps, MeanwhileKeeps DEF
       FrontDoorNext, Visiting, Invariant
  <2> QED
    BY <1>2, <2>1, AccountsStutter DEF Invariant
<1>3. CASE UNCHANGED <<explored, accountVars, frontDoorVars>>
  BY <1>3, AccountsStutter, FrontDoorStutter DEF Invariant
<1> QED
  BY <1>1, <1>2, <1>3 DEF Next

\* The two inductive invariants hold in every reachable state.
THEOREM Invariance == Spec => []Invariant
BY InitHolds, NextKeeps, PTL DEF Spec

\* The rows, the requests, the cookies and the paths are the ones there are.
\* Whoever a service has given a Customer, Staff or Driver row has a Profile, and
\* whoever has a Profile has an auth user, whether the trigger of Supabase fired
\* with the sign-up, after the service or never (driver.service.ts, session.ts).
THEOREM TypeCorrectness == Spec => []TypesOK
<1>1. Invariant => TypesOK
  BY DEF Invariant, PeopleInv, VisitInv, TypesOK, AccountsTypeOK
<1> QED
  BY <1>1, Invariance, PTL

\* Supabase is told first: whoever owns a portal account has a real address to
\* sign in with, however many claims of the account overlapped or died.
THEOREM OwnersSignIn == Spec => []OwnersCanSignIn
<1>1. Invariant => OwnersCanSignIn
  BY DEF Invariant, PeopleInv
<1> QED
  BY <1>1, Invariance, PTL

\* The role every permission check reads follows the Staff and Driver rows, and
\* nobody has a crew's role without one, whatever the trigger, early or late, the
\* portal, the desk or an erasure wrote meanwhile.
THEOREM RolesAreTheRows == Spec => []RolesFollowRows
<1>1. Invariant => RolesFollowRows
  BY DEF Invariant, PeopleInv
<1> QED
  BY <1>1, Invariance, PTL

\* Middleware, layouts and pages never send a visit round in a circle.
THEOREM VisitsEnd == Spec => []NoRedirectLoop
<1>1. Invariant => NoRedirectLoop
  BY NoLoop DEF Invariant
<1> QED
  BY <1>1, Invariance, PTL

\* Only an answer ends a visit: every other step leaves the path that is asked
\* for, begins another visit, or finds none under way.
LEMMA OnlyFollowEnds ==
    ASSUME VisitInv, FrontDoorNext, asked # NoPath, asked' = NoPath
    PROVE  Follow
<1>1. ASSUME NEW path \in Paths PROVE ~Visit(path)
  BY <1>1, NamedPaths DEF Visit, Asks
<1>2. ~Submitting
  BY DEF Submitting, SubmitPassword, SubmitMfaCode, BackToSignIn, SubmitSignUp,
     FollowMailLink, FollowDeadLink, SubmitNewPassword, SignOut, StartEnroll,
     ConfirmEnroll, Unenroll, ChangePassword, CompleteSetup, AtAccountPage,
     Rendered
<1>3. ~Meanwhile
  BY DEF Meanwhile, ProfileChanges, SetUpElsewhere, SessionRefreshed,
     ProofExpires, Anew
<1> QED
  BY <1>1, <1>2, <1>3 DEF FrontDoorNext, Visiting

\* Where the layout is asked, a visit ends on a page of the reader's own area,
\* with the second factor where it is asked for, or on a public page that is not
\* the way in; where a link keeps the layout, in the area it once let in, and the
\* pages of one role alone ask for that role themselves.
THEOREM VisitsBelong == Spec => VisitsEndWhereTheyBelong
<1>1. ASSUME Invariant, [Next]_<<explored, accountVars, frontDoorVars>>, VisitEnds
      PROVE  IF LayoutKept(asked) THEN StaysWhereLetIn' ELSE EndsWhereItBelongs'
  <2>1. FrontDoorNext
    BY <1>1 DEF Next, VisitEnds, frontDoorVars, browserVars
  <2> QED
    BY <1>1, <2>1, OnlyFollowEnds, PageBelongs DEF Invariant, VisitEnds
<1>2. Invariant /\ [Next]_<<explored, accountVars, frontDoorVars>>
        => [VisitEnds => IF LayoutKept(asked) THEN StaysWhereLetIn'
                                              ELSE EndsWhereItBelongs']_frontDoorVars
  BY <1>1
<1> QED
  BY <1>2, Invariance, PTL DEF Spec, VisitsEndWhereTheyBelong
=============================================================================
