----------------------------- MODULE MCBrowser ------------------------------
(***************************************************************************)
(* The views of the browser and the sign-in of the Mac they show, for TLC. *)
(* They share no state: each behaviour lets one of them move, its subject, *)
(* while the others keep their initial states.                             *)
(***************************************************************************)
EXTENDS FeedView, ViewQueueing, HomeWorkspace, SignIn, DashboardRefresh, SceneResolution, WatchFeed,
        LibraryView, WatchVoid, DriveDestinations

CONSTANT Subjects

VARIABLE subject

browserVars == <<feedVars, viewVars, homeVars, signInVars, dashboardVars, resolutionVars, watchVars,
                 libraryVars, voidVars, driveVars, subject>>

BrowserInit ==
    /\ subject \in Subjects
    /\ FeedInit /\ ViewInit /\ HomeInit /\ SignInInit /\ DashboardInit /\ ResolutionInit /\ WatchInit
    /\ LibraryInit /\ VoidInit /\ DriveInit
    /\ subject # "queueing" => queueView = "feed"
    /\ ~stored
    /\ selected \in (IF subject = "library" THEN {{}, {Item("s1", 0)}} ELSE {{}})
    /\ rows = [s \in VoidScenes |-> [state |-> IF s = "s1" THEN "live" ELSE "none", watched |-> FALSE]]
    /\ drivePath = <<"n">> /\ localMode = "default"

\* The subject moves, and nothing else does.
Moves(name) ==
    /\ subject = name /\ UNCHANGED subject
    /\ name # "feed" => UNCHANGED feedVars
    /\ name # "queueing" => UNCHANGED viewVars
    /\ name # "home" => UNCHANGED homeVars
    /\ name # "signIn" => UNCHANGED signInVars
    /\ name # "dashboard" => UNCHANGED dashboardVars
    /\ name # "resolution" => UNCHANGED resolutionVars
    /\ name # "watch" => UNCHANGED watchVars
    /\ name # "library" => UNCHANGED libraryVars
    /\ name # "void" => UNCHANGED voidVars
    /\ name # "drive" => UNCHANGED driveVars

BrowserNext ==
    \/ Moves("feed") /\ FeedNext
    \/ Moves("queueing") /\ ViewNext
    \/ Moves("home") /\ HomeNext
    \/ Moves("signIn") /\ SignInNext
    \/ Moves("dashboard") /\ DashboardNext
    \/ Moves("resolution") /\ ResolutionNext
    \/ Moves("watch") /\ WatchNext
    \/ Moves("library") /\ LibraryNext
    \/ Moves("void") /\ VoidNext
    \/ Moves("drive") /\ DriveNext

\* The fairness of the modules, each of the machine that moves.  The runs, the calls and the
\* loads of a machine have finitely many steps each, so one condition does for all of them.
BrowserFairness ==
    /\ WF_feedVars(subject = "feed" /\ \E l \in feedLoads : FeedSteps(l))
    /\ WF_viewVars(subject = "queueing" /\ \E c \in calls : CallGoesOn(c))
    /\ WF_homeVars(subject = "home" /\ \E r \in runs : RunSteps(r))
    /\ WF_signInVars(subject = "signIn" /\ Serve)
    /\ WF_signInVars(subject = "signIn" /\ StartPoll)
    /\ WF_signInVars(subject = "signIn" /\ \E p \in polls : EndPoll(p))
    /\ WF_signInVars(subject = "signIn" /\ \E n \in DOMAIN helpers : LoginTask(n))
    /\ WF_dashboardVars(subject = "dashboard" /\ FireTimer(TRUE))
    /\ WF_dashboardVars(subject = "dashboard" /\ FireTimer(FALSE))
    /\ WF_dashboardVars(subject = "dashboard" /\ \E f \in flights : ReadRows(f) \/ ShowRows(f))
    /\ WF_resolutionVars(subject = "resolution" /\ \E n \in DOMAIN scenes : CallSteps(n))
    /\ WF_watchVars(subject = "watch" /\ (ResolveEnds \/ \E n \in DOMAIN loads : LoadGoesOn(n)))
    /\ WF_watchVars(subject = "watch" /\ \E n \in DOMAIN loads : TabStep(n))
    /\ WF_libraryVars(subject = "library" /\ (\/ (\E o \in orders : OrderSteps(o) \/ OrderCalls(o))
                                               \/ (\E f \in refreshes : RefreshSteps(f))))
    /\ WF_voidVars(subject = "void" /\ BatchSteps)
    /\ WF_driveVars(subject = "drive" /\ \E c \in driveCalls : EndDrive(c) \/ FailDrive(c))

\* The types of the views, and with them their locks: a spinner has its run, a disabled
\* button its order, a request in flight its press.
BrowserTypeOK ==
    /\ FeedTypeOK /\ ViewTypeOK /\ HomeTypeOK /\ SignInTypeOK /\ DashboardTypeOK
    /\ ResolutionTypeOK /\ WatchTypeOK /\ LibraryTypeOK /\ VoidTypeOK /\ DriveTypeOK

\* No view waits for ever: whatever fails or is never answered, every call, run, load and
\* batch ends, the controls come back, a sign-in is followed to its end, a tab that was
\* opened is closed and a page that is looked at shows the rows as they are.
ViewsSettle ==
    /\ ControlsComeBack /\ CallsEnd /\ ExtractionEnds /\ SignInIsFollowed /\ SignInEnds
    /\ DashboardSettles /\ ResolvingEnds /\ FeedLoadsEnd /\ TabsClose /\ LibraryOpens
    /\ BatchesEnd /\ BoxLoads

BrowserSpec == BrowserInit /\ [][BrowserNext]_browserVars /\ BrowserFairness
=============================================================================
