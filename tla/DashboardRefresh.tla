------------------------- MODULE DashboardRefresh -------------------------
(***************************************************************************)
(* What the dashboard shows of the downloads.  An effect polls with a chain*)
(* of timers; a poll joins the request that is in flight, whatever list it *)
(* asks for.  The actions of the user refresh by force: they wait for the  *)
(* request in flight and make one of their own, with the list their press  *)
(* was made under.  Opening a list makes the effect start anew, as does a  *)
(* change of the counts; it clears the newest timer and no other.          *)
(***************************************************************************)
EXTENDS Naturals, FiniteSets

CONSTANTS
    Scopes,       \* the lists: the dashboard's, and those with the history
    FirstScope,
    UserActions,  \* presses: of an action on a job, or of a new order of the queue
    MaxTruth,     \* changes of the Cloud's rows
    MaxHides,     \* times the page is hidden
    MaxOpenings,  \* times another list is opened
    MaxOutages    \* requests that fail

ASSUME DashboardAssumption ==
    FirstScope \in Scopes /\ "poll" \notin UserActions /\ {MaxTruth, MaxHides, MaxOpenings, MaxOutages} \subseteq Nat

VARIABLES
    truth,      \* version of the Cloud's rows about the Mac's jobs
    scope,      \* the list the page is on
    pageHidden,
    view,       \* what is shown: [version, scope]
    timer,      \* the effect's newest timer is pending
    timers,     \* older timers of this run of the effect that are pending
    strays,     \* timers that earlier runs of the effect left behind, by their scope
    flights,    \* the requests under way: [scope, owner, version]
    pollers,    \* polls of this run of the effect that wait for it
    userActions,\* each press: [step, scope, kept, floor]
    hides, openings, outages

dashboardVars == <<truth, scope, pageHidden, view, timer, timers, strays, flights, pollers,
                   userActions, hides, openings, outages>>

Unread == MaxTruth + 1   \* the Cloud has not read the rows yet

DashboardInit ==
    /\ truth = 0 /\ scope = FirstScope /\ pageHidden = FALSE
    /\ view = [version |-> 0, scope |-> FirstScope]
    /\ timer = TRUE /\ timers = 0 /\ strays = {}
    /\ flights = {} /\ pollers = 0
    /\ userActions = [a \in UserActions |-> [step |-> "none", scope |-> FirstScope, kept |-> view, floor |-> 0]]
    /\ hides = 0 /\ openings = 0 /\ outages = 0

\* The Mac's heartbeat changes a row.
ChangeJobs ==
    /\ truth < MaxTruth
    /\ truth' = truth + 1
    /\ UNCHANGED <<scope, pageHidden, view, timer, timers, strays, flights, pollers, userActions, hides, openings, outages>>

\* refresh makes a request.
Beginning(s, who) == [scope |-> s, owner |-> who, version |-> Unread]

\* refresh(token) of a poll: the request in flight will do, whatever its list.
Joins(s) == flights' = IF pageHidden \/ flights # {} THEN flights ELSE {Beginning(s, "poll")}

\* The effect is cleaned up and runs again: its polls are forgotten, its newest timer is
\* cleared, the older ones stay behind.
Restarts(older) ==
    /\ timer' = ~pageHidden
    /\ timers' = 0
    /\ strays' = IF older > 0 THEN strays \cup {scope} ELSE strays
    /\ pollers' = 0

OpenList(s) ==
    /\ openings < MaxOpenings /\ s # scope
    /\ openings' = openings + 1
    /\ scope' = s
    /\ Restarts(timers)
    /\ UNCHANGED <<truth, pageHidden, view, flights, userActions, hides, outages>>

\* poll, and the refresh it calls.  A hidden page ends the chain.
FireTimer(newest) ==
    /\ IF newest THEN timer /\ timer' = FALSE /\ UNCHANGED timers
                 ELSE timers > 0 /\ timers' = timers - 1 /\ UNCHANGED timer
    /\ pollers' = IF pageHidden THEN pollers ELSE pollers + 1
    /\ Joins(scope)
    /\ UNCHANGED <<truth, scope, pageHidden, view, strays, userActions, hides, openings, outages>>

\* poll does not ask whether its effect was cleaned up, schedule does.
FireStray(s) ==
    /\ strays' = strays \ {s}
    /\ Joins(s)
    /\ UNCHANGED <<truth, scope, pageHidden, view, timer, timers, pollers, userActions, hides, openings, outages>>

\* jobDashboardForOwnedDevice or jobStatusForOwnedDevice.
ReadRows(f) ==
    /\ f.version = Unread
    /\ flights' = (flights \ {f}) \cup {[f EXCEPT !.version = truth]}
    /\ UNCHANGED <<truth, scope, pageHidden, view, timer, timers, strays, pollers, userActions, hides, openings, outages>>

\* Each of the polls that waited sets a timer, of which the effect knows the newest.
Older == timers + (IF pollers = 0 \/ pageHidden THEN 0 ELSE pollers - (IF timer THEN 0 ELSE 1))

SetTimers ==
    /\ timer' = (timer \/ (pollers > 0 /\ ~pageHidden))
    /\ timers' = Older
    /\ UNCHANGED strays
    /\ pollers' = 0

EndsFlight(f) ==
    /\ flights' = flights \ {f}
    /\ userActions' = [a \in UserActions |->
           IF a = f.owner THEN [userActions[a] EXCEPT !.step = "over"] ELSE userActions[a]]

\* Counts that have changed make the effect run again, before or after the polls go on.
ShowRows(f) ==
    /\ f.version # Unread
    /\ view' = [version |-> f.version, scope |-> f.scope]
    /\ EndsFlight(f)
    /\ \/ SetTimers
       \/ view.version # f.version /\ (Restarts(timers) \/ Restarts(Older))
    /\ UNCHANGED <<truth, scope, pageHidden, hides, openings, outages>>

\* Mutant: a poll that failed is not followed by another.
GoesOnNever == pollers' = 0 /\ UNCHANGED <<timer, timers, strays>>

\* The finally of poll.
GoesOn == SetTimers

\* An order whose refresh fails is taken back on the page, though the Mac has it.
RefreshFails(f) ==
    /\ outages < MaxOutages
    /\ outages' = outages + 1
    /\ EndsFlight(f)
    /\ view' \in IF f.owner \in UserActions THEN {view, userActions[f.owner].kept} ELSE {view}
    /\ GoesOn
    /\ UNCHANGED <<truth, scope, pageHidden, hides, openings>>

\* visibilitychange.
HidePage ==
    /\ ~pageHidden /\ hides < MaxHides
    /\ hides' = hides + 1
    /\ pageHidden' = TRUE
    /\ timer' = FALSE
    /\ UNCHANGED <<truth, scope, view, timers, strays, flights, pollers, userActions, openings, outages>>

ShowPage ==
    /\ pageHidden
    /\ pageHidden' = FALSE
    /\ timer' = TRUE
    /\ UNCHANGED <<truth, scope, view, timers, strays, flights, pollers, userActions, hides, openings, outages>>

\* apply, reorderQueued and the other callers of refresh(token, true).
PressAction(a) ==
    /\ userActions[a].step = "none" /\ ~pageHidden
    /\ userActions' = [userActions EXCEPT ![a] = [@ EXCEPT !.step = "asked", !.scope = scope, !.kept = view]]
    /\ UNCHANGED <<truth, scope, pageHidden, view, timer, timers, strays, flights, pollers, hides, openings, outages>>

\* The command is over, and what it changed is in the rows.
ActionEnds(a) ==
    /\ userActions[a].step = "asked"
    /\ truth' \in {truth, truth + 1} \cap 0..MaxTruth
    /\ userActions' = [userActions EXCEPT ![a] = [@ EXCEPT !.step = "refreshing", !.floor = truth']]
    /\ UNCHANGED <<scope, pageHidden, view, timer, timers, strays, flights, pollers, hides, openings, outages>>

\* A refused order puts back the jobs of its press.
ActionRefused(a) ==
    /\ userActions[a].step = "asked"
    /\ userActions' = [userActions EXCEPT ![a].step = "over"]
    /\ view' \in {view, userActions[a].kept}
    /\ UNCHANGED <<truth, scope, pageHidden, timer, timers, strays, flights, pollers, hides, openings, outages>>

\* Mutant: a refresh by force does not wait for the request in flight.
ForcesAtOnce(a) == flights' = flights \cup {Beginning(userActions[a].scope, a)}

\* Mutant: a refresh by force is content with the request in flight.
ForcesOrJoins(a) ==
    flights' = IF flights = {} THEN {Beginning(userActions[a].scope, a)} ELSE {[f EXCEPT !.owner = a] : f \in flights}

\* The loop of refresh(token, true), and the request it makes then.
Forces(a) == flights = {} /\ flights' = {Beginning(userActions[a].scope, a)}

ForceRefresh(a) ==
    /\ userActions[a].step = "refreshing"
    /\ Forces(a)
    /\ userActions' = [userActions EXCEPT ![a].step = "reading"]
    /\ UNCHANGED <<truth, scope, pageHidden, view, timer, timers, strays, pollers, hides, openings, outages>>

DashboardNext ==
    \/ ChangeJobs \/ HidePage \/ ShowPage
    \/ \E f \in flights : ReadRows(f) \/ ShowRows(f) \/ RefreshFails(f)
    \/ \E newest \in BOOLEAN : FireTimer(newest)
    \/ \E s \in strays : FireStray(s)
    \/ \E s \in Scopes : OpenList(s)
    \/ \E a \in UserActions : PressAction(a) \/ ActionEnds(a) \/ ActionRefused(a) \/ ForceRefresh(a)

DashboardSpec == DashboardInit /\ [][DashboardNext]_dashboardVars

\* Timers fire and the Cloud answers.
DashboardFairness ==
    /\ WF_dashboardVars(FireTimer(TRUE)) /\ WF_dashboardVars(FireTimer(FALSE))
    /\ WF_dashboardVars(\E f \in flights : ReadRows(f) \/ ShowRows(f))

-----------------------------------------------------------------------------
(* Properties.                                                             *)

\* Also: one request at most is in flight, and one that a press waits for is its own.
DashboardTypeOK ==
    /\ truth \in 0..MaxTruth /\ scope \in Scopes /\ strays \subseteq Scopes
    /\ view \in [version: 0..MaxTruth, scope: Scopes]
    /\ timers \in 0..(MaxHides + 1) /\ pollers \in 0..(MaxHides + 1)
    /\ flights \subseteq [scope: Scopes, owner: UserActions \cup {"poll"}, version: 0..Unread]
    /\ \A f, g \in flights : f = g
    /\ \A a \in UserActions : (userActions[a].step = "reading") = (\E f \in flights : f.owner = a)

\* What is shown is not replaced by an older reading of the same rows: requests do not
\* overtake each other.  Taking back an order is the one exception.
ViewNeverGoesBack ==
    [][\/ view'.version >= view.version
       \/ \E a \in UserActions : view' = userActions[a].kept /\ userActions'[a].step = "over"]_dashboardVars

\* When the refresh of an action has succeeded, what is shown was read after the action.
ActionIsSeen ==
    [][\A a \in UserActions :
         userActions[a].step = "reading" /\ userActions'[a].step = "over" /\ outages' = outages
           => view'.version >= userActions[a].floor]_dashboardVars

\* The polls, the forced refreshes and the orders of a page, which share one request, leave
\* it with the newest rows.
RefreshesKeepOrder == ViewNeverGoesBack /\ ActionIsSeen

\* However lists are opened, pages hidden, requests lost and actions pressed, a page that
\* is looked at comes to show the list it is on, as the rows are.
DashboardSettles == []<>(pageHidden \/ view = [version |-> truth, scope |-> scope])
=============================================================================
