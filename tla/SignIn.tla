------------------------------ MODULE SignIn ------------------------------
(***************************************************************************)
(* Signing in to a provider in a browser window of the Mac.  The actor     *)
(* PornHubAuthService keeps a state; the task it starts for a login opens  *)
(* the window, and when the extension has captured a session the task saves*)
(* it in the store, and only then reports to the actor.  The Settings view *)
(* asks for the state while a login is under way, and sends the actions of *)
(* the user: all of them are commands, which the Mac carries out in order. *)
(* An effect of the view is cleaned up with the change that replaces it.   *)
(***************************************************************************)
EXTENDS Naturals, Sequences, FiniteSets

CONSTANTS
    MaxLogins,   \* windows opened
    MaxActions,  \* presses of the button
    MaxPolls     \* polls in flight at once

VARIABLES
    authState,     \* the actor's state
    stored,        \* the store holds a session
    loginID,       \* the login the actor waits for, 0 for none
    helpers,       \* for each login, how far its task is
    signingOut,    \* logout waits for the helper's
    ytDlp,         \* a download runs with the stored session
    authQueue,     \* the commands the Mac has not carried out: Status, or the number of an action
    carriedOut,    \* actions carried out so far
    shownStatus,   \* the status the view holds: [state, after]
    polls,         \* polls in flight: [active, step, state, after]
    pollArmed,     \* the effect's timer
    pollError,
    actions,       \* for each press, [kind, step, state, after]
    onSettings,
    working        \* the button is disabled

agentVars == <<authState, stored, loginID, helpers, signingOut, ytDlp>>
settingsVars == <<shownStatus, polls, pollArmed, pollError, actions, onSettings, working>>
signInVars == <<agentVars, authQueue, carriedOut, settingsVars>>

States == {"signedOut", "signingIn", "signedIn", "expired"}
Status == 0
Unknown == [state |-> "unknown", after |-> 0]

SignInInit ==
    /\ authState = "signedOut" /\ stored \in BOOLEAN /\ loginID = 0 /\ helpers = <<>>
    /\ signingOut = FALSE /\ ytDlp = FALSE
    /\ authQueue = <<>> /\ carriedOut = 0
    /\ shownStatus = Unknown /\ polls = {} /\ pollArmed = TRUE /\ pollError = FALSE
    /\ actions = <<>> /\ onSettings = TRUE /\ working = FALSE

-----------------------------------------------------------------------------
(* The actor and the tasks of its logins.                                  *)

\* refreshState: what the store says, but while a login is under way.
Refreshed ==
    CASE authState = "signingIn" -> "signingIn"
      [] authState # "signingIn" /\ ~stored -> "signedOut"
      [] authState = "expired" /\ stored -> "expired"
      [] OTHER -> "signedIn"

\* What the answer to a command makes of those who wait for it.
Answer(state) ==
    LET command == Head(authQueue)
        after == IF command = Status THEN carriedOut ELSE carriedOut + 1
        Told(w) == [w EXCEPT !.step = "answered", !.state = state, !.after = after]
    IN  /\ authQueue' = Tail(authQueue)
        /\ carriedOut' = after
        /\ polls' = IF command = Status
                      THEN {IF p.step = "waiting" THEN Told(p) ELSE p : p \in polls} ELSE polls
        /\ actions' = IF command = Status THEN actions ELSE [actions EXCEPT ![command] = Told(@)]
        /\ UNCHANGED <<shownStatus, pollArmed, pollError, onSettings, working>>

Asked(kind) ==
    /\ authQueue # <<>> /\ ~signingOut
    /\ kind = (IF Head(authQueue) = Status THEN "status" ELSE actions[Head(authQueue)].kind)

AnswerStatus ==
    /\ Asked("status")
    /\ authState' = Refreshed
    /\ Answer(Refreshed)
    /\ UNCHANGED <<stored, loginID, helpers, signingOut, ytDlp>>

Login ==
    /\ Asked("signIn") /\ Refreshed # "signingIn" /\ Len(helpers) < MaxLogins
    /\ stored' = FALSE
    /\ authState' = "signingIn"
    /\ helpers' = Append(helpers, "window")
    /\ loginID' = Len(helpers) + 1
    /\ Answer("signingIn")
    /\ UNCHANGED <<signingOut, ytDlp>>

\* login throws signingIn; the command fails.  A login beyond the bound is refused as well.
RefuseLogin ==
    /\ Asked("signIn") /\ (Refreshed = "signingIn" \/ Len(helpers) = MaxLogins)
    /\ authState' = Refreshed
    /\ Answer("failed")
    /\ UNCHANGED <<stored, loginID, helpers, signingOut, ytDlp>>

\* loginTask?.cancel(): the capture is given up, unless the session is captured already.
Cancelled(h) == [i \in DOMAIN h |-> IF i = loginID /\ h[i] = "window" THEN "failed" ELSE h[i]]

CancelLogin ==
    /\ Asked("cancel")
    /\ IF authState = "signingIn"
         THEN /\ authState' = "signedOut" /\ loginID' = 0 /\ stored' = FALSE
              /\ helpers' = Cancelled(helpers)
         ELSE UNCHANGED <<authState, loginID, stored, helpers>>
    /\ Answer(authState')
    /\ UNCHANGED <<signingOut, ytDlp>>

\* The actor is free while it waits for the helper's logout, which clears the store again.
Logout ==
    /\ Asked("signOut")
    /\ stored' = FALSE /\ authState' = "signedOut" /\ loginID' = 0
    /\ helpers' = Cancelled(helpers)
    /\ signingOut' = TRUE
    /\ UNCHANGED <<ytDlp, authQueue, carriedOut, settingsVars>>

EndLogout ==
    /\ signingOut
    /\ signingOut' = FALSE
    /\ stored' = FALSE
    /\ Answer("signedOut")
    /\ UNCHANGED <<authState, loginID, helpers, ytDlp>>

Helper(i, from, to) == helpers[i] = from /\ helpers' = [helpers EXCEPT ![i] = to]

Capture(i) ==
    /\ Helper(i, "window", "captured")
    /\ UNCHANGED <<authState, stored, loginID, signingOut, ytDlp, authQueue, carriedOut, settingsVars>>

\* Mutant: a window that is left open is waited for.
TimesOutNever(i) == FALSE

\* The capture's timeout, the window closed, or an error of the store.
TimesOut(i) == Helper(i, "window", "failed")

CaptureFails(i) ==
    /\ TimesOut(i)
    /\ UNCHANGED <<authState, stored, loginID, signingOut, ytDlp, authQueue, carriedOut, settingsVars>>

SaveSession(i) ==
    /\ Helper(i, "captured", "saved")
    /\ stored' = TRUE
    /\ UNCHANGED <<authState, loginID, signingOut, ytDlp, authQueue, carriedOut, settingsVars>>

\* completeLogin.  Only the login that is waited for is listened to.
CompleteLogin(i) ==
    /\ helpers[i] \in {"saved", "failed"}
    /\ helpers' = [helpers EXCEPT ![i] = "over"]
    /\ IF i # loginID THEN UNCHANGED <<authState, stored, loginID>>
       ELSE /\ loginID' = 0
            /\ stored' = (stored /\ helpers[i] = "saved")
            /\ authState' = IF stored' THEN "signedIn" ELSE "signedOut"
    /\ UNCHANGED <<signingOut, ytDlp, authQueue, carriedOut, settingsVars>>

\* cookieHeader, for a page of the account's feed: it does not ask whether a login is under way.
ReadCookies ==
    /\ ~stored
    /\ authState' = "signedOut"
    /\ UNCHANGED <<stored, loginID, helpers, signingOut, ytDlp, authQueue, carriedOut, settingsVars>>

StartYtDlp ==
    /\ stored /\ ~ytDlp
    /\ ytDlp' = TRUE
    /\ UNCHANGED <<authState, stored, loginID, helpers, signingOut, authQueue, carriedOut, settingsVars>>

\* The run ends; recordYtDlpFailure when the provider refused the session.
EndYtDlp ==
    /\ ytDlp
    /\ ytDlp' = FALSE
    /\ authState' \in {authState, "expired"}
    /\ UNCHANGED <<stored, loginID, helpers, signingOut, authQueue, carriedOut, settingsVars>>

-----------------------------------------------------------------------------
(* The Settings view.                                                      *)

\* Mutant: only a status that differs from the one shown asks again.
AsksAgainOnChange(status) == status.state \in {"unknown", "signingIn"} /\ status.state # shownStatus.state

\* Whether the effect, run for this status, asks for another.
AsksAgain(status) == status.state \in {"unknown", "signingIn"}

\* Mutant: a poll that is replaced is still listened to.
StopListeningNever(ps) == ps

\* The effect's cleanup: active = false.
StopListening(ps) == {[p EXCEPT !.active = FALSE] : p \in ps}

Show(state, after, others) ==
    LET status == [state |-> state, after |-> after]
    IN  /\ shownStatus' = status
        /\ polls' = IF onSettings THEN StopListening(others) ELSE others
        /\ pollArmed' = (onSettings /\ AsksAgain(status))

\* pornHubAuthCommand: a status command that is pending is joined.
StartPoll ==
    /\ pollArmed /\ Cardinality(polls) < MaxPolls
    /\ pollArmed' = FALSE
    /\ polls' = polls \cup {[active |-> TRUE, step |-> "waiting", state |-> "unknown", after |-> 0]}
    /\ authQueue' = IF \E i \in DOMAIN authQueue : authQueue[i] = Status THEN authQueue
                                                                      ELSE Append(authQueue, Status)
    /\ UNCHANGED <<agentVars, carriedOut, shownStatus, pollError, actions, onSettings, working>>

EndPoll(p) ==
    /\ p.step = "answered"
    /\ IF p.active THEN Show(p.state, p.after, polls \ {p})
       ELSE polls' = polls \ {p} /\ UNCHANGED <<shownStatus, pollArmed>>
    /\ UNCHANGED <<agentVars, authQueue, carriedOut, pollError, actions, onSettings, working>>

\* The wait is over without an answer.  A poll that fails is the last one.
FailPoll(p) ==
    /\ p.step = "waiting"
    /\ polls' = polls \ {p}
    /\ pollError' = (pollError \/ p.active)
    /\ UNCHANGED <<agentVars, authQueue, carriedOut, shownStatus, pollArmed, actions, onSettings, working>>

\* pornHubAuthAction: what the button does.
ButtonKind ==
    CASE shownStatus.state = "signedIn" -> "signOut"
      [] shownStatus.state = "signingIn" -> "cancel"
      [] OTHER -> "signIn"

PressAuth ==
    /\ onSettings /\ ~working /\ Len(actions) < MaxActions
    /\ working' = TRUE
    /\ actions' = Append(actions, [kind |-> ButtonKind, step |-> "posting", state |-> "unknown", after |-> 0])
    /\ UNCHANGED <<agentVars, authQueue, carriedOut, shownStatus, polls, pollArmed, pollError, onSettings>>

PostAuth(a) ==
    /\ actions[a].step = "posting"
    /\ actions' = [actions EXCEPT ![a].step = "waiting"]
    /\ authQueue' = Append(authQueue, a)
    /\ UNCHANGED <<agentVars, carriedOut, shownStatus, polls, pollArmed, pollError, onSettings, working>>

\* Mutant: the answer to any press is shown.
IsNewestAlways(a) == TRUE

\* acceptsAction.
IsNewest(a) == a = Len(actions)

EndAction(a) ==
    /\ actions[a].step = "answered"
    /\ actions' = [actions EXCEPT ![a].step = "over"]
    /\ working' = (working /\ ~IsNewest(a))
    /\ IF IsNewest(a) /\ actions[a].state # "failed"
         THEN Show(actions[a].state, actions[a].after, polls)
         ELSE UNCHANGED <<shownStatus, polls, pollArmed>>
    /\ UNCHANGED <<agentVars, authQueue, carriedOut, pollError, onSettings>>

\* The Mac is offline, or the wait is over.
FailAction(a) ==
    /\ actions[a].step \in {"posting", "waiting"}
    /\ actions' = [actions EXCEPT ![a].step = "over"]
    /\ working' = (working /\ ~IsNewest(a))
    /\ UNCHANGED <<agentVars, authQueue, carriedOut, shownStatus, polls, pollArmed, pollError, onSettings>>

LeaveSettings ==
    /\ onSettings /\ actions # <<>>
    /\ onSettings' = FALSE /\ working' = FALSE /\ pollArmed' = FALSE
    /\ polls' = StopListening(polls)
    /\ UNCHANGED <<agentVars, authQueue, carriedOut, shownStatus, pollError, actions>>

OpenSettings ==
    /\ ~onSettings
    /\ onSettings' = TRUE /\ pollArmed' = AsksAgain(shownStatus) /\ pollError' = FALSE
    /\ UNCHANGED <<agentVars, authQueue, carriedOut, shownStatus, polls, actions, working>>

Serve == AnswerStatus \/ Login \/ RefuseLogin \/ CancelLogin \/ Logout \/ EndLogout
LoginTask(i) == CaptureFails(i) \/ SaveSession(i) \/ CompleteLogin(i)
PollAuth == StartPoll \/ \E p \in polls : EndPoll(p)

SignInNext ==
    \/ Serve \/ PollAuth \/ ReadCookies \/ StartYtDlp \/ EndYtDlp
    \/ PressAuth \/ LeaveSettings \/ OpenSettings
    \/ \E i \in DOMAIN helpers : Capture(i) \/ LoginTask(i)
    \/ \E p \in polls : FailPoll(p)
    \/ \E a \in DOMAIN actions : PostAuth(a) \/ EndAction(a) \/ FailAction(a)

SignInSpec == SignInInit /\ [][SignInNext]_signInVars

\* The Mac serves its commands, a capture has a timeout, the view's timer and its waits end.
SignInFairness ==
    /\ WF_signInVars(Serve)
    /\ WF_signInVars(StartPoll) /\ WF_signInVars(\E p \in polls : EndPoll(p))
    /\ \A i \in 1..MaxLogins : WF_signInVars(i \in DOMAIN helpers /\ LoginTask(i))

-----------------------------------------------------------------------------
(* Properties.                                                             *)

\* Also: while a login is under way, its task has not been listened to yet.
SignInTypeOK ==
    /\ authState \in States /\ stored \in BOOLEAN /\ ytDlp \in BOOLEAN /\ signingOut \in BOOLEAN
    /\ helpers \in Seq({"window", "captured", "saved", "failed", "over"})
    /\ loginID # 0 => helpers[loginID] # "over"
    /\ authState = "signingIn" => loginID # 0
    /\ shownStatus \in [state: States, after: 0..carriedOut] \cup {Unknown}
    /\ pollArmed => \A p \in polls : ~p.active

\* "stale polling cannot overwrite a newer sign-in, cancellation, or sign-out result": a
\* status that the Mac gave before it carried out the action whose result is shown is not
\* shown after it, in whatever order the polls and the actions are answered.
StatusNeverGoesBack ==
    [][\/ shownStatus'.after >= shownStatus.after
       \/ \E a \in DOMAIN actions : actions[a].step = "answered" /\ actions'[a].step = "over"]_signInVars

\* A login that the actor waits for comes to its end, whatever the user does in the window.
SignInEnds == []<>(authState # "signingIn")

\* A login that the view shows is followed to its end, unless a poll fails.
SignInIsFollowed ==
    []<>(shownStatus.state # "signingIn" \/ pollError \/ ~onSettings)

\* "A cancelled/closed helper cannot save a late session": the task that saves is that of
\* the login the actor waits for.
NoLateSession == [][stored' /\ ~stored => loginID # 0 /\ helpers'[loginID] = "saved"]_signInVars
=============================================================================
