-------------------------- MODULE SceneResolution --------------------------
(***************************************************************************)
(* The extraction of a scene in Lustre Watch.  A press opens the panel on  *)
(* the scene and reads a stream of events from the resolver.  Sources that *)
(* are bound to the device are tried from the browser, a stream that brings*)
(* no event is followed by a plain request, and a provider that wants a    *)
(* browser is left to the Mac.  A press aborts the call before it: the     *)
(* stream ends with that, the plain request and the Mac's answer do not.   *)
(***************************************************************************)
EXTENDS Naturals, Sequences

CONSTANTS
    Scenes,   \* the cards of the page
    MaxCalls  \* presses

\* "none" stands for the null of the code.
ASSUME ResolutionAssumption == "none" \notin Scenes /\ MaxCalls \in Nat

VARIABLES
    scenes,     \* the calls of resolve: [scene, own, aborted, step, heard, last, completed, good, asks]
    panel,      \* activeSource, or NoScene
    resolving,
    result,     \* resolution: [scene, via], or NoResult
    partial,    \* the scene of the partial qualities, or NoScene
    agentScene, \* the scene of agentResolveRef, or NoScene
    sceneError

resolutionVars == <<scenes, panel, resolving, result, partial, agentScene, sceneError>>

NoScene == "none"
NoResult == [scene |-> NoScene, via |-> "none"]

ResolutionInit ==
    /\ scenes = <<>> /\ panel = NoScene /\ resolving = FALSE
    /\ result = NoResult /\ partial = NoScene /\ agentScene = NoScene /\ sceneError = FALSE

\* Mutant: the call before is left to itself.
AbortsNothing == scenes

\* abortRef.current?.abort()
Aborts == [n \in DOMAIN scenes |-> [scenes[n] EXCEPT !.aborted = (@ \/ n = Len(scenes))]]

Begin(s, own) ==
    /\ Len(scenes) < MaxCalls
    /\ scenes' = Append(Aborts, [scene |-> s, own |-> own, aborted |-> FALSE, step |-> "stream", heard |-> FALSE,
                                 last |-> "none", completed |-> "none", good |-> FALSE, asks |-> 0])
    /\ panel' = s
    /\ resolving' = TRUE
    /\ result' = NoResult /\ partial' = NoScene /\ sceneError' = FALSE

\* A press on a card, which the panel covers while it is open.
ExtractScene(s) ==
    /\ panel = NoScene
    /\ Begin(s, TRUE)
    /\ agentScene' = s

\* The button of the panel.
RefreshScene ==
    /\ panel # NoScene /\ ~resolving /\ (result # NoResult \/ sceneError)
    /\ Begin(IF result # NoResult THEN result.scene ELSE panel, FALSE)
    /\ UNCHANGED agentScene

\* A call shows a result, or goes on to another step.
ShowsResult(s, via) ==
    /\ result' = [scene |-> s, via |-> via]
    /\ partial' = IF via = "fallback" THEN partial ELSE NoScene
    /\ resolving' = FALSE
    /\ UNCHANGED <<panel, agentScene, sceneError>>

Shows(n, s, via) ==
    /\ ShowsResult(s, via)
    /\ scenes' = [scenes EXCEPT ![n].step = "over"]

GoesTo(n, step) ==
    /\ scenes' = [scenes EXCEPT ![n].step = step]
    /\ UNCHANGED <<panel, resolving, result, partial, agentScene, sceneError>>

\* Mutant: the spinner is for a result alone.
StopsNever == resolving

\* The end of a call that failed.
Stops == FALSE

FailsWith(n) ==
    /\ scenes' = [scenes EXCEPT ![n].step = "over"]
    /\ sceneError' = TRUE
    /\ resolving' = Stops
    /\ partial' = IF scenes[n].completed = "bound" THEN NoScene ELSE partial
    /\ UNCHANGED <<panel, result, agentScene>>

\* Mutant: the hand-off is no event of the call.
HandedOffSilently(c, step) == [c EXCEPT !.step = step, !.asks = @ + 1]

\* The hand-off is the call's last event.
HandedOff(c, step) == [c EXCEPT !.step = step, !.last = "handoff", !.asks = @ + 1]

\* resolveWithAgent, by the stream or by the handler of its error; it fails at once when no
\* Mac is connected.
HandsOff(n, step) ==
    \/ /\ scenes' = [scenes EXCEPT ![n] = HandedOff(@, step)]
       /\ UNCHANGED <<panel, resolving, result, partial, agentScene, sceneError>>
    \/ FailsWith(n)

\* The handler of an error: of the stream, of the sources, of the Mac.
Catch(n) ==
    LET c == scenes[n] IN
    CASE c.aborted -> GoesTo(n, "over")
      [] ~c.aborted /\ ~c.heard ->
            /\ scenes' = [scenes EXCEPT ![n].step = "fallback", ![n].heard = TRUE, ![n].last = "started"]
            /\ UNCHANGED <<panel, resolving, result, partial, agentScene, sceneError>>
      [] ~c.aborted /\ c.heard /\ c.last = "browser_required" -> HandsOff(n, "agentAfterError")
      [] OTHER -> FailsWith(n)

\* An event of the stream.
Hear(n, event) ==
    /\ scenes[n].step = "stream" /\ ~scenes[n].aborted
    /\ scenes[n].completed = "none"
    /\ scenes' = [scenes EXCEPT ![n].heard = TRUE, ![n].last = event,
                                ![n].completed = IF event \in {"plain", "bound"} THEN event ELSE "none"]
    /\ partial' = IF event = "provider_completed" THEN scenes[n].scene ELSE partial
    /\ UNCHANGED <<panel, resolving, result, agentScene, sceneError>>

EndStream(n) ==
    LET c == scenes[n] IN
    /\ c.step = "stream" /\ ~c.aborted
    /\ CASE c.completed = "plain" -> Shows(n, c.scene, "stream")
         [] c.completed = "bound" -> GoesTo(n, "device")
         [] c.last = "browser_required" -> HandsOff(n, "agent")
         [] OTHER -> Catch(n)

FailStream(n) == scenes[n].step = "stream" /\ Catch(n)

\* refreshHQPornerSources: candidates are tried by threes, and those that played are kept
\* when the others fail, or are aborted.
TryCandidate(n) ==
    /\ scenes[n].step \in {"device", "fallbackDevice"} /\ ~scenes[n].aborted /\ ~scenes[n].good
    /\ scenes' = [scenes EXCEPT ![n].good = TRUE]
    /\ UNCHANGED <<panel, resolving, result, partial, agentScene, sceneError>>

EndCandidates(n) ==
    /\ scenes[n].step \in {"device", "fallbackDevice"}
    /\ IF scenes[n].good THEN Shows(n, scenes[n].scene, "device")
       ELSE IF scenes[n].step = "device" THEN Catch(n) ELSE FailsWith(n)

\* POST resolve, which is given no signal.
FallbackAnswers(n) ==
    /\ scenes[n].step = "fallback"
    /\ \/ Shows(n, scenes[n].scene, "fallback")
       \/ GoesTo(n, "fallbackDevice")

FallbackFails(n) == scenes[n].step = "fallback" /\ FailsWith(n)

\* The Mac's answer; a call of the panel's button uses the resolver of the last card.
AgentAnswers(n) ==
    /\ scenes[n].step \in {"agent", "agentAfterError"}
    /\ Shows(n, IF scenes[n].own THEN scenes[n].scene ELSE agentScene, "agent")

\* The handler of an error does not look whether the call was aborted while it waited: the
\* error is shown, and the spinner stopped, though another scene is extracted by now.
AgentFails(n) ==
    \/ scenes[n].step = "agent" /\ Catch(n)
    \/ scenes[n].step = "agentAfterError" /\ FailsWith(n)

CancelResolve ==
    /\ panel # NoScene /\ resolving
    /\ scenes' = Aborts
    /\ resolving' = FALSE
    /\ panel' = IF result = NoResult /\ partial = NoScene THEN NoScene ELSE panel
    /\ UNCHANGED <<result, partial, agentScene, sceneError>>

ClosePanel ==
    /\ panel # NoScene /\ ~resolving
    /\ panel' = NoScene
    /\ UNCHANGED <<scenes, resolving, result, partial, agentScene, sceneError>>

Events == {"provider_completed", "browser_required", "plain", "bound"}

CallSteps(n) ==
    \/ EndStream(n) \/ FailStream(n) \/ EndCandidates(n)
    \/ FallbackAnswers(n) \/ FallbackFails(n) \/ AgentAnswers(n) \/ AgentFails(n)

ResolutionNext ==
    \/ RefreshScene \/ CancelResolve \/ ClosePanel
    \/ \E s \in Scenes : ExtractScene(s)
    \/ \E n \in DOMAIN scenes : CallSteps(n) \/ TryCandidate(n) \/ \E event \in Events : Hear(n, event)

ResolutionSpec == ResolutionInit /\ [][ResolutionNext]_resolutionVars

\* The stream has a timeout of 55 seconds, a candidate one of 15, the wait for the Mac one
\* of its own: every call comes to its end.
ResolutionFairness == \A n \in 1..MaxCalls : WF_resolutionVars(n \in DOMAIN scenes /\ CallSteps(n))

-----------------------------------------------------------------------------
(* Properties.                                                             *)

\* Also: one press asks the Mac once, though two places of the code hand over to it.
ResolutionTypeOK ==
    /\ panel \in Scenes \cup {NoScene} /\ partial \in Scenes \cup {NoScene}
    /\ result \in [scene: Scenes, via: {"stream", "device", "fallback", "agent"}] \cup {NoResult}
    /\ resolving => panel # NoScene
    /\ \A n \in DOMAIN scenes : scenes[n].asks <= 1

\* What came by the stream, whole or in part, is shown under its own scene, however the
\* panel was cancelled, closed and opened on others since.  The answers of the Mac, of the
\* plain request and of the device are not covered: nothing stops those of an older call.
StreamedIsOfTheScene ==
    panel # NoScene => /\ result.via = "stream" => result.scene = panel
                       /\ partial \in {NoScene, panel}

\* An extraction ends: with sources, an error, or because it is cancelled.
ResolvingEnds == []<>~resolving
=============================================================================
