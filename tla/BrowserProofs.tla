--------------------------- MODULE BrowserProofs ----------------------------
(***************************************************************************)
(* Proofs about views of the browser that have no module of proofs of their *)
(* own: the extraction of a scene, the extraction of a list in the Home    *)
(* view, the watchlist and the feed of Lustre Watch, signing in, and the   *)
(* destinations.  They share no state, so what holds of each view alone    *)
(* holds of the browser, where they take turns in any order.               *)
(***************************************************************************)
EXTENDS MCBrowser, FeedViewProofs

-----------------------------------------------------------------------------
(* The extraction of a scene.                                              *)

SceneCall ==
    [scene: Scenes, own: BOOLEAN, aborted: BOOLEAN,
     step: {"stream", "device", "fallback", "fallbackDevice", "agent", "agentAfterError", "over"},
     heard: BOOLEAN, last: {"none", "started", "handoff"} \cup Events,
     completed: {"none", "plain", "bound"}, good: BOOLEAN, asks: Nat]

SceneResult == [scene: Scenes, via: {"stream", "device", "fallback", "agent"}]

ResolutionTypes ==
    /\ scenes \in Seq(SceneCall)
    /\ panel \in Scenes \cup {NoScene} /\ partial \in Scenes \cup {NoScene}
    /\ result \in SceneResult \cup {NoResult}
    /\ agentScene \in Scenes \cup {NoScene} /\ (scenes # <<>> => agentScene \in Scenes)
    /\ resolving => panel # NoScene

\* A call that handed over to the Mac has done so once, and its last event is that.
HandsOffOnce(c) ==
    /\ c.last # "none" => c.heard
    /\ c.asks <= 1
    /\ c.asks = 1 => c.heard /\ c.last = "handoff" /\ c.step \in {"agent", "agentAfterError", "over"}

\* Every call but the last was aborted, and the panel is open on the scene of the last.
LastIsShown ==
    /\ \A n \in DOMAIN scenes : HandsOffOnce(scenes[n])
    /\ \A n \in DOMAIN scenes : n # Len(scenes) => scenes[n].aborted
    /\ panel # NoScene => scenes # <<>> /\ scenes[Len(scenes)].scene = panel

ResolutionInv == ResolutionTypes /\ LastIsShown /\ StreamedIsOfTheScene

\* A step of call n: it stays the call it was, and only one that was not aborted shows what
\* the stream brought.
SceneGoesOn(n) ==
    /\ \E c \in SceneCall :
          /\ scenes' = [scenes EXCEPT ![n] = c] /\ HandsOffOnce(c)
          /\ c.scene = scenes[n].scene /\ (c.aborted <=> scenes[n].aborted)
    /\ UNCHANGED <<panel, agentScene>> /\ (resolving' => resolving)
    /\ \/ result' = result
       \/ /\ result' \in SceneResult
          /\ result'.via = "stream" => ~scenes[n].aborted /\ result'.scene = scenes[n].scene
    /\ \/ partial' \in {partial, NoScene}
       \/ ~scenes[n].aborted /\ partial' = scenes[n].scene

LEMMA GoesOnKeeps ==
    ASSUME ResolutionInv, NEW n \in DOMAIN scenes, SceneGoesOn(n)
    PROVE  ResolutionInv'
<1>1. PICK c \in SceneCall :
         /\ scenes' = [scenes EXCEPT ![n] = c] /\ HandsOffOnce(c)
         /\ c.scene = scenes[n].scene /\ (c.aborted <=> scenes[n].aborted)
  BY DEF SceneGoesOn
<1>2. scenes \in Seq(SceneCall) /\ DOMAIN scenes = 1..Len(scenes) /\ Len(scenes) \in Nat /\ scenes # <<>>
  BY DEF ResolutionInv, ResolutionTypes
<1>3. /\ scenes' \in Seq(SceneCall) /\ Len(scenes') = Len(scenes) /\ scenes' # <<>>
      /\ DOMAIN scenes' = DOMAIN scenes
      /\ \A m \in DOMAIN scenes : scenes'[m] = IF m = n THEN c ELSE scenes[m]
  BY <1>1, <1>2
<1>4. scenes[n].scene \in Scenes
  <2>1. scenes[n] \in SceneCall
    BY <1>2
  <2> QED BY <2>1 DEF SceneCall
<1>5. ResolutionTypes'
  BY <1>3, <1>4, <1>2 DEF SceneGoesOn, ResolutionInv, ResolutionTypes
<1>6. LastIsShown'
  <2>1. \A m \in DOMAIN scenes' : HandsOffOnce(scenes'[m])
    BY <1>1, <1>3 DEF ResolutionInv, LastIsShown
  <2>2. \A m \in DOMAIN scenes' : m # Len(scenes') => scenes'[m].aborted
    BY <1>1, <1>3 DEF ResolutionInv, LastIsShown
  <2>3. Len(scenes) \in DOMAIN scenes
    BY <1>2
  <2>4. scenes'[Len(scenes')].scene = scenes[Len(scenes)].scene
    BY <1>1, <1>3, <2>3
  <2> QED BY <1>3, <2>1, <2>2, <2>4 DEF SceneGoesOn, ResolutionInv, LastIsShown
<1>7. StreamedIsOfTheScene'
  <2>1. panel # NoScene /\ ~scenes[n].aborted => scenes[n].scene = panel
    BY DEF ResolutionInv, LastIsShown
  <2> QED BY <2>1 DEF SceneGoesOn, ResolutionInv, StreamedIsOfTheScene
<1> QED BY <1>5, <1>6, <1>7 DEF ResolutionInv

LEMMA CallOf ==
    ASSUME ResolutionInv, NEW n \in DOMAIN scenes
    PROVE  scenes[n] \in SceneCall /\ HandsOffOnce(scenes[n])
BY DEF ResolutionInv, ResolutionTypes, LastIsShown

\* The ways a call goes on.
LEMMA GoesToKeeps ==
    ASSUME ResolutionInv, NEW n \in DOMAIN scenes,
           NEW step \in {"device", "fallbackDevice", "over"}, scenes[n].asks = 0 \/ step = "over",
           GoesTo(n, step)
    PROVE  ResolutionInv'
<1>1. PICK c : c = [scenes[n] EXCEPT !.step = step]
  OBVIOUS
<1>2. /\ c \in SceneCall /\ c.scene = scenes[n].scene /\ c.aborted = scenes[n].aborted
      /\ c.asks = scenes[n].asks /\ c.last = scenes[n].last /\ c.heard = scenes[n].heard /\ c.step = step
  BY <1>1, CallOf DEF SceneCall
<1>3. HandsOffOnce(c)
  BY <1>2, CallOf DEF HandsOffOnce
<1>4. scenes' = [scenes EXCEPT ![n] = c]
  BY <1>1 DEF GoesTo
<1>5. SceneGoesOn(n)
  BY <1>2, <1>3, <1>4 DEF GoesTo, SceneGoesOn
<1> QED BY <1>5, GoesOnKeeps

LEMMA ShowsKeeps ==
    ASSUME ResolutionInv, NEW n \in DOMAIN scenes,
           NEW s \in Scenes, NEW via \in {"stream", "device", "fallback", "agent"},
           via = "stream" => ~scenes[n].aborted /\ s = scenes[n].scene,
           Shows(n, s, via)
    PROVE  ResolutionInv'
<1>1. PICK c : c = [scenes[n] EXCEPT !.step = "over"]
  OBVIOUS
<1>2. /\ c \in SceneCall /\ c.scene = scenes[n].scene /\ c.aborted = scenes[n].aborted
      /\ c.asks = scenes[n].asks /\ c.last = scenes[n].last /\ c.heard = scenes[n].heard /\ c.step = "over"
  BY <1>1, CallOf DEF SceneCall
<1>3. HandsOffOnce(c)
  BY <1>2, CallOf DEF HandsOffOnce
<1>4. scenes' = [scenes EXCEPT ![n] = c]
  BY <1>1 DEF Shows
<1>5. result' \in SceneResult /\ (result'.via = "stream" => ~scenes[n].aborted /\ result'.scene = scenes[n].scene)
  BY DEF Shows, ShowsResult, SceneResult
<1>6. SceneGoesOn(n)
  BY <1>2, <1>3, <1>4, <1>5 DEF Shows, ShowsResult, SceneGoesOn
<1> QED BY <1>6, GoesOnKeeps

LEMMA FailsKeeps ==
    ASSUME ResolutionInv, NEW n \in DOMAIN scenes, FailsWith(n)
    PROVE  ResolutionInv'
<1>1. PICK c : c = [scenes[n] EXCEPT !.step = "over"]
  OBVIOUS
<1>2. /\ c \in SceneCall /\ c.scene = scenes[n].scene /\ c.aborted = scenes[n].aborted
      /\ c.asks = scenes[n].asks /\ c.last = scenes[n].last /\ c.heard = scenes[n].heard /\ c.step = "over"
  BY <1>1, CallOf DEF SceneCall
<1>3. HandsOffOnce(c)
  BY <1>2, CallOf DEF HandsOffOnce
<1>4. scenes' = [scenes EXCEPT ![n] = c]
  BY <1>1 DEF FailsWith
<1>5. SceneGoesOn(n)
  BY <1>2, <1>3, <1>4 DEF FailsWith, Stops, SceneGoesOn
<1> QED BY <1>5, GoesOnKeeps

\* A call whose last event asks for a browser has not handed over yet.
LEMMA HandsOffKeeps ==
    ASSUME ResolutionInv, NEW n \in DOMAIN scenes, scenes[n].last = "browser_required",
           NEW step \in {"agent", "agentAfterError"}, HandsOff(n, step)
    PROVE  ResolutionInv'
<1>1. CASE FailsWith(n)
  BY <1>1, FailsKeeps
<1>2. CASE /\ scenes' = [scenes EXCEPT ![n] = HandedOff(@, step)]
           /\ UNCHANGED <<panel, resolving, result, partial, agentScene, sceneError>>
  <2>1. PICK c : c = [scenes[n] EXCEPT !.step = step, !.last = "handoff", !.asks = @ + 1]
    OBVIOUS
  <2>2. scenes[n].asks = 0 /\ scenes[n].heard
    BY CallOf DEF HandsOffOnce, SceneCall
  <2>3. /\ c \in SceneCall /\ c.scene = scenes[n].scene /\ c.aborted = scenes[n].aborted
        /\ c.asks = 1 /\ c.last = "handoff" /\ c.heard = scenes[n].heard /\ c.step = step
    <3>1. c = [scenes[n] EXCEPT !.step = step, !.last = "handoff", !.asks = 1]
      BY <2>1, <2>2, CallOf DEF SceneCall
    <3> QED BY <3>1, CallOf DEF SceneCall
  <2>4. HandsOffOnce(c)
    BY <2>2, <2>3 DEF HandsOffOnce
  <2>5. scenes' = [scenes EXCEPT ![n] = c]
    BY <1>2, <2>1 DEF HandedOff
  <2>6. SceneGoesOn(n)
    BY <1>2, <2>3, <2>4, <2>5 DEF SceneGoesOn
  <2> QED BY <2>6, GoesOnKeeps
<1> QED BY <1>1, <1>2 DEF HandsOff

LEMMA CatchKeeps ==
    ASSUME ResolutionInv, NEW n \in DOMAIN scenes, Catch(n)
    PROVE  ResolutionInv'
<1>1. CASE GoesTo(n, "over")
  BY <1>1, GoesToKeeps
<1>2. CASE scenes[n].last = "browser_required" /\ HandsOff(n, "agentAfterError")
  BY <1>2, HandsOffKeeps
<1>3. CASE FailsWith(n)
  BY <1>3, FailsKeeps
<1>4. CASE /\ ~scenes[n].heard
           /\ scenes' = [scenes EXCEPT ![n].step = "fallback", ![n].heard = TRUE, ![n].last = "started"]
           /\ UNCHANGED <<panel, resolving, result, partial, agentScene, sceneError>>
  <2>1. PICK c : c = [scenes[n] EXCEPT !.step = "fallback", !.heard = TRUE, !.last = "started"]
    OBVIOUS
  <2>2. /\ c \in SceneCall /\ c.scene = scenes[n].scene /\ c.aborted = scenes[n].aborted
        /\ c.asks = scenes[n].asks /\ c.last = "started" /\ c.heard
    BY <2>1, CallOf DEF SceneCall
  <2>3. HandsOffOnce(c)
    BY <1>4, <2>2, CallOf DEF HandsOffOnce, SceneCall
  <2>4. scenes' = [scenes EXCEPT ![n] = c]
    BY <1>4, <2>1, CallOf DEF ResolutionInv, ResolutionTypes
  <2>5. SceneGoesOn(n)
    BY <1>4, <2>2, <2>3, <2>4 DEF SceneGoesOn
  <2> QED BY <2>5, GoesOnKeeps
<1> QED BY <1>1, <1>2, <1>3, <1>4 DEF Catch

LEMMA HearKeeps ==
    ASSUME ResolutionInv, NEW n \in DOMAIN scenes, NEW event \in Events, Hear(n, event)
    PROVE  ResolutionInv'
<1>1. PICK over \in {"none", "plain", "bound"} : over = IF event \in {"plain", "bound"} THEN event ELSE "none"
  OBVIOUS
<1>2. PICK c : c = [scenes[n] EXCEPT !.heard = TRUE, !.last = event, !.completed = over]
  OBVIOUS
<1>3. /\ c \in SceneCall /\ c.scene = scenes[n].scene /\ c.aborted = scenes[n].aborted
      /\ c.asks = scenes[n].asks /\ c.last = event /\ c.heard /\ c.step = scenes[n].step
  BY <1>2, CallOf DEF SceneCall
<1>4. scenes[n].step = "stream" /\ ~scenes[n].aborted
  BY DEF Hear
<1>5. HandsOffOnce(c)
  BY <1>3, <1>4, CallOf DEF HandsOffOnce
<1>6. scenes' = [scenes EXCEPT ![n] = c]
  BY <1>1, <1>2, CallOf DEF Hear, ResolutionInv, ResolutionTypes
<1>7. SceneGoesOn(n)
  BY <1>3, <1>4, <1>5, <1>6 DEF SceneGoesOn, Hear
<1> QED BY <1>7, GoesOnKeeps

LEMMA TryKeeps ==
    ASSUME ResolutionInv, NEW n \in DOMAIN scenes, TryCandidate(n)
    PROVE  ResolutionInv'
<1>1. PICK c : c = [scenes[n] EXCEPT !.good = TRUE]
  OBVIOUS
<1>2. /\ c \in SceneCall /\ c.scene = scenes[n].scene /\ c.aborted = scenes[n].aborted
      /\ c.asks = scenes[n].asks /\ c.last = scenes[n].last /\ c.heard = scenes[n].heard /\ c.step = scenes[n].step
  BY <1>1, CallOf DEF SceneCall
<1>3. HandsOffOnce(c)
  BY <1>2, CallOf DEF HandsOffOnce
<1>4. scenes' = [scenes EXCEPT ![n] = c]
  BY <1>1 DEF TryCandidate
<1>5. SceneGoesOn(n)
  BY <1>2, <1>3, <1>4 DEF TryCandidate, SceneGoesOn
<1> QED BY <1>5, GoesOnKeeps

LEMMA CallStepsKeep ==
    ASSUME ResolutionInv, NEW n \in DOMAIN scenes, CallSteps(n)
    PROVE  ResolutionInv'
<1> DEFINE c == scenes[n]
<1>1. c.scene \in Scenes /\ agentScene \in Scenes
  BY CallOf DEF SceneCall, ResolutionInv, ResolutionTypes
<1>2. CASE EndStream(n)
  <2>1. c.asks = 0 /\ ~c.aborted
    BY <1>2, CallOf DEF EndStream, HandsOffOnce, SceneCall
  <2>2. CASE Shows(n, c.scene, "stream")
    BY <1>1, <2>1, <2>2, ShowsKeeps
  <2>3. CASE GoesTo(n, "device")
    BY <2>1, <2>3, GoesToKeeps
  <2>4. CASE c.last = "browser_required" /\ HandsOff(n, "agent")
    BY <2>4, HandsOffKeeps
  <2>5. CASE Catch(n)
    BY <2>5, CatchKeeps
  <2> QED BY <1>2, <2>2, <2>3, <2>4, <2>5 DEF EndStream
<1>3. CASE FailStream(n) \/ AgentFails(n)
  BY <1>3, CatchKeeps, FailsKeeps DEF FailStream, AgentFails
<1>4. CASE EndCandidates(n)
  BY <1>1, <1>4, ShowsKeeps, CatchKeeps, FailsKeeps DEF EndCandidates
<1>5. CASE FallbackAnswers(n)
  <2>1. c.asks = 0
    BY <1>5, CallOf DEF FallbackAnswers, HandsOffOnce, SceneCall
  <2> QED BY <1>1, <1>5, <2>1, ShowsKeeps, GoesToKeeps DEF FallbackAnswers
<1>6. CASE FallbackFails(n)
  BY <1>6, FailsKeeps DEF FallbackFails
<1>7. CASE AgentAnswers(n)
  <2>1. PICK s \in Scenes : Shows(n, s, "agent")
    BY <1>1, <1>7 DEF AgentAnswers
  <2> QED BY <2>1, ShowsKeeps
<1> QED BY <1>2, <1>3, <1>4, <1>5, <1>6, <1>7 DEF CallSteps

\* The calls that were begun are aborted when another is, or when the panel is cancelled.
LEMMA Aborting ==
    ASSUME ResolutionInv
    PROVE  /\ Aborts \in Seq(SceneCall) /\ Len(Aborts) = Len(scenes) /\ DOMAIN Aborts = DOMAIN scenes
           /\ \A n \in DOMAIN scenes :
                 Aborts[n].aborted /\ Aborts[n].scene = scenes[n].scene /\ HandsOffOnce(Aborts[n])
<1>1. scenes \in Seq(SceneCall) /\ DOMAIN scenes = 1..Len(scenes) /\ Len(scenes) \in Nat
  BY DEF ResolutionInv, ResolutionTypes
<1>2. ASSUME NEW n \in DOMAIN scenes
      PROVE  /\ Aborts[n] \in SceneCall
             /\ Aborts[n].aborted /\ Aborts[n].scene = scenes[n].scene /\ HandsOffOnce(Aborts[n])
  <2>1. PICK c : c = [scenes[n] EXCEPT !.aborted = (@ \/ n = Len(scenes))]
    OBVIOUS
  <2>2. Aborts[n] = c
    BY <2>1 DEF Aborts
  <2>3. /\ c \in SceneCall /\ c.scene = scenes[n].scene /\ (c.aborted <=> scenes[n].aborted \/ n = Len(scenes))
        /\ c.asks = scenes[n].asks /\ c.last = scenes[n].last /\ c.heard = scenes[n].heard /\ c.step = scenes[n].step
    BY <2>1, CallOf DEF SceneCall
  <2>4. HandsOffOnce(c)
    BY <2>3, CallOf DEF HandsOffOnce
  <2> QED BY <2>2, <2>3, <2>4 DEF ResolutionInv, LastIsShown
<1>3. Aborts \in [1..Len(scenes) -> SceneCall]
  <2>1. Aborts = [n \in 1..Len(scenes) |-> Aborts[n]]
    BY <1>1 DEF Aborts
  <2> QED BY <1>1, <1>2, <2>1
<1> QED BY <1>1, <1>2, <1>3

LEMMA BeginKeeps ==
    ASSUME ResolutionInv, NEW s \in Scenes, NEW own \in BOOLEAN, Begin(s, own), agentScene' \in Scenes
    PROVE  ResolutionInv'
<1>1. PICK c : c = [scene |-> s, own |-> own, aborted |-> FALSE, step |-> "stream", heard |-> FALSE,
                    last |-> "none", completed |-> "none", good |-> FALSE, asks |-> 0]
  OBVIOUS
<1>2. c \in SceneCall /\ c.scene = s /\ HandsOffOnce(c)
  BY <1>1 DEF SceneCall, HandsOffOnce
<1>3. scenes' = Append(Aborts, c)
  BY <1>1 DEF Begin
<1>4. Len(scenes) \in Nat /\ DOMAIN scenes = 1..Len(scenes)
  BY DEF ResolutionInv, ResolutionTypes
<1>5. /\ scenes' \in Seq(SceneCall) /\ Len(scenes') = Len(scenes) + 1 /\ scenes' # <<>>
      /\ DOMAIN scenes' = 1..(Len(scenes) + 1) /\ scenes'[Len(scenes) + 1] = c
      /\ \A n \in 1..Len(scenes) : scenes'[n] = Aborts[n]
  BY <1>2, <1>3, <1>4, Aborting
<1>6. s # NoScene
  BY ResolutionAssumption DEF NoScene
<1>7. ResolutionTypes'
  BY <1>5, <1>6 DEF Begin, ResolutionTypes
<1>8. LastIsShown'
  <2>1. ASSUME NEW n \in DOMAIN scenes'
        PROVE  HandsOffOnce(scenes'[n]) /\ (n # Len(scenes') => scenes'[n].aborted)
    <3>1. CASE n = Len(scenes) + 1
      BY <1>2, <1>5, <3>1
    <3>2. CASE n \in 1..Len(scenes)
      BY <1>4, <1>5, <3>2, Aborting
    <3> QED BY <1>4, <1>5, <3>1, <3>2
  <2> QED BY <1>2, <1>5, <2>1 DEF Begin, LastIsShown
<1>9. StreamedIsOfTheScene'
  BY DEF Begin, StreamedIsOfTheScene, NoResult, NoScene
<1> QED BY <1>7, <1>8, <1>9 DEF ResolutionInv

LEMMA CancelKeeps ==
    ASSUME ResolutionInv, CancelResolve
    PROVE  ResolutionInv'
<1>1. Len(scenes) \in Nat /\ DOMAIN scenes = 1..Len(scenes)
  BY DEF ResolutionInv, ResolutionTypes
<1>2. /\ scenes' \in Seq(SceneCall) /\ Len(scenes') = Len(scenes) /\ DOMAIN scenes' = DOMAIN scenes
      /\ \A n \in DOMAIN scenes :
            scenes'[n].aborted /\ scenes'[n].scene = scenes[n].scene /\ HandsOffOnce(scenes'[n])
      /\ scenes # <<>> <=> scenes' # <<>>
  BY <1>1, Aborting DEF CancelResolve, ResolutionInv, ResolutionTypes
<1>3. ResolutionTypes'
  BY <1>2 DEF CancelResolve, ResolutionInv, ResolutionTypes
<1>4. LastIsShown'
  BY <1>1, <1>2 DEF CancelResolve, ResolutionInv, ResolutionTypes, LastIsShown
<1>5. StreamedIsOfTheScene'
  BY DEF CancelResolve, ResolutionInv, StreamedIsOfTheScene
<1> QED BY <1>3, <1>4, <1>5 DEF ResolutionInv

LEMMA ResolutionStarts == ResolutionInit => ResolutionInv
<1> SUFFICES ASSUME ResolutionInit PROVE ResolutionInv
  OBVIOUS
<1>1. scenes = <<>> /\ DOMAIN scenes = {}
  BY DEF ResolutionInit
<1> QED BY <1>1 DEF ResolutionInit, ResolutionInv, ResolutionTypes, LastIsShown, StreamedIsOfTheScene, NoResult

LEMMA ResolutionStep == ResolutionInv /\ [ResolutionNext]_resolutionVars => ResolutionInv'
<1> SUFFICES ASSUME ResolutionInv, [ResolutionNext]_resolutionVars PROVE ResolutionInv'
  OBVIOUS
<1>1. CASE UNCHANGED resolutionVars
  BY <1>1 DEF resolutionVars, ResolutionInv, ResolutionTypes, LastIsShown, StreamedIsOfTheScene
<1>2. CASE RefreshScene
  <2>1. panel \in Scenes /\ scenes # <<>> /\ agentScene' \in Scenes
    BY <1>2 DEF RefreshScene, ResolutionInv, ResolutionTypes, LastIsShown
  <2>2. result # NoResult => result.scene \in Scenes
    BY DEF ResolutionInv, ResolutionTypes, SceneResult
  <2> QED BY <1>2, <2>1, <2>2, BeginKeeps DEF RefreshScene
<1>3. CASE CancelResolve
  BY <1>3, CancelKeeps
<1>4. CASE ClosePanel
  BY <1>4 DEF ClosePanel, ResolutionInv, ResolutionTypes, LastIsShown, StreamedIsOfTheScene
<1>5. ASSUME NEW s \in Scenes, ExtractScene(s) PROVE ResolutionInv'
  BY <1>5, BeginKeeps DEF ExtractScene
<1>6. ASSUME NEW n \in DOMAIN scenes,
             CallSteps(n) \/ TryCandidate(n) \/ \E event \in Events : Hear(n, event)
      PROVE  ResolutionInv'
  BY <1>6, CallStepsKeep, TryKeeps, HearKeeps
<1> QED BY <1>1, <1>2, <1>3, <1>4, <1>5, <1>6 DEF ResolutionNext

\* What came by the stream is shown under its own scene, and one press asks the Mac once
\* (resolve, resolveWithAgent), for any number of scenes and presses.
THEOREM ScenesAreKept == ResolutionSpec => [](StreamedIsOfTheScene /\ ResolutionTypeOK)
<1>1. ResolutionInv => StreamedIsOfTheScene /\ ResolutionTypeOK
  BY DEF ResolutionInv, ResolutionTypes, LastIsShown, HandsOffOnce, SceneResult, ResolutionTypeOK
<1> QED BY <1>1, ResolutionStarts, ResolutionStep, PTL DEF ResolutionSpec

-----------------------------------------------------------------------------
(* The extraction of a list of pages.                                      *)

HomePending == [list: Nat, command: Nat, current: Nat, remaining: Seq(Nat), completed: Seq(Nat)]

Preview == [list: 1..lists, batch: 1..Batches, status: {"pending", "completed"}]

\* Is a batch of the list under way?
UnderWay(p) == IF p.command = 0 THEN 0 ELSE 1

\* The list of p is cut in three where it says: what was answered, the batch under way and
\* what is left.  The command it waits for is that of its current batch.
CutInThree(p, commands, last) ==
    /\ p \in HomePending /\ p.list \in 1..last
    /\ Len(p.completed) + UnderWay(p) + Len(p.remaining) = Batches
    /\ \A i \in 1..Len(p.completed) : p.completed[i] = i
    /\ \A i \in 1..Len(p.remaining) : p.remaining[i] = Len(p.completed) + UnderWay(p) + i
    /\ p.command # 0 =>
          /\ p.current = Len(p.completed) + 1
          /\ p.command \in 1..Len(commands)
          /\ commands[p.command].list = p.list /\ commands[p.command].batch = p.current

PreviewRun == [number: Nat, mount: Nat, pending: HomePending, step: {"next", "posted", "wait"}]

\* A run waits for a command, or goes on with the next batch.
RunIsCut(r, commands, last) ==
    /\ r \in PreviewRun /\ CutInThree(r.pending, commands, last)
    /\ r.pending.command = 0 <=> r.step = "next"

HomeTypes ==
    /\ mount \in 0..(resumes + 1) /\ resumes \in 0..MaxResumes /\ lists \in 0..MaxExtractions
    /\ mount = 0 => resumes < MaxResumes
    /\ extracting \in BOOLEAN
    /\ previews \in Seq(Preview)

\* A spinner has a run of its own mount behind it.
SpinnerHasRun == mount # 0 /\ extracting => \E r \in runs : r.mount = mount

\* Every copy of a list is complete, whichever run shares it.
ListsAreCut ==
    /\ \A r \in runs : RunIsCut(r, previews, lists)
    /\ session = Nothing \/ CutInThree(session, previews, lists)

HomeInv == HomeTypes /\ SpinnerHasRun /\ ListsAreCut /\ PreviewIsComplete

\* A sequence that counts on from another one.
LEMMA CountingOn ==
    ASSUME NEW s \in Seq(Nat), NEW t \in Seq(Nat),
           \A i \in 1..Len(s) : s[i] = i, \A i \in 1..Len(t) : t[i] = Len(s) + i
    PROVE  /\ s \o t \in Seq(Nat) /\ Len(s \o t) = Len(s) + Len(t)
           /\ \A i \in 1..(Len(s) + Len(t)) : (s \o t)[i] = i
<1>1. /\ s \o t \in Seq(Nat) /\ Len(s \o t) = Len(s) + Len(t)
      /\ \A i \in 1..(Len(s) + Len(t)) : (s \o t)[i] = IF i <= Len(s) THEN s[i] ELSE t[i - Len(s)]
  BY ConcatProperties
<1>2. Len(s) \in Nat /\ Len(t) \in Nat
  OBVIOUS
<1>3. \A i \in 1..(Len(s) + Len(t)) : (s \o t)[i] = i
  BY <1>1, <1>2
<1> QED BY <1>1, <1>3

\* A list that is cut in three is all there.
LEMMA CutIsWhole ==
    ASSUME HomeTypes, NEW p, CutInThree(p, previews, lists)
    PROVE  /\ p.completed \o (IF p.command = 0 THEN <<>> ELSE <<p.current>>) \o p.remaining = All
           /\ p.remaining = <<>> /\ p.command = 0 => p.completed = All
<1>1. /\ p.completed \in Seq(Nat) /\ p.remaining \in Seq(Nat) /\ p.current \in Nat /\ p.command \in Nat
      /\ Len(p.completed) \in Nat /\ Len(p.remaining) \in Nat
  BY DEF CutInThree, HomePending
<1>2. PICK k \in Nat : k = Len(p.completed)
  BY <1>1
<1>3. \A i \in 1..k : p.completed[i] = i
  BY <1>2 DEF CutInThree
<1>4. PICK m : m = IF p.command = 0 THEN <<>> ELSE <<p.current>>
  OBVIOUS
<1>5. /\ m \in Seq(Nat) /\ Len(m) = UnderWay(p)
      /\ \A i \in 1..Len(m) : m[i] = k + i
  <2>1. CASE p.command = 0
    BY <1>4, <2>1 DEF UnderWay
  <2>2. CASE p.command # 0
    <3>1. m = <<k + 1>> /\ UnderWay(p) = 1
      BY <1>2, <1>4, <2>2 DEF CutInThree, UnderWay
    <3> QED BY <3>1
  <2> QED BY <2>1, <2>2
<1>6. \A i \in 1..Len(p.remaining) : p.remaining[i] = k + Len(m) + i
  BY <1>2, <1>5 DEF CutInThree
<1>7. k + Len(m) + Len(p.remaining) = Batches
  BY <1>2, <1>5 DEF CutInThree
<1>8. PICK s : s = p.completed \o m
  OBVIOUS
<1>9. s \in Seq(Nat) /\ Len(s) = k + Len(m) /\ \A i \in 1..Len(s) : s[i] = i
  <2>1. PICK c \in Seq(Nat) : c = p.completed
    BY <1>1
  <2>2. Len(c) = k /\ \A i \in 1..Len(c) : c[i] = i
    BY <1>2, <1>3, <2>1
  <2>3. \A i \in 1..Len(m) : m[i] = Len(c) + i
    BY <1>5, <2>2
  <2>4. s = c \o m /\ Len(c) + Len(m) = k + Len(m)
    BY <1>8, <2>1, <2>2
  <2> QED BY <1>5, <2>2, <2>3, <2>4, CountingOn
<1>10. PICK t : t = s \o p.remaining
  OBVIOUS
<1>11. t \in Seq(Nat) /\ Len(t) = Batches /\ \A i \in 1..Batches : t[i] = i
  <2>1. PICK r \in Seq(Nat) : r = p.remaining
    BY <1>1
  <2>2. \A i \in 1..Len(r) : r[i] = Len(s) + i
    BY <1>6, <1>9, <2>1
  <2>3. t = s \o r /\ Len(s) + Len(r) = Batches
    BY <1>7, <1>9, <1>10, <2>1
  <2> QED BY <1>9, <2>2, <2>3, CountingOn
<1>12. t = All
  <2>1. t = [i \in 1..Len(t) |-> t[i]]
    BY <1>11
  <2> QED BY <1>11, <2>1 DEF All
<1>13. p.remaining = <<>> /\ p.command = 0 => p.completed = All
  <2> SUFFICES ASSUME p.remaining = <<>>, p.command = 0 PROVE p.completed = All
    OBVIOUS
  <2>1. t = s /\ s = p.completed
    <3>1. PICK c \in Seq(Nat) : c = p.completed
      BY <1>1
    <3>2. s = c
      BY <1>4, <1>8, <3>1, ConcatEmptySeq
    <3> QED BY <1>9, <1>10, <3>1, <3>2, ConcatEmptySeq
  <2> QED BY <1>12, <2>1
<1> QED BY <1>4, <1>8, <1>10, <1>12, <1>13

\* Lists stay cut when commands are added and answered.
LEMMA CutStays ==
    ASSUME HomeTypes, lists <= lists', lists' \in Nat, Len(previews') \in Nat, Len(previews) <= Len(previews'),
           \A i \in 1..Len(previews) : /\ previews'[i].list = previews[i].list
                                       /\ previews'[i].batch = previews[i].batch,
           NEW p, CutInThree(p, previews, lists)
    PROVE  CutInThree(p, previews', lists')
<1>1. Len(previews) \in Nat /\ lists \in Nat
  BY DEF HomeTypes
<1>2. p \in HomePending /\ p.list \in 1..lists'
  BY <1>1 DEF CutInThree
<1>3. p.command # 0 => /\ p.current = Len(p.completed) + 1
                       /\ p.command \in 1..Len(previews')
                       /\ previews'[p.command].list = p.list /\ previews'[p.command].batch = p.current
  BY <1>1 DEF CutInThree
<1> QED BY <1>2, <1>3 DEF CutInThree

LEMMA HomeStarts == HomeInit => HomeInv
<1> SUFFICES ASSUME HomeInit PROVE HomeInv
  OBVIOUS
<1>1. mount \in 0..(resumes + 1) /\ resumes \in 0..MaxResumes /\ lists \in 0..MaxExtractions /\ mount # 0
  BY HomeAssumption DEF HomeInit
<1>2. extracting \in BOOLEAN /\ ~extracting
  BY DEF HomeInit
<1>3. previews \in Seq(Preview)
  BY DEF HomeInit
<1>4. ListsAreCut
  BY DEF HomeInit, ListsAreCut
<1>5. PreviewIsComplete
  BY DEF HomeInit, PreviewIsComplete
<1> QED BY <1>1, <1>2, <1>3, <1>4, <1>5 DEF HomeInv, HomeTypes, SpinnerHasRun

\* The lists are as they were, but for those of one run and of the session storage.
LEMMA ListsStay ==
    ASSUME HomeInv, lists <= lists', lists' \in Nat, Len(previews') \in Nat, Len(previews) <= Len(previews'),
           \A i \in 1..Len(previews) : /\ previews'[i].list = previews[i].list
                                       /\ previews'[i].batch = previews[i].batch,
           \A r \in runs' \ runs : RunIsCut(r, previews', lists'),
           session' \in {Nothing, session} \/ CutInThree(session', previews', lists')
    PROVE  ListsAreCut'
<1>1. \A p : CutInThree(p, previews, lists) => CutInThree(p, previews', lists')
  BY CutStays DEF HomeInv
<1>2. \A r \in runs' : RunIsCut(r, previews', lists')
  <2>1. \A r \in runs : RunIsCut(r, previews, lists)
    BY DEF HomeInv, ListsAreCut
  <2>2. \A r \in runs : RunIsCut(r, previews', lists')
    BY <1>1, <2>1 DEF RunIsCut
  <2> QED BY <2>2
<1>3. session' = Nothing \/ CutInThree(session', previews', lists')
  BY <1>1 DEF HomeInv, ListsAreCut
<1> QED BY <1>2, <1>3 DEF ListsAreCut

\* A run that goes on is still of its mount.
LEMMA Replaced ==
    ASSUME HomeInv, NEW r \in runs, NEW p, NEW step \in {"next", "posted", "wait"},
           CutInThree(p, previews', lists'), p.command = 0 <=> step = "next",
           runs' = Replace(r, p, step), UNCHANGED <<mount, extracting>>
    PROVE  (\A x \in runs' \ runs : RunIsCut(x, previews', lists')) /\ SpinnerHasRun'
<1>1. r \in PreviewRun
  BY DEF HomeInv, ListsAreCut, RunIsCut
<1>2. p \in HomePending
  BY DEF CutInThree
<1>3. PICK q : q = [r EXCEPT !.pending = p, !.step = step]
  OBVIOUS
<1>4. q \in PreviewRun /\ q.pending = p /\ q.step = step /\ q.mount = r.mount
  BY <1>1, <1>2, <1>3 DEF PreviewRun
<1>5. runs' = (runs \ {r}) \cup {q}
  BY <1>3 DEF Replace
<1>6. RunIsCut(q, previews', lists')
  BY <1>4 DEF RunIsCut
<1>7. \A x \in runs' \ runs : RunIsCut(x, previews', lists')
  BY <1>5, <1>6
<1>8. \A x \in runs : \E y \in runs' : y.mount = x.mount
  BY <1>4, <1>5
<1>9. SpinnerHasRun'
  BY <1>8 DEF HomeInv, SpinnerHasRun
<1> QED BY <1>7, <1>9

LEMMA RunOf ==
    ASSUME HomeInv, NEW r \in runs
    PROVE  /\ r \in PreviewRun /\ r.pending \in HomePending /\ CutInThree(r.pending, previews, lists)
           /\ r.pending.command = 0 <=> r.step = "next"
BY DEF HomeInv, ListsAreCut, RunIsCut, PreviewRun

\* What the numbers are.
LEMMA HomeCounts ==
    ASSUME HomeInv
    PROVE  /\ lists \in Nat /\ resumes \in Nat /\ mount \in Nat
           /\ Len(previews) \in Nat /\ DOMAIN previews = 1..Len(previews) /\ previews \in Seq(Preview)
BY HomeAssumption DEF HomeInv, HomeTypes

\* When the commands and the count of the lists stay as they are.
LEMMA SameCommands ==
    ASSUME HomeInv, UNCHANGED <<previews, lists>>,
           \A r \in runs' \ runs : RunIsCut(r, previews, lists),
           session' \in {Nothing, session} \/ CutInThree(session', previews, lists)
    PROVE  ListsAreCut' /\ previews' \in Seq(Preview')
<1>1. Preview' = Preview
  BY DEF Preview
<1>2. lists <= lists' /\ lists' \in Nat /\ Len(previews') \in Nat /\ Len(previews) <= Len(previews')
  BY HomeCounts
<1> QED BY <1>1, <1>2, HomeCounts, ListsStay

\* A list is submitted: all of it is left.
LEMMA ExtractKeeps == ASSUME HomeInv, Extract PROVE HomeInv'
<1>1. /\ mount # 0 /\ lists < MaxExtractions /\ lists' = lists + 1 /\ extracting' = TRUE
      /\ runs' = runs \cup {Started(lists + 1 + resumes, mount, [Nothing EXCEPT !.list = lists + 1, !.remaining = All])}
      /\ UNCHANGED <<mount, session, previews, shown, resumes>>
  BY DEF Extract
<1>2. PICK p : p = [Nothing EXCEPT !.list = lists + 1, !.remaining = All]
  OBVIOUS
<1>3. p = [list |-> lists + 1, command |-> 0, current |-> 0, remaining |-> All, completed |-> <<>>]
  BY <1>2 DEF Nothing
<1>4. All \in Seq(Nat) /\ Len(All) = Batches /\ \A i \in 1..Batches : All[i] = i
  BY HomeAssumption DEF All
<1>5. p \in HomePending
  BY <1>3, <1>4, HomeCounts DEF HomePending
<1>6. CutInThree(p, previews', lists')
  BY <1>1, <1>3, <1>4, <1>5, HomeCounts, HomeAssumption DEF CutInThree, UnderWay
<1>7. PICK q : q = Started(lists + 1 + resumes, mount, p)
  OBVIOUS
<1>8. q = [number |-> lists + 1 + resumes, mount |-> mount, pending |-> p, step |-> "next"]
  BY <1>3, <1>7 DEF Started
<1>9. RunIsCut(q, previews', lists')
  <2>1. q \in PreviewRun
    BY <1>5, <1>8, HomeCounts DEF PreviewRun
  <2> QED BY <1>3, <1>6, <1>8, <2>1 DEF RunIsCut
<1>10. runs' = runs \cup {q}
  BY <1>1, <1>2, <1>7
<1>11. ListsAreCut'
  <2>1. lists <= lists' /\ lists' \in Nat
    BY <1>1, HomeCounts
  <2> QED BY <1>1, <1>9, <1>10, <2>1, HomeCounts, ListsStay
<1>12. SpinnerHasRun'
  BY <1>1, <1>8, <1>10 DEF SpinnerHasRun
<1>13. previews' \in Seq(Preview')
  <2>1. Preview \subseteq Preview'
    BY <1>1, HomeCounts DEF Preview
  <2>2. \A i \in 1..Len(previews) : previews[i] \in Preview'
    BY <2>1, HomeCounts
  <2> QED BY <1>1, <2>2, HomeCounts
<1>14. lists' \in 0..MaxExtractions
  BY <1>1, HomeCounts, HomeAssumption
<1>15. HomeTypes'
  BY <1>1, <1>13, <1>14 DEF HomeInv, HomeTypes
<1> QED BY <1>1, <1>11, <1>12, <1>15 DEF HomeInv, PreviewIsComplete

\* A batch is posted: it is the one under way, and its command the last.
LEMMA PostKeeps == ASSUME HomeInv, NEW r \in runs, PostBatch(r) PROVE HomeInv'
<1> DEFINE p == r.pending
<1>1. /\ r.step = "next" /\ p.remaining # <<>>
      /\ previews' = Append(previews, [list |-> p.list, batch |-> Head(p.remaining), status |-> "pending"])
      /\ runs' = Replace(r, Dequeued(p), "posted")
      /\ UNCHANGED <<mount, extracting, session, shown, lists, resumes>>
  BY DEF PostBatch
<1>2. r \in PreviewRun /\ p \in HomePending /\ CutInThree(p, previews, lists) /\ p.command = 0
  BY <1>1, RunOf
<1> HIDE DEF p
<1>3. PICK left \in Seq(Nat) : left = p.remaining
  BY <1>2 DEF HomePending
<1>4. /\ left # <<>> /\ Len(left) \in Nat /\ Len(left) > 0 /\ Head(left) = left[1]
      /\ Tail(left) \in Seq(Nat) /\ Len(Tail(left)) = Len(left) - 1
      /\ \A i \in 1..(Len(left) - 1) : Tail(left)[i] = left[i + 1]
  BY <1>1, <1>3
<1>5. PICK k \in Nat : k = Len(p.completed)
  BY <1>2 DEF HomePending
<1>6. /\ k + Len(left) = Batches
      /\ \A i \in 1..k : p.completed[i] = i
      /\ \A i \in 1..Len(left) : left[i] = k + i
      /\ p.list \in 1..lists
  <2>1. UnderWay(p) = 0
    BY <1>2 DEF UnderWay
  <2>2. /\ Len(p.completed) + UnderWay(p) + Len(p.remaining) = Batches /\ p.list \in 1..lists
        /\ \A i \in 1..Len(p.completed) : p.completed[i] = i
        /\ \A i \in 1..Len(p.remaining) : p.remaining[i] = Len(p.completed) + UnderWay(p) + i
    BY <1>2 DEF CutInThree
  <2>3. k + 0 + Len(left) = Batches /\ \A i \in 1..Len(left) : left[i] = k + 0 + i
    BY <1>3, <1>5, <2>1, <2>2
  <2> QED BY <1>4, <1>5, <2>2, <2>3
<1>7. Head(left) = k + 1 /\ k + 1 \in 1..Batches
  BY <1>4, <1>6
<1>8. PICK row : row = [list |-> p.list, batch |-> k + 1, status |-> "pending"]
  OBVIOUS
<1>9. row \in Preview /\ row.list = p.list /\ row.batch = k + 1
  BY <1>6, <1>7, <1>8 DEF Preview
<1>10. previews' = Append(previews, row)
  BY <1>1, <1>3, <1>7, <1>8
<1>11. /\ previews' \in Seq(Preview) /\ Len(previews') = Len(previews) + 1
       /\ \A i \in 1..Len(previews) : previews'[i] = previews[i]
       /\ previews'[Len(previews) + 1] = row
  BY <1>9, <1>10, HomeCounts
<1>12. PICK q : q = [p EXCEPT !.command = Len(previews) + 1, !.current = k + 1, !.remaining = Tail(left)]
  OBVIOUS
<1>13. Dequeued(p) = q
  BY <1>2, <1>3, <1>7, <1>12 DEF Dequeued, HomePending
<1>14. /\ q \in HomePending /\ q.list = p.list /\ q.command = Len(previews) + 1 /\ q.current = k + 1
       /\ q.remaining = Tail(left) /\ q.completed = p.completed
  <2>1. p = [list |-> p.list, command |-> p.command, current |-> p.current,
             remaining |-> p.remaining, completed |-> p.completed]
    BY <1>2 DEF HomePending
  <2>2. q = [list |-> p.list, command |-> Len(previews) + 1, current |-> k + 1,
             remaining |-> Tail(left), completed |-> p.completed]
    BY <1>12, <2>1
  <2>3. /\ p.list \in Nat /\ p.completed \in Seq(Nat) /\ Tail(left) \in Seq(Nat)
        /\ Len(previews) + 1 \in Nat /\ k + 1 \in Nat
    BY <1>2, <1>4, HomeCounts DEF HomePending
  <2> QED BY <2>2, <2>3 DEF HomePending
<1>15. CutInThree(q, previews', lists')
  <2>1. UnderWay(q) = 1 /\ q.command # 0
    BY <1>14, HomeCounts DEF UnderWay
  <2>2. Len(q.completed) + UnderWay(q) + Len(q.remaining) = Batches
    BY <1>4, <1>5, <1>6, <1>14, <2>1
  <2>3. \A i \in 1..Len(q.remaining) : q.remaining[i] = Len(q.completed) + UnderWay(q) + i
    BY <1>4, <1>5, <1>6, <1>14, <2>1
  <2>4. q.command \in 1..Len(previews') /\ previews'[q.command] = row
    BY <1>11, <1>14, HomeCounts
  <2> QED BY <1>1, <1>5, <1>6, <1>9, <1>14, <2>2, <2>3, <2>4 DEF CutInThree
<1>16. (\A x \in runs' \ runs : RunIsCut(x, previews', lists')) /\ SpinnerHasRun'
  <2>1. runs' = Replace(r, q, "posted") /\ q.command # 0
    BY <1>1, <1>13, <1>14, HomeCounts
  <2> QED BY <1>1, <1>15, <2>1, Replaced
<1>17. ListsAreCut'
  <2>1. lists <= lists' /\ lists' \in Nat /\ Len(previews') \in Nat /\ Len(previews) <= Len(previews')
    BY <1>1, <1>11, HomeCounts
  <2> QED BY <1>1, <1>11, <1>16, <2>1, ListsStay
<1>18. HomeTypes'
  <2>1. Preview' = Preview
    BY <1>1 DEF Preview
  <2> QED BY <1>1, <1>11, <2>1 DEF HomeInv, HomeTypes
<1> QED BY <1>1, <1>16, <1>17, <1>18 DEF HomeInv, PreviewIsComplete

LEMMA KeepKeeps == ASSUME HomeInv, NEW r \in runs, KeepBatch(r) PROVE HomeInv'
<1>1. /\ r.step = "posted" /\ session' = r.pending /\ runs' = Replace(r, r.pending, "wait")
      /\ UNCHANGED <<mount, extracting, previews, shown, lists, resumes>>
  BY DEF KeepBatch
<1>2. CutInThree(r.pending, previews', lists') /\ r.pending.command # 0
  BY <1>1, RunOf
<1>3. (\A x \in runs' \ runs : RunIsCut(x, previews', lists')) /\ SpinnerHasRun'
  BY <1>1, <1>2, Replaced
<1>4. ListsAreCut' /\ previews' \in Seq(Preview')
  BY <1>1, <1>2, <1>3, SameCommands
<1> QED BY <1>1, <1>3, <1>4 DEF HomeInv, HomeTypes, PreviewIsComplete

\* An answer is put behind those before it.
LEMMA PollKeeps == ASSUME HomeInv, NEW r \in runs, PollBatch(r) PROVE HomeInv'
<1> DEFINE p == r.pending
<1>1. /\ r.step = "wait" /\ session' = Answered(p) /\ runs' = Replace(r, Answered(p), "next")
      /\ UNCHANGED <<mount, extracting, previews, shown, lists, resumes>>
  BY DEF PollBatch
<1>2. r \in PreviewRun /\ p \in HomePending /\ CutInThree(p, previews, lists) /\ p.command # 0
  BY <1>1, RunOf
<1> HIDE DEF p
<1>3. PICK done \in Seq(Nat) : done = p.completed
  BY <1>2 DEF HomePending
<1>4. /\ Len(done) \in Nat /\ p.current = Len(done) + 1 /\ UnderWay(p) = 1
      /\ Len(done) + 1 + Len(p.remaining) = Batches /\ Len(p.remaining) \in Nat
      /\ \A i \in 1..Len(done) : done[i] = i
      /\ \A i \in 1..Len(p.remaining) : p.remaining[i] = Len(done) + 1 + i
  BY <1>2, <1>3 DEF CutInThree, UnderWay, HomePending
<1>5. PICK more : more = Append(done, Len(done) + 1)
  OBVIOUS
<1>6. more \in Seq(Nat) /\ Len(more) = Len(done) + 1 /\ \A i \in 1..Len(more) : more[i] = i
  BY <1>4, <1>5
<1>7. PICK q : q = [p EXCEPT !.command = 0, !.current = 0, !.completed = more]
  OBVIOUS
<1>8. Answered(p) = q
  BY <1>2, <1>3, <1>4, <1>5, <1>7 DEF Answered, HomePending
<1>9. /\ q \in HomePending /\ q.list = p.list /\ q.command = 0 /\ q.remaining = p.remaining /\ q.completed = more
  BY <1>2, <1>6, <1>7 DEF HomePending
<1>10. CutInThree(q, previews', lists')
  <2>1. UnderWay(q) = 0 /\ p.list \in 1..lists
    BY <1>2, <1>9 DEF UnderWay, CutInThree
  <2>2. PICK k \in Nat : k = Len(done)
    BY <1>4
  <2>3. PICK left \in Seq(Nat) : left = p.remaining
    BY <1>2 DEF HomePending
  <2>4. /\ k + 1 + Len(left) = Batches /\ \A i \in 1..Len(left) : left[i] = k + 1 + i
        /\ Len(more) = k + 1
    BY <1>4, <1>6, <2>2, <2>3
  <2>5. Len(more) + 0 + Len(left) = Batches /\ \A i \in 1..Len(left) : left[i] = Len(more) + 0 + i
    BY <2>4
  <2> QED BY <1>1, <1>6, <1>9, <2>1, <2>3, <2>5 DEF CutInThree
<1>11. (\A x \in runs' \ runs : RunIsCut(x, previews', lists')) /\ SpinnerHasRun'
  BY <1>1, <1>8, <1>9, <1>10, Replaced
<1>12. ListsAreCut' /\ previews' \in Seq(Preview')
  BY <1>1, <1>8, <1>10, <1>11, SameCommands
<1> QED BY <1>1, <1>11, <1>12 DEF HomeInv, HomeTypes, PreviewIsComplete

LEMMA FinishKeeps == ASSUME HomeInv, NEW r \in runs, Finish(r) \/ FailRun(r) PROVE HomeInv'
<1>1. /\ runs' = runs \ {r} /\ session' \in {Nothing, session}
      /\ UNCHANGED <<mount, previews, lists, resumes>>
  BY DEF Finish, FailRun
<1>2. extracting' = (extracting /\ r.mount # mount)
  BY DEF Finish, FailRun, StillExtracting
<1>3. extracting' \in BOOLEAN
  BY <1>2
<1>4. SpinnerHasRun'
  BY <1>1, <1>2 DEF HomeInv, SpinnerHasRun
<1>5. shown' = shown \/ shown' = All
  <2>1. CASE Finish(r)
    <3>1. r.pending.completed = All
      BY <2>1, RunOf, CutIsWhole DEF Finish, HomeInv
    <3> QED BY <2>1, <3>1 DEF Finish
  <2>2. CASE FailRun(r)
    BY <2>2 DEF FailRun
  <2> QED BY <2>1, <2>2
<1>6. ListsAreCut' /\ previews' \in Seq(Preview')
  BY <1>1, SameCommands
<1> QED BY <1>1, <1>3, <1>4, <1>5, <1>6 DEF HomeInv, HomeTypes, PreviewIsComplete

LEMMA AnswerKeeps == ASSUME HomeInv, NEW i \in DOMAIN previews, AnswerPreview(i) PROVE HomeInv'
<1>1. /\ previews' = [previews EXCEPT ![i].status = "completed"]
      /\ UNCHANGED <<mount, extracting, session, runs, shown, lists, resumes>>
  BY DEF AnswerPreview
<1>2. PICK row : row = [previews[i] EXCEPT !.status = "completed"]
  OBVIOUS
<1>3. previews[i] \in Preview
  BY HomeCounts
<1>4. row \in Preview /\ row.list = previews[i].list /\ row.batch = previews[i].batch
  BY <1>2, <1>3 DEF Preview
<1>5. previews' = [previews EXCEPT ![i] = row]
  BY <1>1, <1>2
<1>6. /\ previews' \in Seq(Preview) /\ Len(previews') = Len(previews)
      /\ \A j \in 1..Len(previews) : previews'[j].list = previews[j].list /\ previews'[j].batch = previews[j].batch
  BY <1>4, <1>5, HomeCounts
<1>7. ListsAreCut'
  <2>1. lists <= lists' /\ lists' \in Nat /\ Len(previews') \in Nat /\ Len(previews) <= Len(previews')
    BY <1>1, <1>6, HomeCounts
  <2> QED BY <1>1, <1>6, <2>1, ListsStay
<1>8. Preview' = Preview
  BY <1>1 DEF Preview
<1> QED BY <1>1, <1>6, <1>7, <1>8 DEF HomeInv, HomeTypes, SpinnerHasRun, PreviewIsComplete

\* What the session storage holds is taken up as it was kept.
LEMMA TakeUpKeeps ==
    ASSUME HomeInv, NEW others, NEW m \in Nat, others \in {runs, {}}, TakeUp(others, m),
           resumes < MaxResumes, m # 0, m <= resumes + 2, others = runs \/ m # mount,
           UNCHANGED <<session, previews, shown, lists>>
    PROVE  HomeInv'
<1>1. /\ mount' = m /\ resumes' = resumes + 1
      /\ runs' = others \cup (IF session = Nothing THEN {} ELSE {Started(lists + resumes + 1, m, session)})
      /\ extracting' = (session # Nothing \/ (extracting /\ m = mount))
  BY DEF TakeUp
<1>2. extracting' \in BOOLEAN
  BY <1>1
<1>3. PICK q : q = Started(lists + resumes + 1, m, session)
  OBVIOUS
<1>4. session # Nothing => RunIsCut(q, previews, lists) /\ q.mount = m
  <2> SUFFICES ASSUME session # Nothing PROVE RunIsCut(q, previews, lists) /\ q.mount = m
    OBVIOUS
  <2>1. CutInThree(session, previews, lists) /\ session \in HomePending
    BY DEF HomeInv, ListsAreCut, CutInThree
  <2>2. PICK step \in {"wait", "next"} :
           /\ q = [number |-> lists + resumes + 1, mount |-> m, pending |-> session, step |-> step]
           /\ session.command = 0 <=> step = "next"
    BY <1>3 DEF Started
  <2>3. q \in PreviewRun
    BY <2>1, <2>2, HomeCounts DEF PreviewRun
  <2> QED BY <2>1, <2>2, <2>3 DEF RunIsCut
<1>5. \A r \in runs' \ runs : RunIsCut(r, previews, lists)
  BY <1>1, <1>3, <1>4
<1>6. ListsAreCut' /\ previews' \in Seq(Preview')
  BY <1>5, SameCommands
<1>7. SpinnerHasRun'
  <2> SUFFICES ASSUME extracting' PROVE \E r \in runs' : r.mount = m
    BY <1>1 DEF SpinnerHasRun
  <2>1. CASE session # Nothing
    BY <1>1, <1>3, <1>4, <2>1
  <2>2. CASE session = Nothing
    <3>1. extracting /\ m = mount
      BY <1>1, <2>2
    <3>2. others = runs
      BY <3>1
    <3>3. \E r \in runs : r.mount = mount
      BY <3>1 DEF HomeInv, SpinnerHasRun
    <3> QED BY <1>1, <3>1, <3>2, <3>3
  <2> QED BY <2>1, <2>2
<1>8. mount' \in 0..(resumes' + 1) /\ resumes' \in 0..MaxResumes /\ (mount' = 0 => resumes' < MaxResumes)
  BY <1>1, HomeCounts, HomeAssumption
<1> QED BY <1>1, <1>2, <1>6, <1>7, <1>8 DEF HomeInv, HomeTypes, PreviewIsComplete

LEMMA HomeStep == HomeInv /\ [HomeNext]_homeVars => HomeInv'
<1> SUFFICES ASSUME HomeInv, [HomeNext]_homeVars PROVE HomeInv'
  OBVIOUS
<1>1. CASE UNCHANGED homeVars
  <2>1. ListsAreCut' /\ previews' \in Seq(Preview')
    BY <1>1, SameCommands DEF homeVars
  <2> QED BY <1>1, <2>1 DEF homeVars, HomeInv, HomeTypes, SpinnerHasRun, PreviewIsComplete
<1>2. CASE Extract
  BY <1>2, ExtractKeeps
<1>3. CASE Resume
  <2>1. mount # 0 /\ resumes < MaxResumes /\ TakeUp(runs, mount) /\ UNCHANGED <<session, previews, shown, lists>>
    BY <1>3 DEF Resume
  <2>2. mount \in Nat /\ mount <= resumes + 2
    BY HomeCounts DEF HomeInv, HomeTypes
  <2> QED BY <2>1, <2>2, TakeUpKeeps
<1>4. CASE Leave
  <2>1. ListsAreCut' /\ previews' \in Seq(Preview')
    BY <1>4, SameCommands DEF Leave
  <2>2. mount' = 0 /\ mount' \in 0..(resumes' + 1) /\ resumes' < MaxResumes
    BY <1>4, HomeCounts DEF Leave
  <2> QED BY <1>4, <2>1, <2>2 DEF Leave, HomeInv, HomeTypes, SpinnerHasRun, PreviewIsComplete
<1>5. CASE Return
  <2>1. mount = 0 /\ TakeUp(runs, resumes + 2) /\ UNCHANGED <<session, previews, shown, lists>>
    BY <1>5 DEF Return
  <2>2. resumes < MaxResumes /\ resumes + 2 \in Nat /\ resumes + 2 # 0
    BY <2>1, HomeCounts DEF HomeInv, HomeTypes
  <2> QED BY <2>1, <2>2, HomeCounts, TakeUpKeeps
<1>6. CASE ReloadPage
  <2>1. resumes < MaxResumes /\ TakeUp({}, resumes + 2) /\ UNCHANGED <<session, previews, shown, lists>>
    BY <1>6 DEF ReloadPage
  <2>2. resumes + 2 \in Nat /\ resumes + 2 # 0 /\ resumes + 2 # mount
    BY HomeCounts DEF HomeInv, HomeTypes
  <2> QED BY <2>1, <2>2, HomeCounts, TakeUpKeeps
<1>7. CASE Clear
  <2>1. ListsAreCut' /\ previews' \in Seq(Preview')
    BY <1>7, SameCommands DEF Clear
  <2> QED BY <1>7, <2>1 DEF Clear, HomeInv, HomeTypes, SpinnerHasRun, PreviewIsComplete
<1>8. ASSUME NEW r \in runs, RunSteps(r) PROVE HomeInv'
  BY <1>8, PostKeeps, KeepKeeps, PollKeeps, FinishKeeps DEF RunSteps
<1>9. ASSUME NEW i \in DOMAIN previews, AnswerPreview(i) PROVE HomeInv'
  BY <1>9, AnswerKeeps
<1> QED BY <1>1, <1>2, <1>3, <1>4, <1>5, <1>6, <1>7, <1>8, <1>9 DEF HomeNext

\* An extraction that is interrupted is resumed with every batch, and the review shows them
\* all, whichever runs share the list; a spinner has a run behind it (runPreviewBatch).
THEOREM ExtractionsAreWhole == HomeSpec => [](ExtractionResumes /\ HomeTypeOK)
<1>1. HomeInv => SessionIsResumable
  <2> SUFFICES ASSUME HomeInv, session # Nothing PROVE SessionIsResumable
    BY DEF SessionIsResumable
  <2>1. CutInThree(session, previews, lists) /\ DOMAIN previews = 1..Len(previews)
    BY HomeCounts DEF HomeInv, ListsAreCut
  <2> QED BY <2>1, CutIsWhole DEF SessionIsResumable, HomeInv, CutInThree
<1>2. HomeInv => HomeTypeOK
  <2> SUFFICES ASSUME HomeInv PROVE HomeTypeOK
    OBVIOUS
  <2>1. mount \in 0..(MaxResumes + 1) /\ resumes \in 0..MaxResumes /\ lists \in 0..MaxExtractions
    BY HomeAssumption DEF HomeInv, HomeTypes
  <2>2. previews \in Seq([list: 1..lists, batch: 1..Batches, status: {"pending", "completed"}])
    BY DEF HomeInv, HomeTypes, Preview
  <2>3. \A r \in runs : r.step \in {"next", "posted", "wait"} /\ (r.pending.command = 0) = (r.step = "next")
    BY RunOf DEF PreviewRun
  <2>4. mount # 0 /\ extracting => runs # {}
    BY DEF HomeInv, SpinnerHasRun
  <2>5. extracting \in BOOLEAN
    BY DEF HomeInv, HomeTypes
  <2> QED BY <2>1, <2>2, <2>3, <2>4, <2>5 DEF HomeTypeOK
<1>3. HomeInv => ExtractionResumes /\ HomeTypeOK
  BY <1>1, <1>2 DEF HomeInv, ExtractionResumes
<1> QED BY <1>3, HomeStarts, HomeStep, PTL DEF HomeSpec

-----------------------------------------------------------------------------
(* The watchlist of Lustre Watch.                                          *)

VoidKinds == {"open", "reload", "save", "undo", "watchlist", "toggle", "remove", "download", "extract"}

VoidCall ==
    [n: Nat, kind: VoidKinds, scene: VoidScenes, watched: BOOLEAN, clean: SUBSET VoidScenes,
     step: {"sent", "done", "patch", "patched", "load", "read"}, read: [VoidScenes -> Seq(BOOLEAN)]]

\* Which steps a call of its kind takes.
CallShape(c) ==
    /\ c.kind \in {"open", "reload"} => Loads(c)
    /\ Loads(c) => c.kind \in {"open", "reload", "save", "undo"}
    /\ c.step \in {"patch", "patched"} => c.kind = "undo"
    /\ c.kind \in {"download", "extract"} => c.step = "sent"

VoidTypes ==
    /\ rows \in [VoidScenes -> [state : {"none", "live", "deleted"}, watched : BOOLEAN]]
    /\ listed \in [VoidScenes -> Seq(BOOLEAN)]
    /\ \A c \in voidCalls : c \in VoidCall /\ CallShape(c)
    /\ \A u \in undos : u.scene \in VoidScenes /\ u.watched \in BOOLEAN
    /\ picks \in [Lists -> SUBSET VoidScenes]
    /\ tangled \subseteq VoidScenes
    /\ spent \in Nat

\* Two calls about one scene have tangled it.
CallsTangle ==
    \A o, c \in voidCalls : \A s \in VoidScenes :
        o # c /\ s \in Footprint(o) /\ s \in Footprint(c) => s \in tangled

\* A read of the list is good for the scenes that are its own, and tells of every other
\* one that it is tangled.
ReadsKnow ==
    \A c \in voidCalls : Loads(c) =>
        /\ \A s \in c.clean : \A o \in voidCalls : o # c => s \notin Footprint(o)
        /\ \A s \in VoidScenes : s \notin c.clean => s \in tangled
        /\ c.step = "read" => \A s \in c.clean : c.read[s] = Entries(s)

\* What is shown, and what is stored, of a scene that only this call is about.  The entry of
\* one that is being saved is not known, but there is at most one.
ShownAs(c, s, seen, filed) ==
    CASE c.step = "sent" /\ c.kind = "toggle" -> filed = <<c.watched>> /\ seen = <<~c.watched>>
      [] c.step = "sent" /\ c.kind = "remove" -> filed = <<c.watched>> /\ seen = <<>>
      [] c.step # "sent" /\ Saves(c) /\ s = c.scene -> Len(seen) <= 1
      [] OTHER -> seen = filed

ShownIsStored ==
    \A s \in VoidScenes : s \notin tangled =>
        /\ \A c \in voidCalls : s \in Footprint(c) => ShownAs(c, s, listed[s], Entries(s))
        /\ (\A c \in voidCalls : s \notin Footprint(c)) => listed[s] = Entries(s)

BatchKinds == {"download", "extract", "watchlist"}

\* The calls of a batch are those it has sent; its reload is alone.  What is being extracted
\* has a call, or will have one.
BatchIsSent ==
    /\ batch \in [action: BatchKinds \cup {"none", "stuck"}, of: Lists,
                  todo: SUBSET VoidScenes, bad: SUBSET VoidScenes]
    /\ batch.todo # {} => batch.action \in BatchKinds
    /\ batch.todo \cap batch.bad = {}
    /\ \A c \in voidCalls : InBatch(c) =>
          /\ c.scene \notin batch.todo
          /\ c.kind = batch.action \/ (c.kind = "reload" /\ batch.action = "watchlist" /\ batch.todo = {})
          /\ c.kind = "reload" => \A o \in voidCalls : InBatch(o) => o = c
    /\ results \in [VoidScenes -> {"none", "extracting", "resolved", "failed"}]
    /\ \A s \in VoidScenes : results[s] = "extracting" =>
          /\ batch.action = "extract"
          /\ s \in batch.todo \/ \E c \in voidCalls : InBatch(c) /\ c.scene = s

VoidInv == VoidTypes /\ CallsTangle /\ ReadsKnow /\ ShownIsStored /\ BatchIsSent

\* What the calls are about.
LEMMA FootprintOf ==
    ASSUME NEW c \in VoidCall
    PROVE  /\ Footprint(c) \subseteq VoidScenes
           /\ \A d : d.kind = c.kind /\ d.scene = c.scene /\ d.step = c.step => Footprint(d) = Footprint(c)
BY DEF Footprint, Loads, VoidCall

\* A call with another step and other clean scenes.
LEMMA Changed ==
    ASSUME NEW c \in VoidCall, NEW X \in SUBSET VoidScenes,
           NEW step \in {"sent", "done", "patch", "patched", "load", "read"}
    PROVE  LET d == [[c EXCEPT !.step = step] EXCEPT !.clean = X]
               e == [c EXCEPT !.clean = X]
           IN  /\ d \in VoidCall /\ d.n = c.n /\ d.kind = c.kind /\ d.scene = c.scene /\ d.watched = c.watched
               /\ d.read = c.read /\ d.step = step /\ d.clean = X
               /\ e \in VoidCall /\ e.n = c.n /\ e.kind = c.kind /\ e.scene = c.scene /\ e.watched = c.watched
               /\ e.read = c.read /\ e.step = c.step /\ e.clean = X
BY DEF VoidCall

\* The call is the same but for its clean scenes.
Like(d, o) ==
    /\ d \in VoidCall /\ d.kind = o.kind /\ d.scene = o.scene /\ d.watched = o.watched
    /\ d.step = o.step /\ d.read = o.read

LEMMA LikeIs ==
    ASSUME NEW o \in VoidCall, NEW d, Like(d, o)
    PROVE  /\ Footprint(d) = Footprint(o) /\ (Loads(d) <=> Loads(o)) /\ (InBatch(d) <=> InBatch(o))
           /\ CallShape(d) <=> CallShape(o)
           /\ \A s, seen, filed : ShownAs(d, s, seen, filed) <=> ShownAs(o, s, seen, filed)
<1>1. Footprint(d) = Footprint(o)
  BY FootprintOf DEF Like
<1>2. (Loads(d) <=> Loads(o)) /\ (InBatch(d) <=> InBatch(o)) /\ (CallShape(d) <=> CallShape(o))
  BY DEF Like, Loads, InBatch, CallShape
<1>3. ASSUME NEW s, NEW seen, NEW filed
      PROVE  ShownAs(d, s, seen, filed) <=> ShownAs(o, s, seen, filed)
  BY DEF Like, ShownAs, Saves
<1> QED BY <1>1, <1>2, <1>3

\* What is left of a call when others are about X.
Kept(o, X) == [o EXCEPT !.clean = @ \ X]

LEMMA KeptIs ==
    ASSUME NEW o \in VoidCall, NEW X
    PROVE  Like(Kept(o, X), o) /\ Kept(o, X).clean = o.clean \ X
BY DEF Kept, Like, VoidCall

\* What Meets makes of the calls.
LEMMA MeetsIs ==
    ASSUME NEW others \in SUBSET VoidCall, NEW c \in VoidCall, Meets(others, c)
    PROVE  \E e \in VoidCall :
              /\ voidCalls' = {Kept(o, Footprint(c)) : o \in others} \cup {e}
              /\ Like(e, c)
              /\ e.clean = {s \in VoidScenes : \A o \in others : s \notin Footprint(o)}
              /\ tangled' = tangled \cup {s \in Footprint(c) : \E o \in others : s \in Footprint(o)}
<1>1. PICK theirs : theirs = UNION {Footprint(o) : o \in others}
  OBVIOUS
<1>2. PICK e : e = [c EXCEPT !.clean = VoidScenes \ theirs]
  OBVIOUS
<1>3. voidCalls' = {Kept(o, Footprint(c)) : o \in others} \cup {e} /\ tangled' = tangled \cup (Footprint(c) \cap theirs)
  BY <1>1, <1>2 DEF Meets, Kept
<1>4. theirs = {s \in VoidScenes : \E o \in others : s \in Footprint(o)}
  BY <1>1, FootprintOf
<1>5. Like(e, c) /\ e.clean = VoidScenes \ theirs
  BY <1>2 DEF Like, VoidCall
<1>6. tangled' = tangled \cup {s \in Footprint(c) : \E o \in others : s \in Footprint(o)}
  BY <1>3, <1>4, FootprintOf
<1>7. e.clean = {s \in VoidScenes : \A o \in others : s \notin Footprint(o)}
  BY <1>4, <1>5
<1> QED BY <1>3, <1>5, <1>6, <1>7 DEF Like

\* A call that meets others tangles what is theirs too, and reads know.
LEMMA MeetingKeeps ==
    ASSUME VoidInv, NEW others \in SUBSET voidCalls, NEW c \in VoidCall, CallShape(c), c.step # "read",
           Meets(others, c),
           \A s \in VoidScenes : s \notin Footprint(c) =>
               /\ Entries(s)' = Entries(s) /\ listed'[s] = listed[s]
               /\ \A o \in voidCalls \ others : s \notin Footprint(o),
           \A s \in Footprint(c) : s \notin tangled /\ (\A o \in others : s \notin Footprint(o)) =>
               ShownAs(c, s, listed'[s], Entries(s)')
    PROVE  /\ \A d \in voidCalls' : d \in VoidCall /\ CallShape(d)
           /\ tangled' \subseteq VoidScenes
           /\ CallsTangle' /\ ReadsKnow' /\ ShownIsStored'
<1>1. others \subseteq VoidCall
  BY DEF VoidInv, VoidTypes
<1>2. PICK e \in VoidCall :
         /\ voidCalls' = {Kept(o, Footprint(c)) : o \in others} \cup {e}
         /\ Like(e, c)
         /\ e.clean = {s \in VoidScenes : \A o \in others : s \notin Footprint(o)}
         /\ tangled' = tangled \cup {s \in Footprint(c) : \E o \in others : s \in Footprint(o)}
  BY <1>1, MeetsIs
<1>3. \A o \in others : /\ Like(Kept(o, Footprint(c)), o) /\ Kept(o, Footprint(c)).clean = o.clean \ Footprint(c)
                        /\ Footprint(Kept(o, Footprint(c))) = Footprint(o) /\ (Loads(Kept(o, Footprint(c))) <=> Loads(o))
  BY <1>1, KeptIs, LikeIs
<1>4. /\ Footprint(e) = Footprint(c) /\ (Loads(e) <=> Loads(c)) /\ CallShape(e) /\ e.step # "read"
      /\ Footprint(c) \subseteq VoidScenes
  BY <1>2, LikeIs, FootprintOf DEF Like
<1>5. tangled' \subseteq VoidScenes
  BY <1>2, <1>4 DEF VoidInv, VoidTypes
<1>6. ASSUME NEW d \in voidCalls' PROVE d \in VoidCall /\ CallShape(d)
  <2>1. CASE d = e
    BY <1>2, <1>4, <2>1
  <2>2. ASSUME NEW o \in others, d = Kept(o, Footprint(c)) PROVE d \in VoidCall /\ CallShape(d)
    <3>1. o \in VoidCall /\ CallShape(o)
      BY DEF VoidInv, VoidTypes
    <3> QED BY <1>3, <2>2, <3>1, LikeIs DEF Like
  <2> QED BY <1>2, <2>1, <2>2
<1>7. CallsTangle'
  <2> SUFFICES ASSUME NEW d1 \in voidCalls', NEW d2 \in voidCalls', NEW s \in VoidScenes,
                      d1 # d2, s \in Footprint(d1), s \in Footprint(d2)
               PROVE  s \in tangled'
    BY DEF CallsTangle, Footprint, Loads
  <2>1. CASE d1 = e \/ d2 = e
    <3>1. PICK o \in others : s \in Footprint(o) /\ s \in Footprint(c)
      BY <1>2, <1>3, <1>4, <2>1
    <3> QED BY <1>2, <3>1
  <2>2. ASSUME NEW o1 \in others, NEW o2 \in others, d1 = Kept(o1, Footprint(c)), d2 = Kept(o2, Footprint(c)) PROVE s \in tangled'
    <3>1. o1 # o2 /\ s \in Footprint(o1) /\ s \in Footprint(o2)
      BY <1>3, <2>2
    <3>2. s \in tangled
      BY <3>1 DEF VoidInv, CallsTangle
    <3> QED BY <1>2, <3>2
  <2> QED BY <1>2, <2>1, <2>2
<1>8. ReadsKnow'
  <2> SUFFICES ASSUME NEW d \in voidCalls', Loads(d)
               PROVE  /\ \A s \in d.clean : \A x \in voidCalls' : x # d => s \notin Footprint(x)
                      /\ \A s \in VoidScenes : s \notin d.clean => s \in tangled'
                      /\ d.step = "read" => \A s \in d.clean : d.read[s] = Entries(s)'
    BY DEF ReadsKnow, Footprint, Loads
  <2>1. CASE d = e
    <3>1. Footprint(c) = VoidScenes
      BY <1>4, <2>1 DEF Footprint, Loads, CallShape
    <3> QED BY <1>2, <1>3, <1>4, <2>1, <3>1
  <2>2. ASSUME NEW o \in others, d = Kept(o, Footprint(c))
        PROVE  /\ \A s \in d.clean : \A x \in voidCalls' : x # d => s \notin Footprint(x)
               /\ \A s \in VoidScenes : s \notin d.clean => s \in tangled'
               /\ d.step = "read" => \A s \in d.clean : d.read[s] = Entries(s)'
    <3>1. /\ Loads(o) /\ d.clean = o.clean \ Footprint(c) /\ d.step = o.step /\ d.read = o.read
          /\ o \in VoidCall /\ CallShape(o)
      BY <1>1, <1>3, <2>2 DEF Like, VoidInv, VoidTypes
    <3>2. Footprint(o) = VoidScenes
      BY <3>1 DEF Footprint, CallShape
    <3>3. /\ \A s \in o.clean : \A x \in voidCalls : x # o => s \notin Footprint(x)
          /\ \A s \in VoidScenes : s \notin o.clean => s \in tangled
          /\ o.step = "read" => \A s \in o.clean : o.read[s] = Entries(s)
      BY <3>1 DEF VoidInv, ReadsKnow
    <3>4. ASSUME NEW s \in d.clean, NEW x \in voidCalls', x # d PROVE s \notin Footprint(x)
      BY <1>2, <1>3, <1>4, <2>2, <3>1, <3>3, <3>4
    <3>5. \A s \in VoidScenes : s \notin d.clean => s \in tangled'
      BY <1>2, <3>1, <3>2, <3>3
    <3>6. d.step = "read" => \A s \in d.clean : d.read[s] = Entries(s)'
      BY <3>1, <3>3 DEF VoidCall
    <3> QED BY <3>4, <3>5, <3>6
  <2> QED BY <1>2, <2>1, <2>2
<1>9. ShownIsStored'
  <2> SUFFICES ASSUME NEW s \in VoidScenes, s \notin tangled'
               PROVE  /\ \A d \in voidCalls' : s \in Footprint(d) => ShownAs(d, s, listed'[s], Entries(s)')
                      /\ (\A d \in voidCalls' : s \notin Footprint(d)) => listed'[s] = Entries(s)'
    BY DEF ShownIsStored, Footprint, Loads, ShownAs, Saves
  <2>1. s \notin tangled /\ ~(s \in Footprint(c) /\ \E o \in others : s \in Footprint(o))
    BY <1>2
  <2>2. CASE s \in Footprint(c)
    <3>1. \A d \in voidCalls' : s \in Footprint(d) => d = e
      BY <1>2, <1>3, <2>1, <2>2
    <3>2. ShownAs(e, s, listed'[s], Entries(s)')
      BY <1>2, <2>1, <2>2, LikeIs
    <3> QED BY <1>2, <1>4, <2>2, <3>1, <3>2
  <2>3. CASE s \notin Footprint(c)
    <3>1. Entries(s)' = Entries(s) /\ listed'[s] = listed[s] /\ \A o \in voidCalls \ others : s \notin Footprint(o)
      BY <2>3
    <3>2. ASSUME NEW d \in voidCalls', s \in Footprint(d) PROVE ShownAs(d, s, listed'[s], Entries(s)')
      <4>1. PICK o \in others : d = Kept(o, Footprint(c)) /\ s \in Footprint(o)
        BY <1>2, <1>3, <1>4, <2>3, <3>2
      <4>2. ShownAs(o, s, listed[s], Entries(s))
        BY <2>1, <4>1 DEF VoidInv, ShownIsStored
      <4> QED BY <1>1, <1>3, <3>1, <4>1, <4>2, LikeIs
    <3>3. ASSUME \A d \in voidCalls' : s \notin Footprint(d) PROVE listed'[s] = Entries(s)'
      <4>1. \A o \in others : s \notin Footprint(o)
        BY <1>2, <1>3, <3>3
      <4>2. listed[s] = Entries(s)
        BY <2>1, <3>1, <4>1 DEF VoidInv, ShownIsStored
      <4> QED BY <3>1, <4>2
    <3> QED BY <3>2, <3>3
  <2> QED BY <2>2, <2>3
<1> QED BY <1>5, <1>6, <1>7, <1>8, <1>9

\* A call ends, and what it was about is tangled or shown as it is stored.
LEMMA EndKeeps ==
    ASSUME VoidInv, NEW c \in voidCalls, voidCalls' = voidCalls \ {c}, UNCHANGED rows,
           tangled \subseteq tangled', tangled' \subseteq VoidScenes,
           \A s \in VoidScenes : s \notin tangled' =>
               IF s \in Footprint(c) THEN listed'[s] = Entries(s) ELSE listed'[s] = listed[s]
    PROVE  /\ \A d \in voidCalls' : d \in VoidCall /\ CallShape(d)
           /\ CallsTangle' /\ ReadsKnow' /\ ShownIsStored'
<1>1. \A s : Entries(s)' = Entries(s)
  BY DEF Entries, Live
<1>2. \A d \in voidCalls' : d \in voidCalls /\ d # c /\ d \in VoidCall /\ CallShape(d)
  BY DEF VoidInv, VoidTypes
<1>3. CallsTangle'
  BY <1>2 DEF VoidInv, CallsTangle, Footprint, Loads
<1>4. ReadsKnow'
  <2> SUFFICES ASSUME NEW d \in voidCalls', Loads(d)
               PROVE  /\ \A s \in d.clean : \A x \in voidCalls' : x # d => s \notin Footprint(x)
                      /\ \A s \in VoidScenes : s \notin d.clean => s \in tangled'
                      /\ d.step = "read" => \A s \in d.clean : d.read[s] = Entries(s)'
    BY DEF ReadsKnow, Footprint, Loads
  <2> QED BY <1>1, <1>2 DEF VoidInv, ReadsKnow
<1>5. ShownIsStored'
  <2> SUFFICES ASSUME NEW s \in VoidScenes, s \notin tangled'
               PROVE  /\ \A d \in voidCalls' : s \in Footprint(d) => ShownAs(d, s, listed'[s], Entries(s)')
                      /\ (\A d \in voidCalls' : s \notin Footprint(d)) => listed'[s] = Entries(s)'
    BY DEF ShownIsStored, Footprint, Loads, ShownAs, Saves
  <2>1. s \notin tangled
    OBVIOUS
  <2>2. CASE s \in Footprint(c)
    <3>1. \A d \in voidCalls' : s \notin Footprint(d)
      BY <1>2, <2>1, <2>2 DEF VoidInv, CallsTangle
    <3> QED BY <1>1, <2>2, <3>1
  <2>3. CASE s \notin Footprint(c)
    <3>1. listed'[s] = listed[s]
      BY <2>3
    <3>2. \A d \in voidCalls : s \in Footprint(d) => d \in voidCalls'
      BY <2>3
    <3>3. /\ \A d \in voidCalls : s \in Footprint(d) => ShownAs(d, s, listed[s], Entries(s))
          /\ (\A d \in voidCalls : s \notin Footprint(d)) => listed[s] = Entries(s)
      BY <2>1 DEF VoidInv, ShownIsStored
    <3> QED BY <1>1, <1>2, <3>1, <3>2, <3>3
  <2> QED BY <2>2, <2>3
<1> QED BY <1>2, <1>3, <1>4, <1>5

\* The calls of the batch are as they were.
LEMMA BatchStays ==
    ASSUME VoidInv, UNCHANGED <<batch, results>>,
           NEW others \in SUBSET voidCalls, NEW c \in VoidCall, Meets(others, c),
           \A o \in voidCalls \ others : o.kind = c.kind /\ o.scene = c.scene /\ \A x \in others : x # o,
           InBatch(c) => \E o \in voidCalls \ others : TRUE
    PROVE  BatchIsSent'
<1>1. others \subseteq VoidCall
  BY DEF VoidInv, VoidTypes
<1>2. PICK e \in VoidCall : voidCalls' = {Kept(o, Footprint(c)) : o \in others} \cup {e} /\ Like(e, c)
  BY <1>1, MeetsIs
<1>3. \A o \in others : Like(Kept(o, Footprint(c)), o) /\ (InBatch(Kept(o, Footprint(c))) <=> InBatch(o))
  BY <1>1, KeptIs, LikeIs
<1>4. InBatch(e) <=> InBatch(c)
  BY <1>2, LikeIs
\* Every call of the batch was one of it.
<1>5. ASSUME NEW d \in voidCalls', InBatch(d)
      PROVE  \E o \in voidCalls : /\ InBatch(o) /\ o.kind = d.kind /\ o.scene = d.scene
                                  /\ (d = Kept(o, Footprint(c)) /\ o \in others) \/ (d = e /\ o \notin others)
  <2>1. CASE d = e
    <3>1. PICK o \in voidCalls \ others : TRUE
      BY <1>4, <1>5, <2>1
    <3>2. o.kind = d.kind /\ o.scene = d.scene
      BY <1>2, <2>1 DEF Like
    <3> QED BY <1>5, <2>1, <3>2 DEF InBatch
  <2>2. ASSUME NEW o \in others, d = Kept(o, Footprint(c))
        PROVE  InBatch(o) /\ o.kind = d.kind /\ o.scene = d.scene
    BY <1>3, <1>5, <2>2 DEF Like
  <2> QED BY <1>2, <2>1, <2>2
<1>6. ASSUME NEW o \in voidCalls, InBatch(o)
      PROVE  \E d \in voidCalls' : InBatch(d) /\ d.scene = o.scene
  <2>1. CASE o \in others
    BY <1>2, <1>3, <1>6, <2>1 DEF Like
  <2>2. CASE o \notin others
    <3>1. o.kind = c.kind /\ o.scene = c.scene
      BY <2>2
    <3> QED BY <1>2, <1>6, <3>1 DEF InBatch, Like
  <2> QED BY <2>1, <2>2
<1>7. ASSUME NEW d \in voidCalls', InBatch(d)
      PROVE  /\ d.scene \notin batch.todo
             /\ d.kind = batch.action \/ (d.kind = "reload" /\ batch.action = "watchlist" /\ batch.todo = {})
             /\ d.kind = "reload" => \A x \in voidCalls' : InBatch(x) => x = d
  <2>1. PICK o \in voidCalls : /\ InBatch(o) /\ o.kind = d.kind /\ o.scene = d.scene
                               /\ (d = Kept(o, Footprint(c)) /\ o \in others) \/ (d = e /\ o \notin others)
    BY <1>5, <1>7
  <2>2. ASSUME d.kind = "reload", NEW x \in voidCalls', InBatch(x) PROVE x = d
    <3>1. PICK y \in voidCalls : /\ InBatch(y)
                                 /\ (x = Kept(y, Footprint(c)) /\ y \in others) \/ (x = e /\ y \notin others)
      BY <1>5, <2>2
    <3>2. y = o
      BY <2>1, <2>2, <3>1 DEF VoidInv, BatchIsSent
    <3> QED BY <2>1, <3>1, <3>2
  <2> QED BY <2>1, <2>2 DEF VoidInv, BatchIsSent
<1>8. ASSUME NEW s \in VoidScenes, results[s] = "extracting"
      PROVE  /\ batch.action = "extract"
             /\ s \in batch.todo \/ \E d \in voidCalls' : InBatch(d) /\ d.scene = s
  BY <1>6, <1>8 DEF VoidInv, BatchIsSent
<1> QED BY <1>7, <1>8 DEF VoidInv, BatchIsSent, InBatch

\* What a new call is.
LEMMA CallIs ==
    ASSUME NEW n \in Nat, NEW kind \in VoidKinds, NEW s \in VoidScenes, NEW watched \in BOOLEAN
    PROVE  LET c == Call(n, kind, s, watched)
           IN  /\ c \in VoidCall /\ c.kind = kind /\ c.scene = s /\ c.watched = watched /\ c.clean = {}
               /\ c.step = IF kind \in {"open", "reload"} THEN "load" ELSE "sent"
               /\ CallShape(c)
<1>1. [x \in VoidScenes |-> <<>>] \in [VoidScenes -> Seq(BOOLEAN)]
  OBVIOUS
<1> QED BY <1>1 DEF Call, VoidCall, CallShape, Loads

LEMMA EntriesIs ==
    ASSUME VoidTypes, NEW s \in VoidScenes
    PROVE  /\ Entries(s) \in Seq(BOOLEAN) /\ Len(Entries(s)) <= 1
           /\ Entries(s) # <<>> => Entries(s) = <<rows[s].watched>>
<1>1. rows[s].watched \in BOOLEAN
  BY DEF VoidTypes
<1>2. PICK b \in BOOLEAN : b = rows[s].watched
  BY <1>1
<1>3. <<b>> \in Seq(BOOLEAN) /\ Len(<<b>>) = 1
  OBVIOUS
<1>4. Entries(s) = <<b>> \/ Entries(s) = <<>>
  BY <1>2 DEF Entries
<1>5. CASE Entries(s) = <<b>>
  BY <1>2, <1>3, <1>5
<1>6. CASE Entries(s) = <<>>
  BY <1>6
<1> QED BY <1>4, <1>5, <1>6

\* A button is pressed: what is shown of its scene is what was stored, or changed by it.
LEMMA PressKeeps ==
    ASSUME VoidInv, NEW kind \in {"save", "toggle", "remove", "undo"}, NEW s \in VoidScenes, NEW watched \in BOOLEAN,
           Presses(kind, s, watched), UNCHANGED <<rows, batch, results>>,
           listed' \in [VoidScenes -> Seq(BOOLEAN)],
           \A x \in VoidScenes : x # s => listed'[x] = listed[x],
           kind \in {"save", "undo"} => listed'[s] = listed[s],
           kind \in {"toggle", "remove"} => ShowsEntry(s, watched),
           kind = "toggle" => listed'[s] = [k \in DOMAIN listed[s] |-> ~watched],
           kind = "remove" => listed'[s] = <<>>,
           \A u \in undos' : u \in undos,
           picks' \in [Lists -> SUBSET VoidScenes]
    PROVE  VoidInv'
<1>1. PICK c : c = Call(spent + 1, kind, s, watched)
  OBVIOUS
<1>2. /\ c \in VoidCall /\ c.kind = kind /\ c.scene = s /\ c.watched = watched /\ c.step = "sent" /\ CallShape(c)
  <2>1. spent + 1 \in Nat /\ kind \in VoidKinds
    BY DEF VoidKinds, VoidInv, VoidTypes
  <2> QED BY <1>1, <2>1, CallIs
<1>3. Meets(voidCalls, c) /\ spent' = spent + 1
  BY <1>1 DEF Presses
<1>4. Footprint(c) = {s} /\ ~InBatch(c)
  BY <1>2 DEF Footprint, Loads, InBatch
<1>5. \A x : Entries(x)' = Entries(x)
  BY DEF Entries, Live
<1>6. ASSUME s \notin tangled, \A o \in voidCalls : s \notin Footprint(o)
      PROVE  ShownAs(c, s, listed'[s], Entries(s)')
  <2>1. listed[s] = Entries(s)
    BY <1>6 DEF VoidInv, ShownIsStored
  <2>2. CASE kind \in {"toggle", "remove"}
    <3>1. PICK k \in DOMAIN listed[s] : listed[s][k] = watched
      BY <2>2 DEF ShowsEntry
    <3>2. listed[s] # <<>>
      BY <3>1
    <3>3. listed[s] = <<rows[s].watched>>
      BY <2>1, <3>2, EntriesIs DEF VoidInv
    <3>4. DOMAIN listed[s] = 1..1 /\ rows[s].watched = watched
      BY <3>1, <3>3
    <3>5. kind = "toggle" => listed'[s] = <<~watched>>
      BY <3>4
    <3> QED BY <1>2, <1>5, <2>1, <2>2, <3>3, <3>4, <3>5 DEF ShownAs
  <2>3. CASE kind \in {"save", "undo"}
    BY <1>2, <1>5, <2>1, <2>3 DEF ShownAs
  <2> QED BY <2>2, <2>3
<1>7. /\ \A d \in voidCalls' : d \in VoidCall /\ CallShape(d)
      /\ tangled' \subseteq VoidScenes
      /\ CallsTangle' /\ ReadsKnow' /\ ShownIsStored'
  <2>1. \A x \in VoidScenes : x \notin Footprint(c) =>
           /\ Entries(x)' = Entries(x) /\ listed'[x] = listed[x]
           /\ \A o \in voidCalls \ voidCalls : x \notin Footprint(o)
    BY <1>4, <1>5
  <2>2. \A x \in Footprint(c) : x \notin tangled /\ (\A o \in voidCalls : x \notin Footprint(o)) =>
           ShownAs(c, x, listed'[x], Entries(x)')
    BY <1>4, <1>6
  <2>3. c.step # "read"
    BY <1>2
  <2> QED BY <1>2, <1>3, <2>1, <2>2, <2>3, MeetingKeeps
<1>8. BatchIsSent'
  BY <1>2, <1>3, <1>4, BatchStays
<1>9. VoidTypes'
  BY <1>3, <1>7 DEF VoidInv, VoidTypes
<1> QED BY <1>7, <1>8, <1>9 DEF VoidInv

LEMMA ButtonsKeep ==
    ASSUME VoidInv, NEW s \in VoidScenes, NEW watched \in BOOLEAN,
           SaveScene(s) \/ ToggleWatched(s, watched) \/ RemoveScene(s, watched)
    PROVE  VoidInv'
<1>1. /\ listed \in [VoidScenes -> Seq(BOOLEAN)] /\ picks \in [Lists -> SUBSET VoidScenes]
  BY DEF VoidInv, VoidTypes
<1>2. CASE SaveScene(s)
  BY <1>1, <1>2, PressKeeps DEF SaveScene
<1>3. CASE ToggleWatched(s, watched)
  <2>1. [k \in DOMAIN listed[s] |-> ~watched] \in Seq(BOOLEAN)
    <3>1. PICK l \in Seq(BOOLEAN) : l = listed[s]
      BY <1>1
    <3>2. DOMAIN l = 1..Len(l) /\ Len(l) \in Nat
      OBVIOUS
    <3> QED BY <3>1, <3>2
  <2>2. /\ listed' \in [VoidScenes -> Seq(BOOLEAN)]
        /\ listed'[s] = [k \in DOMAIN listed[s] |-> ~watched]
        /\ \A x \in VoidScenes : x # s => listed'[x] = listed[x]
    BY <1>1, <1>3, <2>1 DEF ToggleWatched
  <2> QED BY <1>1, <1>3, <2>2, PressKeeps DEF ToggleWatched
<1>4. CASE RemoveScene(s, watched)
  <2>1. /\ listed' \in [VoidScenes -> Seq(BOOLEAN)] /\ listed'[s] = <<>>
        /\ \A x \in VoidScenes : x # s => listed'[x] = listed[x]
    BY <1>1, <1>4 DEF RemoveScene
  <2>2. picks' \in [Lists -> SUBSET VoidScenes]
    BY <1>1, <1>4 DEF RemoveScene
  <2> QED BY <1>4, <2>1, <2>2, PressKeeps DEF RemoveScene
<1> QED BY <1>2, <1>3, <1>4

LEMMA UndoKeeps == ASSUME VoidInv, NEW u \in undos, UndoRemoval(u) PROVE VoidInv'
<1>1. u.scene \in VoidScenes /\ u.watched \in BOOLEAN
  BY DEF VoidInv, VoidTypes
<1>2. /\ listed \in [VoidScenes -> Seq(BOOLEAN)] /\ picks \in [Lists -> SUBSET VoidScenes]
  BY DEF VoidInv, VoidTypes
<1> QED BY <1>1, <1>2, PressKeeps DEF UndoRemoval

\* A call that turns to another step: nobody else changes, and its scene tells how it went.
LEMMA TurnKeeps ==
    ASSUME VoidInv, NEW c \in voidCalls, NEW step \in {"done", "patch", "patched", "load"},
           NEW d \in VoidCall, d = [c EXCEPT !.step = step], CallShape(d), TurnsTo(c, step),
           UNCHANGED <<listed, batch, results, undos, picks, spent>>,
           rows' \in [VoidScenes -> [state : {"none", "live", "deleted"}, watched : BOOLEAN]],
           \A s \in VoidScenes : s # c.scene => rows'[s] = rows[s],
           Footprint(c) = {c.scene},
           \A s \in Footprint(d) : s \notin tangled /\ (\A o \in voidCalls \ {c} : s \notin Footprint(o)) =>
               ShownAs(d, s, listed[s], Entries(s)')
    PROVE  VoidInv'
<1>1. c \in VoidCall /\ d.kind = c.kind /\ d.scene = c.scene /\ d.step = step
  BY DEF VoidInv, VoidTypes, VoidCall
<1>2. Meets(voidCalls \ {c}, d)
  BY DEF TurnsTo
<1>3. c.scene \in Footprint(d)
  BY <1>1 DEF Footprint, Loads, VoidCall
<1>4. \A x \in VoidScenes : x \notin Footprint(d) =>
           /\ Entries(x)' = Entries(x) /\ listed'[x] = listed[x]
           /\ \A o \in voidCalls \ (voidCalls \ {c}) : x \notin Footprint(o)
  BY <1>3 DEF Entries, Live
<1>5. /\ \A x \in voidCalls' : x \in VoidCall /\ CallShape(x)
      /\ tangled' \subseteq VoidScenes
      /\ CallsTangle' /\ ReadsKnow' /\ ShownIsStored'
  <2>1. voidCalls \ {c} \in SUBSET voidCalls /\ d.step # "read"
    BY <1>1
  <2> QED BY <1>2, <1>4, <2>1, MeetingKeeps
<1>6. BatchIsSent'
  <2>1. voidCalls \ {c} \in SUBSET voidCalls /\ UNCHANGED <<batch, results>>
    OBVIOUS
  <2>2. \A o \in voidCalls \ (voidCalls \ {c}) :
           o.kind = d.kind /\ o.scene = d.scene /\ \A x \in voidCalls \ {c} : x # o
    BY <1>1
  <2>3. \E o \in voidCalls \ (voidCalls \ {c}) : TRUE
    OBVIOUS
  <2> QED BY <1>2, <2>1, <2>2, <2>3, BatchStays
<1>7. VoidTypes'
  BY <1>5 DEF VoidInv, VoidTypes
<1> QED BY <1>5, <1>6, <1>7 DEF VoidInv

\* The server carries out a request.
LEMMA ServeKeeps == ASSUME VoidInv, NEW c \in voidCalls, ServeCall(c) PROVE VoidInv'
<1>1. c \in VoidCall /\ CallShape(c)
  BY DEF VoidInv, VoidTypes
<1>2. PICK step : step = IF c.step = "patch" THEN "patched" ELSE "done"
  OBVIOUS
<1>3. /\ Serves(c) /\ TurnsTo(c, step)
      /\ UNCHANGED <<listed, undos, picks, batch, results, spent, picking>>
  BY <1>2 DEF ServeCall
<1>4. PICK d : d = [c EXCEPT !.step = step]
  OBVIOUS
<1>5. d \in VoidCall /\ d.kind = c.kind /\ d.scene = c.scene /\ d.watched = c.watched /\ d.step = step
  BY <1>1, <1>2, <1>4 DEF VoidCall
<1>6. c.step \in {"sent", "patch"} /\ c.kind \notin {"download", "extract", "open", "reload"}
  BY <1>1, <1>3 DEF Serves, Saves, CallShape, Loads
<1>7. Footprint(c) = {c.scene} /\ Footprint(d) = {c.scene} /\ CallShape(d)
  BY <1>1, <1>2, <1>5, <1>6 DEF Footprint, Loads, CallShape
<1>8. rows \in [VoidScenes -> [state : {"none", "live", "deleted"}, watched : BOOLEAN]] /\ c.scene \in VoidScenes
      /\ c.watched \in BOOLEAN
  BY <1>1 DEF VoidInv, VoidTypes, VoidCall
\* What is done to the row.
<1>9. /\ rows' \in [VoidScenes -> [state : {"none", "live", "deleted"}, watched : BOOLEAN]]
      /\ \A s \in VoidScenes : s # c.scene => rows'[s] = rows[s]
      /\ c.kind = "toggle" => Live(c.scene) /\ rows'[c.scene].state = "live" /\ rows'[c.scene].watched = ~c.watched
      /\ c.kind = "remove" => rows'[c.scene].state = "deleted"
  <2>1. CASE c.step = "sent" /\ Saves(c) /\ Upsert(c.scene)
    BY <1>8, <2>1 DEF Upsert, Saves
  <2>2. CASE c.step = "sent" /\ c.kind = "toggle" /\ PatchWatched(c.scene, ~c.watched)
    BY <1>8, <2>2 DEF PatchWatched, Live
  <2>3. CASE c.step = "sent" /\ c.kind = "remove" /\ DeleteRow(c.scene)
    BY <1>8, <2>3 DEF DeleteRow
  <2>4. CASE c.step = "patch" /\ PatchWatched(c.scene, TRUE)
    BY <1>1, <1>8, <2>4 DEF PatchWatched, Live, CallShape
  <2> QED BY <1>3, <2>1, <2>2, <2>3, <2>4 DEF Serves
<1>10. ASSUME NEW s \in Footprint(d), s \notin tangled, \A o \in voidCalls \ {c} : s \notin Footprint(o)
       PROVE  ShownAs(d, s, listed[s], Entries(s)')
  <2>1. s = c.scene /\ ShownAs(c, s, listed[s], Entries(s))
    BY <1>7, <1>8, <1>10 DEF VoidInv, ShownIsStored
  <2>2. CASE c.kind = "toggle"
    <3>1. c.step = "sent" /\ listed[s] = <<~c.watched>>
      BY <1>1, <1>6, <2>1, <2>2 DEF ShownAs, CallShape
    <3>2. Entries(s)' = <<~c.watched>>
      BY <1>9, <2>1, <2>2 DEF Entries, Live
    <3>3. d.step = "done" /\ ~Saves(d)
      BY <1>2, <1>5, <2>2, <3>1 DEF Saves
    <3> QED BY <3>1, <3>2, <3>3 DEF ShownAs
  <2>3. CASE c.kind = "remove"
    <3>1. c.step = "sent" /\ listed[s] = <<>>
      BY <1>1, <1>6, <2>1, <2>3 DEF ShownAs, CallShape
    <3>2. Entries(s)' = <<>>
      BY <1>9, <2>1, <2>3 DEF Entries, Live
    <3>3. d.step = "done" /\ ~Saves(d)
      BY <1>2, <1>5, <2>3, <3>1 DEF Saves
    <3> QED BY <3>1, <3>2, <3>3 DEF ShownAs
  <2>4. CASE c.kind \notin {"toggle", "remove"}
    <3>1. Saves(c)
      BY <1>1, <1>6, <2>4 DEF Saves, VoidCall, VoidKinds
    <3>2. Len(listed[s]) <= 1
      <4>1. Len(listed[s]) <= 1 \/ listed[s] = Entries(s)
        BY <2>1, <2>4 DEF ShownAs
      <4> QED BY <1>8, <2>1, <4>1, EntriesIs DEF VoidInv
    <3>3. d.step # "sent" /\ Saves(d) /\ s = d.scene
      BY <1>2, <1>5, <2>1, <3>1 DEF Saves
    <3> QED BY <3>2, <3>3 DEF ShownAs
  <2> QED BY <2>2, <2>3, <2>4
<1>11. step \in {"done", "patch", "patched", "load"}
  BY <1>2
<1> QED BY <1>3, <1>4, <1>5, <1>7, <1>9, <1>10, <1>11, TurnKeeps

\* A save was answered.
LEMMA SavedKeeps == ASSUME VoidInv, NEW c \in voidCalls, HearSaved(c) PROVE VoidInv'
<1>1. c \in VoidCall /\ CallShape(c) /\ c.scene \in VoidScenes
  BY DEF VoidInv, VoidTypes, VoidCall
<1>2. PICK step : step = IF c.step = "done" /\ c.kind = "undo" /\ c.watched THEN "patch" ELSE "load"
  OBVIOUS
<1>3. /\ c.step \in {"done", "patched"} /\ c.kind \in {"save", "undo"} /\ TurnsTo(c, step)
      /\ UNCHANGED <<rows, listed, undos, picks, batch, results, spent, picking>>
  BY <1>2 DEF HearSaved
<1>4. PICK d : d = [c EXCEPT !.step = step]
  OBVIOUS
<1>5. d \in VoidCall /\ d.kind = c.kind /\ d.scene = c.scene /\ d.step = step
  BY <1>1, <1>2, <1>4 DEF VoidCall
<1>6. Footprint(c) = {c.scene} /\ CallShape(d) /\ Footprint(d) \subseteq VoidScenes
  BY <1>1, <1>2, <1>3, <1>5, FootprintOf DEF Footprint, Loads, CallShape
<1>7. ASSUME NEW s \in Footprint(d), s \notin tangled, \A o \in voidCalls \ {c} : s \notin Footprint(o)
      PROVE  ShownAs(d, s, listed[s], Entries(s)')
  <2>1. Entries(s)' = Entries(s) /\ s \in VoidScenes
    BY <1>3, <1>6, <1>7 DEF Entries, Live
  <2>2. CASE s = c.scene
    <3>1. ShownAs(c, s, listed[s], Entries(s))
      BY <1>6, <1>7, <2>1, <2>2 DEF VoidInv, ShownIsStored
    <3>2. Len(listed[s]) <= 1
      BY <1>3, <2>2, <3>1 DEF ShownAs, Saves
    <3> QED BY <1>2, <1>3, <1>5, <2>2, <3>2 DEF ShownAs, Saves
  <2>3. CASE s # c.scene
    <3>1. \A o \in voidCalls : s \notin Footprint(o)
      BY <1>6, <1>7, <2>3
    <3>2. listed[s] = Entries(s)
      BY <1>7, <2>1, <3>1 DEF VoidInv, ShownIsStored
    <3> QED BY <1>2, <1>5, <2>1, <2>3, <3>2 DEF ShownAs
  <2> QED BY <2>2, <2>3
<1>8. step \in {"done", "patch", "patched", "load"}
  BY <1>2
<1>9. /\ rows' \in [VoidScenes -> [state : {"none", "live", "deleted"}, watched : BOOLEAN]]
      /\ \A s \in VoidScenes : s # c.scene => rows'[s] = rows[s]
  BY <1>3 DEF VoidInv, VoidTypes
<1> QED BY <1>3, <1>4, <1>5, <1>6, <1>7, <1>8, <1>9, TurnKeeps

\* A call that is not of the batch ends.
LEMMA BatchDrops ==
    ASSUME VoidInv, NEW c \in voidCalls, ~InBatch(c), voidCalls' = voidCalls \ {c}, UNCHANGED <<batch, results>>
    PROVE  BatchIsSent'
<1>1. \A d \in voidCalls : InBatch(d) => d \in voidCalls'
  OBVIOUS
<1>2. \A d \in voidCalls' : d \in voidCalls
  OBVIOUS
<1> QED BY <1>1, <1>2 DEF VoidInv, BatchIsSent, InBatch

\* The batch is over.
LEMMA BatchEnds ==
    ASSUME VoidInv, \A d \in voidCalls' : ~InBatch(d), UNCHANGED results,
           batch' \in [action: BatchKinds \cup {"none", "stuck"}, of: Lists,
                       todo: SUBSET VoidScenes, bad: SUBSET VoidScenes],
           batch'.todo = {},
           \A s \in VoidScenes : results[s] # "extracting"
    PROVE  BatchIsSent'
BY DEF VoidInv, BatchIsSent, InBatch

LEMMA CallHearKeeps == ASSUME VoidInv, NEW c \in voidCalls, HearChange(c) PROVE VoidInv'
<1>1. /\ c.step = "done" /\ c.kind \in {"toggle", "remove"} /\ voidCalls' = voidCalls \ {c}
      /\ undos' \subseteq undos \cup {[scene |-> c.scene, watched |-> c.watched]}
      /\ UNCHANGED <<rows, listed, picks, batch, results, spent, picking, tangled>>
  BY DEF HearChange
<1>2. c \in VoidCall
  BY DEF VoidInv, VoidTypes
<1>3. ~InBatch(c) /\ Footprint(c) = {c.scene} /\ c.scene \in VoidScenes /\ c.watched \in BOOLEAN
  BY <1>1, <1>2 DEF InBatch, Footprint, Loads, VoidCall
<1>4. \A s \in VoidScenes : s \notin tangled' =>
         IF s \in Footprint(c) THEN listed'[s] = Entries(s) ELSE listed'[s] = listed[s]
  BY <1>1 DEF VoidInv, ShownIsStored, ShownAs, Saves
<1>5. /\ \A d \in voidCalls' : d \in VoidCall /\ CallShape(d)
      /\ CallsTangle' /\ ReadsKnow' /\ ShownIsStored'
  <2>1. tangled \subseteq tangled' /\ tangled' \subseteq VoidScenes
    BY <1>1 DEF VoidInv, VoidTypes
  <2> QED BY <1>1, <1>4, <2>1, EndKeeps
<1>6. BatchIsSent'
  BY <1>1, <1>3, BatchDrops
<1>7. \A u \in undos' : u.scene \in VoidScenes /\ u.watched \in BOOLEAN
  BY <1>1, <1>3 DEF VoidInv, VoidTypes
<1>8. VoidTypes'
  BY <1>1, <1>5, <1>7 DEF VoidInv, VoidTypes
<1> QED BY <1>5, <1>6, <1>8 DEF VoidInv

LEMMA FailKeeps == ASSUME VoidInv, NEW c \in voidCalls, FailCall(c) PROVE VoidInv'
<1>1. /\ ~InBatch(c) /\ listed' = [listed EXCEPT ![c.scene] = Rollback(c)] /\ voidCalls' = voidCalls \ {c}
      /\ tangled' = IF c.kind = "undo" \/ c.step # "sent" THEN tangled \cup {c.scene} ELSE tangled
      /\ UNCHANGED <<rows, undos, picks, batch, results, spent, picking>>
  BY DEF FailCall
<1>2. c \in VoidCall /\ CallShape(c) /\ c.scene \in VoidScenes /\ c.watched \in BOOLEAN
  BY DEF VoidInv, VoidTypes, VoidCall
<1>3. listed \in [VoidScenes -> Seq(BOOLEAN)]
  BY DEF VoidInv, VoidTypes
<1>4. PICK seen \in Seq(BOOLEAN) : seen = listed[c.scene]
  BY <1>2, <1>3
<1>5. PICK b \in BOOLEAN : b = c.watched
  BY <1>2
<1>6. Rollback(c) \in Seq(BOOLEAN)
  <2>1. [k \in DOMAIN seen |-> b] \in Seq(BOOLEAN)
    <3>1. DOMAIN seen = 1..Len(seen) /\ Len(seen) \in Nat
      OBVIOUS
    <3> QED BY <3>1
  <2>2. <<b>> \in Seq(BOOLEAN) /\ <<b>> \o seen \in Seq(BOOLEAN)
    OBVIOUS
  <2> QED BY <1>4, <1>5, <2>1, <2>2 DEF Rollback
<1>7. /\ listed' \in [VoidScenes -> Seq(BOOLEAN)] /\ listed'[c.scene] = Rollback(c)
      /\ \A s \in VoidScenes : s # c.scene => listed'[s] = listed[s]
  BY <1>1, <1>2, <1>3, <1>6
<1>8. tangled \subseteq tangled' /\ tangled' \subseteq VoidScenes
  BY <1>1, <1>2 DEF VoidInv, VoidTypes
<1>9. ASSUME NEW s \in VoidScenes, s \notin tangled'
      PROVE  IF s \in Footprint(c) THEN listed'[s] = Entries(s) ELSE listed'[s] = listed[s]
  <2>1. s \in Footprint(c) => ShownAs(c, s, listed[s], Entries(s))
    BY <1>8, <1>9 DEF VoidInv, ShownIsStored
  <2>2. CASE s # c.scene
    <3>1. listed'[s] = listed[s]
      BY <1>7, <2>2
    <3>2. s \in Footprint(c) => Loads(c)
      BY <2>2 DEF Footprint
    <3>3. s \in Footprint(c) => listed[s] = Entries(s)
      BY <2>1, <2>2, <3>2 DEF ShownAs, Loads
    <3> QED BY <3>1, <3>3
  <2>3. CASE s = c.scene
    <3>1. c.step = "sent" /\ c.kind \in {"save", "toggle", "remove"} /\ s \in Footprint(c)
      BY <1>1, <1>2, <1>9, <2>3 DEF InBatch, CallShape, Loads, Footprint, VoidCall, VoidKinds
    <3>2. CASE c.kind = "save"
      BY <1>7, <2>1, <2>3, <3>1, <3>2 DEF Rollback, ShownAs, Saves
    <3>3. CASE c.kind = "toggle"
      <4>1. Entries(s) = <<b>> /\ listed[s] = <<~b>>
        BY <1>5, <2>1, <3>1, <3>3 DEF ShownAs
      <4>2. listed'[s] = [k \in DOMAIN listed[s] |-> b]
        BY <1>5, <1>7, <2>3, <3>3 DEF Rollback
      <4>3. [k \in DOMAIN <<~b>> |-> b] = <<b>>
        <5>1. PICK l : l = [k \in DOMAIN <<~b>> |-> b]
          OBVIOUS
        <5>2. DOMAIN <<~b>> = 1..1
          OBVIOUS
        <5>3. l \in Seq(BOOLEAN) /\ Len(l) = 1 /\ l[1] = b
          BY <5>1, <5>2
        <5> QED BY <5>1, <5>3
      <4> QED BY <3>1, <4>1, <4>2, <4>3
    <3>4. CASE c.kind = "remove"
      <4>1. Entries(s) = <<b>> /\ listed[s] = <<>>
        BY <1>5, <2>1, <3>1, <3>4 DEF ShownAs
      <4>2. listed'[s] = <<b>> \o listed[s]
        BY <1>5, <1>7, <2>3, <3>4 DEF Rollback
      <4>3. <<b>> \o <<>> = <<b>>
        OBVIOUS
      <4> QED BY <3>1, <4>1, <4>2, <4>3
    <3> QED BY <3>1, <3>2, <3>3, <3>4
  <2> QED BY <2>2, <2>3
<1>10. /\ \A d \in voidCalls' : d \in VoidCall /\ CallShape(d)
       /\ CallsTangle' /\ ReadsKnow' /\ ShownIsStored'
  BY <1>1, <1>8, <1>9, EndKeeps
<1>11. BatchIsSent'
  BY <1>1, BatchDrops
<1>12. VoidTypes'
  BY <1>1, <1>7, <1>8, <1>10 DEF VoidInv, VoidTypes
<1> QED BY <1>10, <1>11, <1>12 DEF VoidInv

\* A list replaces what is shown.
LEMMA LoadKeeps == ASSUME VoidInv, NEW c \in voidCalls, LoadWatchlist(c) PROVE VoidInv'
<1>1. /\ c.step = "read" /\ listed' = c.read /\ voidCalls' = voidCalls \ {c} /\ tangled' = tangled \ c.clean
      /\ batch' = IF c.kind = "reload" THEN NoBatch ELSE batch
      /\ UNCHANGED <<rows, undos, picks, results, spent, picking>>
  BY DEF LoadWatchlist
<1>2. c \in VoidCall /\ CallShape(c) /\ Loads(c)
  BY <1>1 DEF VoidInv, VoidTypes, Loads
<1>3. /\ \A s \in c.clean : \A o \in voidCalls : o # c => s \notin Footprint(o)
      /\ \A s \in VoidScenes : s \notin c.clean => s \in tangled
      /\ \A s \in c.clean : c.read[s] = Entries(s)
  BY <1>1, <1>2 DEF VoidInv, ReadsKnow
<1>4. \A s : Entries(s)' = Entries(s)
  BY <1>1 DEF Entries, Live
<1>5. \A d \in voidCalls' : d \in voidCalls /\ d # c /\ d \in VoidCall /\ CallShape(d)
  BY <1>1 DEF VoidInv, VoidTypes
<1>6. CallsTangle'
  <2> SUFFICES ASSUME NEW o \in voidCalls', NEW d \in voidCalls', NEW s \in VoidScenes,
                      o # d, s \in Footprint(o), s \in Footprint(d)
               PROVE  s \in tangled'
    BY DEF CallsTangle, Footprint, Loads
  <2>1. s \in tangled
    BY <1>5 DEF VoidInv, CallsTangle
  <2> QED BY <1>1, <1>3, <1>5, <2>1
<1>7. ReadsKnow'
  <2> SUFFICES ASSUME NEW d \in voidCalls', Loads(d)
               PROVE  /\ \A s \in d.clean : \A x \in voidCalls' : x # d => s \notin Footprint(x)
                      /\ \A s \in VoidScenes : s \notin d.clean => s \in tangled'
                      /\ d.step = "read" => \A s \in d.clean : d.read[s] = Entries(s)'
    BY DEF ReadsKnow, Footprint, Loads
  <2>1. Footprint(d) = VoidScenes
    BY <1>5 DEF Footprint, CallShape
  <2> QED BY <1>1, <1>3, <1>4, <1>5, <2>1 DEF VoidInv, ReadsKnow
<1>8. ShownIsStored'
  <2> SUFFICES ASSUME NEW s \in VoidScenes, s \notin tangled'
               PROVE  /\ \A d \in voidCalls' : s \in Footprint(d) => ShownAs(d, s, listed'[s], Entries(s)')
                      /\ (\A d \in voidCalls' : s \notin Footprint(d)) => listed'[s] = Entries(s)'
    BY DEF ShownIsStored, Footprint, Loads, ShownAs, Saves
  <2>1. s \in c.clean
    BY <1>1, <1>3
  <2> QED BY <1>1, <1>3, <1>4, <1>5, <2>1
<1>9. BatchIsSent'
  <2>1. CASE c.kind = "reload"
    <3>1. batch.action = "watchlist" /\ \A o \in voidCalls : InBatch(o) => o = c
      BY <2>1 DEF VoidInv, BatchIsSent, InBatch, BatchKinds
    <3>2. NoBatch \in [action: BatchKinds \cup {"none", "stuck"}, of: Lists,
                       todo: SUBSET VoidScenes, bad: SUBSET VoidScenes] /\ NoBatch.todo = {}
      BY DEF NoBatch, Lists
    <3>3. \A s \in VoidScenes : results[s] # "extracting"
      BY <3>1 DEF VoidInv, BatchIsSent
    <3>4. (\A d \in voidCalls' : ~InBatch(d)) /\ batch' = NoBatch /\ UNCHANGED results
      BY <1>1, <1>5, <2>1, <3>1
    <3> QED BY <3>2, <3>3, <3>4, BatchEnds
  <2>2. CASE c.kind # "reload"
    <3>1. ~InBatch(c)
      BY <1>2, <2>2 DEF InBatch, CallShape
    <3> QED BY <1>1, <2>2, <3>1, BatchDrops
  <2> QED BY <2>1, <2>2
<1>10. VoidTypes'
  <2>1. listed' \in [VoidScenes -> Seq(BOOLEAN)]
    BY <1>1, <1>2 DEF VoidCall
  <2> QED BY <1>1, <1>5, <2>1 DEF VoidInv, VoidTypes
<1> QED BY <1>6, <1>7, <1>8, <1>9, <1>10 DEF VoidInv

LEMMA SettleKeeps == ASSUME VoidInv, NEW c \in voidCalls, InBatch(c), NEW ok \in BOOLEAN, SettleCall(c, ok) PROVE VoidInv'
<1>1. /\ c.kind = batch.action /\ voidCalls' = voidCalls \ {c}
      /\ batch' = [batch EXCEPT !.bad = IF ok THEN @ ELSE @ \cup {c.scene}]
      /\ results' = ResultsWith(c.scene, ok)
      /\ tangled' = IF c.step = "done" THEN tangled \cup {c.scene} ELSE tangled
      /\ UNCHANGED <<rows, listed, undos, picks, spent, picking>>
  BY DEF SettleCall
<1>2. c \in VoidCall /\ CallShape(c) /\ c.scene \in VoidScenes
  BY DEF VoidInv, VoidTypes, VoidCall
<1>3. c.kind \in BatchKinds /\ c.scene \notin batch.todo
  BY <1>1, <1>2 DEF VoidInv, BatchIsSent, BatchKinds, InBatch
<1>4. tangled \subseteq tangled' /\ tangled' \subseteq VoidScenes
  BY <1>1, <1>2 DEF VoidInv, VoidTypes
<1>5. ASSUME NEW s \in VoidScenes, s \notin tangled'
      PROVE  IF s \in Footprint(c) THEN listed'[s] = Entries(s) ELSE listed'[s] = listed[s]
  <2>1. CASE s \in Footprint(c)
    <3>1. c.kind = "watchlist" /\ c.step = "sent"
      <4>1. c.kind = "watchlist"
        BY <1>3, <2>1 DEF Footprint, BatchKinds
      <4>2. ~Loads(c) /\ c.step \notin {"patch", "patched"}
        BY <1>2, <4>1 DEF CallShape
      <4>3. s = c.scene
        BY <2>1, <4>1, <4>2 DEF Footprint
      <4> QED BY <1>1, <1>2, <1>5, <4>1, <4>2, <4>3 DEF VoidCall, Loads
    <3>2. ShownAs(c, s, listed[s], Entries(s))
      BY <1>4, <1>5, <2>1 DEF VoidInv, ShownIsStored
    <3> QED BY <1>1, <2>1, <3>1, <3>2 DEF ShownAs
  <2>2. CASE s \notin Footprint(c)
    BY <1>1, <2>2
  <2> QED BY <2>1, <2>2
<1>6. /\ \A d \in voidCalls' : d \in VoidCall /\ CallShape(d)
      /\ CallsTangle' /\ ReadsKnow' /\ ShownIsStored'
  BY <1>1, <1>4, <1>5, EndKeeps
<1>7. /\ batch \in [action: BatchKinds \cup {"none", "stuck"}, of: Lists,
                    todo: SUBSET VoidScenes, bad: SUBSET VoidScenes]
      /\ results \in [VoidScenes -> {"none", "extracting", "resolved", "failed"}]
  BY DEF VoidInv, BatchIsSent
<1>8. /\ batch' \in [action: BatchKinds \cup {"none", "stuck"}, of: Lists,
                     todo: SUBSET VoidScenes, bad: SUBSET VoidScenes]
      /\ batch'.action = batch.action /\ batch'.todo = batch.todo /\ batch'.bad \subseteq batch.bad \cup {c.scene}
  BY <1>1, <1>2, <1>7
<1>9. /\ results' \in [VoidScenes -> {"none", "extracting", "resolved", "failed"}]
      /\ \A s \in VoidScenes : s # c.scene => results'[s] = results[s]
      /\ batch.action = "extract" => results'[c.scene] \in {"resolved", "failed"}
      /\ batch.action # "extract" => results' = results
  BY <1>1, <1>2, <1>7 DEF ResultsWith
<1>10. BatchIsSent'
  <2>1. \A d \in voidCalls' : d \in voidCalls /\ d # c
    BY <1>1
  <2>2. batch'.todo \cap batch'.bad = {}
    BY <1>3, <1>8 DEF VoidInv, BatchIsSent
  <2>3. ASSUME NEW s \in VoidScenes, results'[s] = "extracting"
        PROVE  /\ batch'.action = "extract"
               /\ s \in batch'.todo \/ \E d \in voidCalls' : InBatch(d) /\ d.scene = s
    <3>1. results[s] = "extracting"
      BY <1>9, <2>3
    <3>2. batch.action = "extract" /\ (s \in batch.todo \/ \E d \in voidCalls : InBatch(d) /\ d.scene = s)
      BY <3>1 DEF VoidInv, BatchIsSent
    <3>3. s # c.scene
      BY <1>9, <2>3, <3>2
    <3> QED BY <1>1, <1>8, <3>2, <3>3
  <2>4. ASSUME NEW d \in voidCalls', InBatch(d)
        PROVE  /\ d.scene \notin batch'.todo
               /\ d.kind = batch'.action \/ (d.kind = "reload" /\ batch'.action = "watchlist" /\ batch'.todo = {})
               /\ d.kind = "reload" => \A o \in voidCalls' : InBatch(o) => o = d
    BY <1>8, <2>1, <2>4 DEF VoidInv, BatchIsSent
  <2>5. batch'.todo # {} => batch'.action \in BatchKinds
    BY <1>8 DEF VoidInv, BatchIsSent
  <2> QED BY <1>8, <1>9, <2>2, <2>3, <2>4, <2>5 DEF BatchIsSent, InBatch
<1>11. VoidTypes'
  BY <1>1, <1>4, <1>6 DEF VoidInv, VoidTypes
<1> QED BY <1>6, <1>10, <1>11 DEF VoidInv

\* The list cannot be read after a batch of saves.
LEMMA FailReloadKeeps == ASSUME VoidInv, NEW c \in voidCalls, FailReload(c) PROVE VoidInv'
<1>1. /\ c.kind = "reload" /\ voidCalls' = voidCalls \ {c} /\ batch' = [batch EXCEPT !.action = "stuck"]
      /\ UNCHANGED <<rows, listed, undos, picks, results, spent, picking, tangled>>
  BY DEF FailReload
<1>2. c \in VoidCall /\ CallShape(c) /\ Loads(c)
  BY <1>1 DEF VoidInv, VoidTypes, CallShape
<1>3. /\ batch.action = "watchlist" /\ batch.todo = {}
      /\ \A o \in voidCalls : InBatch(o) => o = c
      /\ batch \in [action: BatchKinds \cup {"none", "stuck"}, of: Lists,
                    todo: SUBSET VoidScenes, bad: SUBSET VoidScenes]
  BY <1>1 DEF VoidInv, BatchIsSent, InBatch, BatchKinds
<1>4. \A s \in VoidScenes : s \notin tangled' =>
         IF s \in Footprint(c) THEN listed'[s] = Entries(s) ELSE listed'[s] = listed[s]
  BY <1>1, <1>2 DEF VoidInv, ShownIsStored, ShownAs, Saves, Loads
<1>5. /\ \A d \in voidCalls' : d \in VoidCall /\ CallShape(d)
      /\ CallsTangle' /\ ReadsKnow' /\ ShownIsStored'
  <2>1. tangled \subseteq tangled' /\ tangled' \subseteq VoidScenes
    BY <1>1 DEF VoidInv, VoidTypes
  <2> QED BY <1>1, <1>4, <2>1, EndKeeps
<1>6. BatchIsSent'
  <2>1. (\A d \in voidCalls' : ~InBatch(d)) /\ UNCHANGED results
    BY <1>1, <1>3
  <2>2. /\ batch' \in [action: BatchKinds \cup {"none", "stuck"}, of: Lists,
                       todo: SUBSET VoidScenes, bad: SUBSET VoidScenes]
        /\ batch'.todo = {}
    BY <1>1, <1>3
  <2>3. \A s \in VoidScenes : results[s] # "extracting"
    BY <1>3 DEF VoidInv, BatchIsSent
  <2> QED BY <2>1, <2>2, <2>3, BatchEnds
<1>7. VoidTypes'
  BY <1>1, <1>5 DEF VoidInv, VoidTypes
<1> QED BY <1>5, <1>6, <1>7 DEF VoidInv

\* The calls and the lists are as they were.
LEMMA CallsStay ==
    ASSUME VoidInv, UNCHANGED <<rows, listed, voidCalls, undos, tangled>>,
           picks' \in [Lists -> SUBSET VoidScenes], spent' \in Nat
    PROVE  VoidTypes' /\ CallsTangle' /\ ReadsKnow' /\ ShownIsStored'
<1>1. VoidTypes'
  BY DEF VoidInv, VoidTypes
<1>2. CallsTangle' /\ ReadsKnow' /\ ShownIsStored'
  BY DEF VoidInv, CallsTangle, ReadsKnow, ShownIsStored, Footprint, Loads, ShownAs, Saves, Entries, Live
<1> QED BY <1>1, <1>2

LEMMA PickKeeps == ASSUME VoidInv, NEW l \in Lists, NEW S \in SUBSET Cards(l), Pick(l, S) PROVE VoidInv'
<1>1. /\ picks' = [picks EXCEPT ![l] = S]
      /\ UNCHANGED <<rows, listed, voidCalls, undos, batch, results, spent, tangled>>
  BY DEF Pick
<1>2. S \in SUBSET VoidScenes
  BY DEF Cards
<1>3. picks' \in [Lists -> SUBSET VoidScenes] /\ spent' \in Nat
  BY <1>1, <1>2 DEF VoidInv, VoidTypes
<1>4. VoidTypes' /\ CallsTangle' /\ ReadsKnow' /\ ShownIsStored'
  BY <1>1, <1>3, CallsStay
<1>5. BatchIsSent'
  BY <1>1 DEF VoidInv, BatchIsSent, InBatch
<1> QED BY <1>4, <1>5 DEF VoidInv

LEMMA BatchBeginKeeps == ASSUME VoidInv, NEW action \in BatchKinds, NEW l \in Lists, BeginBatch(action, l) PROVE VoidInv'
<1>1. PICK targets : targets = picks[l] \cap Cards(l)
  OBVIOUS
<1>2. /\ batch = NoBatch /\ spent' = spent + 1
      /\ batch' = [action |-> action, of |-> l, todo |-> targets, bad |-> {}]
      /\ results' = IF action = "extract"
                      THEN [s \in VoidScenes |-> IF s \in targets THEN "extracting" ELSE "none"]
                      ELSE results
      /\ UNCHANGED <<rows, listed, voidCalls, undos, picks, picking, tangled>>
  BY <1>1 DEF BeginBatch
<1>3. targets \in SUBSET VoidScenes
  BY <1>1 DEF Cards
<1>4. VoidTypes' /\ CallsTangle' /\ ReadsKnow' /\ ShownIsStored'
  <2>1. picks' \in [Lists -> SUBSET VoidScenes] /\ spent' \in Nat
    BY <1>2 DEF VoidInv, VoidTypes
  <2> QED BY <1>2, <2>1, CallsStay
<1>5. \A c \in voidCalls : ~InBatch(c)
  BY <1>2 DEF VoidInv, BatchIsSent, NoBatch, InBatch
<1>6. \A s \in VoidScenes : results[s] # "extracting"
  BY <1>2 DEF VoidInv, BatchIsSent, NoBatch
<1>7. /\ batch' \in [action: BatchKinds \cup {"none", "stuck"}, of: Lists,
                     todo: SUBSET VoidScenes, bad: SUBSET VoidScenes]
      /\ batch'.action = action /\ batch'.todo = targets /\ batch'.bad = {}
  BY <1>2, <1>3
<1>8. results' \in [VoidScenes -> {"none", "extracting", "resolved", "failed"}]
  BY <1>2 DEF VoidInv, BatchIsSent
<1>9. \A s \in VoidScenes : results'[s] = "extracting" => action = "extract" /\ s \in targets
  BY <1>2, <1>6
<1>10. \A c \in voidCalls' : ~InBatch(c)
  BY <1>2, <1>5
<1>11. BatchIsSent'
  BY <1>7, <1>8, <1>9, <1>10 DEF BatchIsSent, InBatch
<1> QED BY <1>4, <1>11 DEF VoidInv

LEMMA ServeListKeeps == ASSUME VoidInv, NEW c \in voidCalls, ServeList(c) PROVE VoidInv'
<1>1. PICK d : d = [c EXCEPT !.step = "read", !.read = [s \in VoidScenes |-> Entries(s)]]
  OBVIOUS
<1>2. /\ c.step = "load" /\ voidCalls' = (voidCalls \ {c}) \cup {d}
      /\ UNCHANGED <<rows, listed, undos, picks, batch, results, spent, picking, tangled>>
  BY <1>1 DEF ServeList
<1>3. c \in VoidCall /\ CallShape(c) /\ Loads(c)
  BY <1>2 DEF VoidInv, VoidTypes, Loads
<1>4. /\ d \in VoidCall /\ d.kind = c.kind /\ d.scene = c.scene /\ d.clean = c.clean /\ d.step = "read"
      /\ \A s \in VoidScenes : d.read[s] = Entries(s)
  <2>1. [s \in VoidScenes |-> Entries(s)] \in [VoidScenes -> Seq(BOOLEAN)]
    BY EntriesIs DEF VoidInv
  <2> QED BY <1>1, <1>3, <2>1 DEF VoidCall
<1>5. CallShape(d) /\ Loads(d) /\ Footprint(d) = VoidScenes /\ Footprint(c) = VoidScenes /\ (InBatch(d) <=> InBatch(c))
  BY <1>2, <1>3, <1>4 DEF CallShape, Loads, Footprint, InBatch
<1>6. \A s : Entries(s)' = Entries(s)
  BY <1>2 DEF Entries, Live
<1>7. \A x \in voidCalls' : x = d \/ (x \in voidCalls /\ x # c)
  BY <1>2
<1>8. \A x \in voidCalls' : x \in VoidCall /\ CallShape(x)
  BY <1>4, <1>5, <1>7 DEF VoidInv, VoidTypes
<1>9. CallsTangle'
  <2> SUFFICES ASSUME NEW o \in voidCalls', NEW x \in voidCalls', NEW s \in VoidScenes,
                      o # x, s \in Footprint(o), s \in Footprint(x)
               PROVE  s \in tangled'
    BY DEF CallsTangle, Footprint, Loads
  <2>1. CASE o = d
    <3>1. x \in voidCalls /\ x # c
      BY <1>7, <2>1
    <3> QED BY <1>2, <1>5, <3>1 DEF VoidInv, CallsTangle
  <2>2. CASE x = d
    <3>1. o \in voidCalls /\ o # c
      BY <1>7, <2>2
    <3> QED BY <1>2, <1>5, <3>1 DEF VoidInv, CallsTangle
  <2>3. CASE o # d /\ x # d
    BY <1>2, <1>7, <2>3 DEF VoidInv, CallsTangle
  <2> QED BY <2>1, <2>2, <2>3
<1>10. ReadsKnow'
  <2> SUFFICES ASSUME NEW o \in voidCalls', Loads(o)
               PROVE  /\ \A s \in o.clean : \A x \in voidCalls' : x # o => s \notin Footprint(x)
                      /\ \A s \in VoidScenes : s \notin o.clean => s \in tangled'
                      /\ o.step = "read" => \A s \in o.clean : o.read[s] = Entries(s)'
    BY DEF ReadsKnow, Footprint, Loads
  <2>1. CASE o = d
    BY <1>2, <1>3, <1>4, <1>6, <1>7, <2>1 DEF VoidInv, ReadsKnow, VoidCall
  <2>2. CASE o # d
    <3>1. o \in voidCalls /\ o # c
      BY <1>7, <2>2
    <3> QED BY <1>2, <1>5, <1>6, <1>7, <3>1 DEF VoidInv, ReadsKnow
  <2> QED BY <2>1, <2>2
<1>11. ShownIsStored'
  <2> SUFFICES ASSUME NEW s \in VoidScenes, s \notin tangled'
               PROVE  /\ \A o \in voidCalls' : s \in Footprint(o) => ShownAs(o, s, listed'[s], Entries(s)')
                      /\ (\A o \in voidCalls' : s \notin Footprint(o)) => listed'[s] = Entries(s)'
    BY DEF ShownIsStored, Footprint, Loads, ShownAs, Saves
  <2>1. ShownAs(c, s, listed[s], Entries(s))
    BY <1>2, <1>5 DEF VoidInv, ShownIsStored
  <2>2. ShownAs(d, s, listed[s], Entries(s))
    BY <1>2, <1>4, <2>1 DEF ShownAs, Saves
  <2>3. \A o \in voidCalls : s \in Footprint(o) => ShownAs(o, s, listed[s], Entries(s))
    BY <1>2 DEF VoidInv, ShownIsStored
  <2> QED BY <1>2, <1>5, <1>6, <1>7, <2>2, <2>3
<1>12. BatchIsSent'
  <2>1. ASSUME NEW o \in voidCalls', InBatch(o)
        PROVE  /\ o.scene \notin batch.todo
               /\ o.kind = batch.action \/ (o.kind = "reload" /\ batch.action = "watchlist" /\ batch.todo = {})
               /\ o.kind = "reload" => \A x \in voidCalls' : InBatch(x) => x = o
    <3>1. PICK y \in voidCalls : /\ InBatch(y) /\ y.kind = o.kind /\ y.scene = o.scene
                                 /\ (o = d /\ y = c) \/ (o # d /\ o = y)
      BY <1>4, <1>5, <1>7, <2>1
    <3>2. ASSUME o.kind = "reload", NEW x \in voidCalls', InBatch(x) PROVE x = o
      <4>1. PICK z \in voidCalls : InBatch(z) /\ ((x = d /\ z = c) \/ (x # d /\ x = z /\ z # c))
        BY <1>5, <1>7, <3>2
      <4>2. z = y
        BY <3>1, <3>2, <4>1 DEF VoidInv, BatchIsSent
      <4>3. o = d \/ o # c
        BY <1>7
      <4> QED BY <3>1, <4>1, <4>2, <4>3
    <3> QED BY <3>1, <3>2 DEF VoidInv, BatchIsSent
  <2>2. ASSUME NEW s \in VoidScenes, results[s] = "extracting"
        PROVE  /\ batch.action = "extract"
               /\ s \in batch.todo \/ \E o \in voidCalls' : InBatch(o) /\ o.scene = s
    BY <1>2, <1>4, <1>5, <2>2 DEF VoidInv, BatchIsSent
  <2> QED BY <1>2, <2>1, <2>2 DEF VoidInv, BatchIsSent, InBatch
<1>13. VoidTypes'
  BY <1>2, <1>8 DEF VoidInv, VoidTypes
<1> QED BY <1>9, <1>10, <1>11, <1>12, <1>13 DEF VoidInv

\* The batch has been settled; one of saves reads the list.
LEMMA EndBatchKeeps == ASSUME VoidInv, EndBatch PROVE VoidInv'
<1>1. /\ batch.action \notin {"none", "stuck"} /\ BatchCalls = {} /\ batch.todo = {}
      /\ picks' = IF batch.action = "extract" THEN picks ELSE [picks EXCEPT ![batch.of] = batch.bad]
      /\ UNCHANGED <<rows, listed, undos, results, spent, picking>>
  BY DEF EndBatch
<1>2. batch \in [action: BatchKinds \cup {"none", "stuck"}, of: Lists,
                 todo: SUBSET VoidScenes, bad: SUBSET VoidScenes]
  BY DEF VoidInv, BatchIsSent
<1>3. picks' \in [Lists -> SUBSET VoidScenes] /\ spent' \in Nat
  BY <1>1, <1>2 DEF VoidInv, VoidTypes
<1>4. \A o \in voidCalls : ~InBatch(o)
  BY <1>1 DEF BatchCalls
<1>5. \A s \in VoidScenes : results[s] # "extracting"
  BY <1>1, <1>4 DEF VoidInv, BatchIsSent
<1>6. CASE batch.action # "watchlist"
  <2>1. batch' = NoBatch /\ UNCHANGED <<voidCalls, tangled>>
    BY <1>6 DEF EndBatch
  <2>2. VoidTypes' /\ CallsTangle' /\ ReadsKnow' /\ ShownIsStored'
    BY <1>1, <1>3, <2>1, CallsStay
  <2>3. batch' \in [action: BatchKinds \cup {"none", "stuck"}, of: Lists,
                    todo: SUBSET VoidScenes, bad: SUBSET VoidScenes] /\ batch'.todo = {}
    BY <2>1 DEF NoBatch, Lists
  <2>4. BatchIsSent'
    BY <1>1, <1>4, <1>5, <2>1, <2>3, BatchEnds
  <2> QED BY <2>2, <2>4 DEF VoidInv
<1>7. CASE batch.action = "watchlist"
  <2>1. PICK some \in VoidScenes : some = CHOOSE s \in VoidScenes : TRUE
    BY VoidAssumption
  <2>2. PICK c : c = Call(spent, "reload", some, FALSE)
    OBVIOUS
  <2>3. Meets(voidCalls, c) /\ UNCHANGED batch
    BY <1>7, <2>1, <2>2 DEF EndBatch
  <2>4. c \in VoidCall /\ c.kind = "reload" /\ c.step = "load" /\ CallShape(c)
    <3>1. spent \in Nat /\ "reload" \in VoidKinds
      BY DEF VoidKinds, VoidInv, VoidTypes
    <3>2. [x \in VoidScenes |-> <<>>] \in [VoidScenes -> Seq(BOOLEAN)]
      OBVIOUS
    <3> QED BY <2>2, <3>1, <3>2 DEF Call, VoidCall, CallShape, Loads
  <2>5. Footprint(c) = VoidScenes
    BY <2>4 DEF Footprint, Loads
  <2>6. \A s : Entries(s)' = Entries(s)
    BY <1>1 DEF Entries, Live
  <2>7. \A s \in Footprint(c) : s \notin tangled /\ (\A o \in voidCalls : s \notin Footprint(o)) =>
            ShownAs(c, s, listed'[s], Entries(s)')
    BY <1>1, <2>4, <2>5, <2>6 DEF VoidInv, ShownIsStored, ShownAs, Saves
  <2>8. /\ \A d \in voidCalls' : d \in VoidCall /\ CallShape(d)
        /\ tangled' \subseteq VoidScenes
        /\ CallsTangle' /\ ReadsKnow' /\ ShownIsStored'
    <3>1. voidCalls \in SUBSET voidCalls /\ c.step # "read"
      BY <2>4
    <3>2. \A s \in VoidScenes : s \in Footprint(c)
      BY <2>5
    <3> QED BY <2>3, <2>4, <2>7, <3>1, <3>2, MeetingKeeps
  <2>9. VoidTypes'
    BY <1>1, <1>3, <2>8 DEF VoidInv, VoidTypes
  <2>10. BatchIsSent'
    <3>1. voidCalls \in SUBSET VoidCall
      BY DEF VoidInv, VoidTypes
    <3>2. PICK e \in VoidCall : voidCalls' = {Kept(o, Footprint(c)) : o \in voidCalls} \cup {e} /\ Like(e, c)
      BY <2>3, <2>4, <3>1, MeetsIs
    <3>3. \A o \in voidCalls : ~InBatch(Kept(o, Footprint(c)))
      BY <1>4, <3>1, KeptIs, LikeIs
    <3>4. \A d \in voidCalls' : InBatch(d) => d = e
      BY <3>2, <3>3
    <3>5. e.kind = "reload"
      BY <2>4, <3>2 DEF Like
    <3> QED BY <1>1, <1>5, <1>7, <2>3, <3>4, <3>5 DEF VoidInv, BatchIsSent, InBatch
  <2> QED BY <2>8, <2>9, <2>10 DEF VoidInv
<1> QED BY <1>6, <1>7

\* The next calls of the batch go together; they do not stop each other's.
LEMMA SendKeeps == ASSUME VoidInv, SendChunk PROVE VoidInv'
<1> DEFINE sent(s) == [Call(spent, batch.action, s, FALSE) EXCEPT !.clean = VoidScenes]
<1>1. PICK C \in SUBSET batch.todo :
         LET new == {sent(s) : s \in C}
             touched == UNION {Footprint(c) : c \in new}
         IN  /\ voidCalls' = {[o EXCEPT !.clean = @ \ touched] : o \in voidCalls} \cup new
             /\ tangled' = tangled \cup (touched \cap UNION {Footprint(o) : o \in voidCalls})
             /\ batch' = [batch EXCEPT !.todo = @ \ C]
  BY DEF SendChunk, VoidChunks
<1>2. BatchCalls = {} /\ batch.todo # {} /\ UNCHANGED <<rows, listed, undos, picks, results, spent, picking>>
  BY DEF SendChunk
<1>3. PICK new : new = {sent(s) : s \in C}
  OBVIOUS
<1>4. PICK touched : touched = UNION {Footprint(c) : c \in new}
  OBVIOUS
<1>5. /\ voidCalls' = {Kept(o, touched) : o \in voidCalls} \cup new
      /\ tangled' = tangled \cup (touched \cap UNION {Footprint(o) : o \in voidCalls})
      /\ batch' = [batch EXCEPT !.todo = @ \ C]
  BY <1>1, <1>3, <1>4 DEF Kept
<1>6. /\ batch \in [action: BatchKinds \cup {"none", "stuck"}, of: Lists,
                    todo: SUBSET VoidScenes, bad: SUBSET VoidScenes]
      /\ batch.action \in BatchKinds /\ \A o \in voidCalls : ~InBatch(o)
  BY <1>2 DEF VoidInv, BatchIsSent, BatchCalls
<1>7. ASSUME NEW s \in C
      PROVE  /\ sent(s) \in VoidCall /\ sent(s).kind = batch.action /\ sent(s).scene = s /\ sent(s).step = "sent"
             /\ CallShape(sent(s)) /\ ~Loads(sent(s)) /\ InBatch(sent(s))
             /\ Footprint(sent(s)) \subseteq {s} /\ s \in VoidScenes
  <2>1. spent \in Nat /\ batch.action \in VoidKinds /\ s \in VoidScenes
        /\ batch.action \notin {"open", "reload"}
    BY <1>6 DEF VoidKinds, BatchKinds, VoidInv, VoidTypes
  <2>2. PICK c \in VoidCall : /\ c = Call(spent, batch.action, s, FALSE)
                              /\ c.kind = batch.action /\ c.scene = s /\ c.step = "sent"
    <3>1. ASSUME NEW c, c = Call(spent, batch.action, s, FALSE)
          PROVE  c \in VoidCall /\ c.kind = batch.action /\ c.scene = s /\ c.step = "sent"
      <4>1. [x \in VoidScenes |-> <<>>] \in [VoidScenes -> Seq(BOOLEAN)]
        OBVIOUS
      <4> QED BY <2>1, <3>1, <4>1 DEF Call, VoidCall
    <3> QED BY <3>1, Zenon
  <2>3. PICK d : d = [c EXCEPT !.clean = VoidScenes]
    OBVIOUS
  <2>4. d = sent(s)
    BY <2>2, <2>3
  <2>5. d \in VoidCall /\ d.kind = batch.action /\ d.scene = s /\ d.step = "sent"
    BY <2>2, <2>3 DEF VoidCall
  <2>6. CallShape(d) /\ ~Loads(d) /\ InBatch(d) /\ Footprint(d) \subseteq {s}
    BY <1>6, <2>1, <2>5 DEF CallShape, Loads, InBatch, Footprint, BatchKinds
  <2> QED BY <2>1, <2>4, <2>5, <2>6
<1> HIDE DEF sent
<1>8. \A o \in voidCalls : /\ o \in VoidCall /\ CallShape(o)
                           /\ Like(Kept(o, touched), o) /\ Kept(o, touched).clean = o.clean \ touched
                           /\ Footprint(Kept(o, touched)) = Footprint(o) /\ (Loads(Kept(o, touched)) <=> Loads(o))
                           /\ CallShape(Kept(o, touched)) /\ ~InBatch(Kept(o, touched))
  <2> TAKE o \in voidCalls
  <2>1. o \in VoidCall /\ CallShape(o) /\ ~InBatch(o)
    BY <1>6 DEF VoidInv, VoidTypes
  <2>2. Like(Kept(o, touched), o) /\ Kept(o, touched).clean = o.clean \ touched
    BY <2>1, KeptIs
  <2> QED BY <2>1, <2>2, LikeIs
<1>9. \A d \in voidCalls' : (\E o \in voidCalls : d = Kept(o, touched)) \/ (\E s \in C : d = sent(s))
  BY <1>3, <1>5
<1>10. \A s : s \in touched <=> \E x \in C : s \in Footprint(sent(x))
  BY <1>3, <1>4
<1>11. touched \subseteq VoidScenes /\ \A s \in VoidScenes :
         s \in tangled' <=> s \in tangled \/ (s \in touched /\ \E o \in voidCalls : s \in Footprint(o))
  BY <1>5, <1>7, <1>10
<1>12. \A d \in voidCalls' : d \in VoidCall /\ CallShape(d)
  BY <1>7, <1>8, <1>9 DEF Like
<1>13. \A s : Entries(s)' = Entries(s)
  BY <1>2 DEF Entries, Live
<1>14. CallsTangle'
  <2> SUFFICES ASSUME NEW d1 \in voidCalls', NEW d2 \in voidCalls', NEW s \in VoidScenes,
                      d1 # d2, s \in Footprint(d1), s \in Footprint(d2)
               PROVE  s \in tangled'
    BY DEF CallsTangle, Footprint, Loads
  <2>1. ASSUME NEW o1 \in voidCalls, NEW o2 \in voidCalls, d1 = Kept(o1, touched), d2 = Kept(o2, touched)
        PROVE  s \in tangled'
    BY <1>8, <1>11, <2>1 DEF VoidInv, CallsTangle
  <2>2. ASSUME NEW o \in voidCalls, NEW x \in C,
               (d1 = Kept(o, touched) /\ d2 = sent(x)) \/ (d2 = Kept(o, touched) /\ d1 = sent(x))
        PROVE  s \in tangled'
    BY <1>8, <1>10, <1>11, <2>2
  <2>3. ASSUME NEW x1 \in C, NEW x2 \in C, d1 = sent(x1), d2 = sent(x2) PROVE FALSE
    BY <1>7, <2>3
  <2> QED BY <1>9, <2>1, <2>2, <2>3
<1>15. ReadsKnow'
  <2> SUFFICES ASSUME NEW d \in voidCalls', Loads(d)
               PROVE  /\ \A s \in d.clean : \A x \in voidCalls' : x # d => s \notin Footprint(x)
                      /\ \A s \in VoidScenes : s \notin d.clean => s \in tangled'
                      /\ d.step = "read" => \A s \in d.clean : d.read[s] = Entries(s)'
    BY DEF ReadsKnow, Footprint, Loads
  <2>1. PICK o \in voidCalls : d = Kept(o, touched)
    BY <1>7, <1>9
  <2>2. /\ Loads(o) /\ d.clean = o.clean \ touched /\ d.step = o.step /\ d.read = o.read
        /\ Footprint(o) = VoidScenes
    <3>1. Loads(o) /\ CallShape(o) /\ d.clean = o.clean \ touched /\ d.step = o.step /\ d.read = o.read
      BY <1>8, <2>1 DEF Like
    <3> QED BY <3>1 DEF Footprint, CallShape
  <2>3. /\ \A s \in o.clean : \A x \in voidCalls : x # o => s \notin Footprint(x)
        /\ \A s \in VoidScenes : s \notin o.clean => s \in tangled
        /\ o.step = "read" => \A s \in o.clean : o.read[s] = Entries(s)
    BY <2>2 DEF VoidInv, ReadsKnow
  <2>4. ASSUME NEW s \in d.clean, NEW x \in voidCalls', x # d PROVE s \notin Footprint(x)
    BY <1>8, <1>9, <1>10, <2>1, <2>2, <2>3, <2>4
  <2>5. \A s \in VoidScenes : s \notin d.clean => s \in tangled'
    BY <1>11, <2>2, <2>3
  <2>6. d.step = "read" => \A s \in d.clean : d.read[s] = Entries(s)'
    BY <1>13, <2>2, <2>3
  <2> QED BY <2>4, <2>5, <2>6
<1>16. ShownIsStored'
  <2> SUFFICES ASSUME NEW s \in VoidScenes, s \notin tangled'
               PROVE  /\ \A d \in voidCalls' : s \in Footprint(d) => ShownAs(d, s, listed'[s], Entries(s)')
                      /\ (\A d \in voidCalls' : s \notin Footprint(d)) => listed'[s] = Entries(s)'
    BY DEF ShownIsStored, Footprint, Loads, ShownAs, Saves
  <2>1. /\ s \notin tangled /\ (s \in touched => \A o \in voidCalls : s \notin Footprint(o))
        /\ listed'[s] = listed[s] /\ Entries(s)' = Entries(s)
    BY <1>2, <1>11, <1>13
  <2>2. /\ \A o \in voidCalls : s \in Footprint(o) => ShownAs(o, s, listed[s], Entries(s))
        /\ (\A o \in voidCalls : s \notin Footprint(o)) => listed[s] = Entries(s)
    BY <2>1 DEF VoidInv, ShownIsStored
  <2>3. ASSUME NEW x \in C, s \in Footprint(sent(x)) PROVE ShownAs(sent(x), s, listed[s], Entries(s))
    <3>1. listed[s] = Entries(s) /\ sent(x).step = "sent" /\ sent(x).kind \in BatchKinds
      BY <1>6, <1>7, <1>10, <2>1, <2>2, <2>3
    <3> QED BY <3>1 DEF ShownAs, BatchKinds
  <2>4. ASSUME NEW o \in voidCalls, s \in Footprint(Kept(o, touched))
        PROVE  ShownAs(Kept(o, touched), s, listed[s], Entries(s))
    BY <1>8, <2>2, <2>4, LikeIs
  <2>5. (\A d \in voidCalls' : s \notin Footprint(d)) => \A o \in voidCalls : s \notin Footprint(o)
    BY <1>5, <1>8
  <2> QED BY <1>9, <2>1, <2>2, <2>3, <2>4, <2>5
<1>17. BatchIsSent'
  <2>1. /\ batch' \in [action: BatchKinds \cup {"none", "stuck"}, of: Lists,
                       todo: SUBSET VoidScenes, bad: SUBSET VoidScenes]
        /\ batch'.action = batch.action /\ batch'.todo = batch.todo \ C /\ batch'.bad = batch.bad
    BY <1>5, <1>6
  <2>2. ASSUME NEW d \in voidCalls', InBatch(d)
        PROVE  d.scene \notin batch'.todo /\ d.kind = batch'.action /\ d.kind # "reload"
    <3>1. PICK x \in C : d = sent(x)
      BY <1>8, <1>9, <2>2
    <3> QED BY <1>6, <1>7, <2>1, <3>1 DEF BatchKinds
  <2>3. ASSUME NEW s \in VoidScenes, results[s] = "extracting"
        PROVE  batch.action = "extract" /\ (s \in batch'.todo \/ \E d \in voidCalls' : InBatch(d) /\ d.scene = s)
    <3>1. batch.action = "extract" /\ s \in batch.todo
      BY <1>6, <2>3 DEF VoidInv, BatchIsSent
    <3>2. s \in C => sent(s) \in voidCalls' /\ InBatch(sent(s)) /\ sent(s).scene = s
      BY <1>3, <1>5, <1>7
    <3> QED BY <2>1, <3>1, <3>2
  <2>4. UNCHANGED results
    BY <1>2
  <2>5. batch.todo \cap batch.bad = {} /\ results \in [VoidScenes -> {"none", "extracting", "resolved", "failed"}]
    BY DEF VoidInv, BatchIsSent
  <2> QED BY <1>6, <2>1, <2>2, <2>3, <2>4, <2>5 DEF BatchIsSent, InBatch
<1>18. VoidTypes'
  <2>1. tangled' \subseteq VoidScenes
    BY <1>5, <1>11 DEF VoidInv, VoidTypes
  <2> QED BY <1>2, <1>12, <2>1 DEF VoidInv, VoidTypes
<1> QED BY <1>14, <1>15, <1>16, <1>17, <1>18 DEF VoidInv

LEMMA VoidStarts == VoidInit => VoidInv
<1> SUFFICES ASSUME VoidInit PROVE VoidInv
  OBVIOUS
<1>1. PICK some \in VoidScenes : some = CHOOSE s \in VoidScenes : TRUE
  BY VoidAssumption
<1>2. PICK c : c = [Call(0, "open", some, FALSE) EXCEPT !.clean = VoidScenes]
  OBVIOUS
<1>3. voidCalls = {c}
  BY <1>1, <1>2 DEF VoidInit
<1>4. /\ c \in VoidCall /\ c.kind = "open" /\ c.step = "load" /\ c.clean = VoidScenes
  <2>1. PICK b \in VoidCall : b = Call(0, "open", some, FALSE) /\ b.kind = "open" /\ b.step = "load"
    <3>1. PICK b : b = Call(0, "open", some, FALSE)
      OBVIOUS
    <3>2. [x \in VoidScenes |-> <<>>] \in [VoidScenes -> Seq(BOOLEAN)]
      OBVIOUS
    <3>3. b \in VoidCall /\ b.kind = "open" /\ b.step = "load"
      BY <3>1, <3>2 DEF Call, VoidCall, VoidKinds
    <3> QED BY <3>1, <3>3, Zenon
  <2> QED BY <1>2, <2>1 DEF VoidCall
<1>5. Loads(c) /\ CallShape(c) /\ ~InBatch(c)
  BY <1>4 DEF Loads, CallShape, InBatch
<1>6. VoidTypes
  <2>1. [s \in VoidScenes |-> <<>>] \in [VoidScenes -> Seq(BOOLEAN)]
    OBVIOUS
  <2> QED BY <1>3, <1>4, <1>5, <2>1 DEF VoidInit, VoidTypes
<1>7. CallsTangle /\ ReadsKnow /\ ShownIsStored
  BY <1>3, <1>4, <1>5 DEF VoidInit, CallsTangle, ReadsKnow, ShownIsStored
<1>8. BatchIsSent
  <2>1. NoBatch \in [action: BatchKinds \cup {"none", "stuck"}, of: Lists,
                     todo: SUBSET VoidScenes, bad: SUBSET VoidScenes]
        /\ NoBatch.todo = {} /\ NoBatch.bad = {}
    BY DEF NoBatch, Lists
  <2> QED BY <1>3, <1>5, <2>1 DEF VoidInit, BatchIsSent
<1> QED BY <1>6, <1>7, <1>8 DEF VoidInv

LEMMA VoidStep == VoidInv /\ [VoidNext]_voidVars => VoidInv'
<1> SUFFICES ASSUME VoidInv, [VoidNext]_voidVars PROVE VoidInv'
  OBVIOUS
<1>1. CASE UNCHANGED voidVars
  <2>1. VoidTypes' /\ CallsTangle' /\ ReadsKnow' /\ ShownIsStored'
    BY <1>1, CallsStay DEF voidVars, VoidInv, VoidTypes
  <2>2. BatchIsSent'
    BY <1>1 DEF voidVars, VoidInv, BatchIsSent, InBatch
  <2> QED BY <2>1, <2>2 DEF VoidInv
<1>2. ASSUME NEW s \in VoidScenes, SaveScene(s) PROVE VoidInv'
  <2>1. TRUE \in BOOLEAN
    OBVIOUS
  <2> QED BY <1>2, <2>1, ButtonsKeep
<1>3. ASSUME NEW s \in VoidScenes, NEW watched \in BOOLEAN, ToggleWatched(s, watched) \/ RemoveScene(s, watched)
      PROVE  VoidInv'
  BY <1>3, ButtonsKeep
<1>4. ASSUME NEW u \in undos, UndoRemoval(u) PROVE VoidInv'
  BY <1>4, UndoKeeps
<1>5. ASSUME NEW c \in voidCalls, ServeCall(c) \/ ServeList(c) PROVE VoidInv'
  BY <1>5, ServeKeeps, ServeListKeeps
<1>6. ASSUME NEW c \in voidCalls, HearChange(c) \/ HearSaved(c) \/ LoadWatchlist(c) \/ FailCall(c) PROVE VoidInv'
  BY <1>6, CallHearKeeps, SavedKeeps, LoadKeeps, FailKeeps
<1>7. ASSUME NEW l \in Lists, NEW S \in SUBSET Cards(l), Pick(l, S) PROVE VoidInv'
  BY <1>7, PickKeeps
<1>8. ASSUME NEW l \in Lists, NEW action \in BatchKinds, BeginBatch(action, l) PROVE VoidInv'
  BY <1>8, BatchBeginKeeps
<1>9. CASE BatchSteps
  <2>1. ASSUME NEW c \in voidCalls, InBatch(c), (\E ok \in BOOLEAN : SettleCall(c, ok)) \/ LoadWatchlist(c) \/ FailReload(c)
        PROVE  VoidInv'
    BY <2>1, SettleKeeps, LoadKeeps, FailReloadKeeps
  <2> QED BY <1>9, <2>1, SendKeeps, EndBatchKeeps DEF BatchSteps, BatchCalls
<1> QED BY <1>1, <1>2, <1>3, <1>4, <1>5, <1>6, <1>7, <1>8, <1>9 DEF VoidNext, BatchCalls, BatchKinds

\* What the view shows of a scene is what is stored, unless a call about it is under way or
\* has tangled it; a list that was read undisturbed untangles what nobody else was about
\* (loadWatchlist, removeWatchlist, toggleWatched).
THEOREM UntangledScenesAreTrue == VoidSpec => [](UntangledIsTrue /\ VoidTypeOK)
<1>1. VoidInv => UntangledIsTrue
  BY DEF VoidInv, ShownIsStored, UntangledIsTrue
<1>2. VoidInv => VoidTypeOK
  <2> SUFFICES ASSUME VoidInv PROVE VoidTypeOK
    OBVIOUS
  <2>1. ASSUME NEW s \in VoidScenes, s \notin tangled PROVE ~(Len(listed[s]) > 1)
    <3>1. Len(Entries(s)) <= 1 /\ Len(Entries(s)) \in Nat /\ Len(listed[s]) \in Nat
      BY EntriesIs DEF VoidInv, VoidTypes
    <3>2. CASE \A c \in voidCalls : s \notin Footprint(c)
      BY <2>1, <3>1, <3>2 DEF VoidInv, ShownIsStored
    <3>3. CASE \E c \in voidCalls : s \in Footprint(c)
      <4>1. PICK c \in voidCalls : s \in Footprint(c)
        BY <3>3
      <4>2. ShownAs(c, s, listed[s], Entries(s))
        BY <2>1, <4>1 DEF VoidInv, ShownIsStored
      <4>3. listed[s] = <<~c.watched>> \/ listed[s] = <<>> \/ Len(listed[s]) <= 1 \/ listed[s] = Entries(s)
        BY <4>2 DEF ShownAs
      <4>4. \A b : Len(<<b>>) <= 1
        OBVIOUS
      <4>5. CASE listed[s] = <<~c.watched>>
        BY <4>4, <4>5
      <4>6. CASE listed[s] = <<>>
        BY <4>6
      <4> QED BY <3>1, <4>3, <4>5, <4>6
    <3> QED BY <3>2, <3>3
  <2>2. \A s \in VoidScenes : results[s] = "extracting" => batch.action = "extract"
    BY DEF VoidInv, BatchIsSent
  <2> QED BY <2>1, <2>2 DEF VoidInv, VoidTypes, BatchIsSent, VoidTypeOK
<1> QED BY <1>1, <1>2, VoidStarts, VoidStep, PTL DEF VoidSpec

-----------------------------------------------------------------------------
(* Signing in.                                                             *)

HelperSteps == {"window", "captured", "saved", "failed", "over"}

AuthPoll ==
    [active: BOOLEAN, step: {"waiting", "answered"}, state: States \cup {"unknown"}, after: Nat]

AuthAction ==
    [kind: {"signIn", "cancel", "signOut"}, step: {"posting", "waiting", "answered", "over"},
     state: States \cup {"unknown", "failed"}, after: Nat]

\* The actor.  A login that is under way is waited for, and was not listened to yet.
ActorHolds ==
    /\ authState \in States /\ stored \in BOOLEAN /\ ytDlp \in BOOLEAN /\ signingOut \in BOOLEAN
    /\ helpers \in Seq(HelperSteps)
    /\ loginID \in 0..Len(helpers)
    /\ loginID # 0 => helpers[loginID] # "over"
    /\ authState = "signingIn" => loginID # 0

SettingsTypes ==
    /\ carriedOut \in Nat /\ onSettings \in BOOLEAN /\ pollArmed \in BOOLEAN
    /\ shownStatus \in [state: States, after: 0..carriedOut] \cup {Unknown}
    /\ polls \subseteq AuthPoll
    /\ actions \in Seq(AuthAction)
    /\ \A p \in polls : p.step = "answered" => p.state # "unknown"
    /\ \A a \in DOMAIN actions : actions[a].step = "answered" => actions[a].state # "unknown"

\* No answer is of a time that has not come.
AnswersAreOfThePast ==
    /\ \A p \in polls : p.after <= carriedOut
    /\ \A a \in DOMAIN actions : actions[a].after <= carriedOut

\* A poll that is listened to will not show less than what is shown, and the effect that
\* has one has no timer.
ListenedIsNewer ==
    /\ pollArmed => onSettings /\ \A p \in polls : ~p.active
    /\ \A p \in polls : p.active =>
           onSettings /\ (p.step = "answered" => shownStatus.after <= p.after)

SettingsHold == SettingsTypes /\ AnswersAreOfThePast /\ ListenedIsNewer

SignInInv == ActorHolds /\ SettingsHold

\* An update of a sequence, at an index it has or not.
LEMMA SeqUpdate ==
    ASSUME NEW S, NEW s \in Seq(S), NEW i, NEW e, i \in DOMAIN s => e \in S
    PROVE  LET t == [s EXCEPT ![i] = e]
           IN  /\ t \in Seq(S) /\ Len(t) = Len(s) /\ DOMAIN t = DOMAIN s
               /\ \A j \in DOMAIN s : t[j] = IF j = i THEN e ELSE s[j]
<1>1. CASE i \in DOMAIN s
  BY <1>1, ExceptSeq
<1>2. CASE i \notin DOMAIN s
  <2>1. [s EXCEPT ![i] = e] = s
    BY <1>2
  <2> QED BY <1>2, <2>1
<1> QED BY <1>1, <1>2

LEMMA SignInStarts == SignInInit => SignInInv
<1> SUFFICES ASSUME SignInInit PROVE SignInInv
  OBVIOUS
<1>1. ActorHolds
  <2>1. helpers = <<>> /\ Len(helpers) = 0 /\ helpers \in Seq(HelperSteps)
    BY DEF SignInInit
  <2>2. loginID = 0 /\ 0 \in 0..Len(helpers)
    BY <2>1 DEF SignInInit
  <2>3. authState \in States /\ authState # "signingIn" /\ stored \in BOOLEAN /\ ytDlp = FALSE /\ signingOut = FALSE
    BY DEF SignInInit, States
  <2> QED BY <2>1, <2>2, <2>3 DEF ActorHolds
<1>2. shownStatus.after = 0
  BY DEF SignInInit, Unknown
<1>3. SettingsHold
  BY <1>2 DEF SignInInit, SettingsHold, SettingsTypes, AnswersAreOfThePast, ListenedIsNewer
<1> QED BY <1>1, <1>3 DEF SignInInv

LEMMA ShownIsPast == ASSUME SettingsTypes PROVE shownStatus.after \in 0..carriedOut
  BY DEF SettingsTypes, Unknown

-----------------------------------------------------------------------------
(* The actor: what it makes of a command, and of its tasks.                *)

LEMMA RefreshedIsAState ==
    /\ Refreshed \in States
    /\ Refreshed = "signingIn" => authState = "signingIn"
  BY DEF Refreshed, States

LEMMA CancelledHelpers ==
    ASSUME ActorHolds
    PROVE  /\ Cancelled(helpers) \in Seq(HelperSteps) /\ Len(Cancelled(helpers)) = Len(helpers)
<1>1. DOMAIN helpers = 1..Len(helpers) /\ Len(helpers) \in Nat /\ \A i \in 1..Len(helpers) : helpers[i] \in HelperSteps
  BY DEF ActorHolds
<1>2. \A i \in 1..Len(helpers) : (IF i = loginID /\ helpers[i] = "window" THEN "failed" ELSE helpers[i]) \in HelperSteps
  BY <1>1 DEF HelperSteps
<1> QED BY <1>1, <1>2, IsASeq DEF Cancelled

\* A task goes on.
LEMMA HelperMoves ==
    ASSUME ActorHolds, NEW i \in DOMAIN helpers, NEW from, NEW to \in HelperSteps \ {"over"},
           Helper(i, from, to), stored' \in BOOLEAN, UNCHANGED <<authState, loginID, signingOut, ytDlp>>
    PROVE  ActorHolds'
<1>1. helpers' \in Seq(HelperSteps) /\ Len(helpers') = Len(helpers)
      /\ \A j \in DOMAIN helpers : helpers'[j] = IF j = i THEN to ELSE helpers[j]
  BY SeqUpdate DEF ActorHolds, Helper
<1>2. loginID # 0 => loginID \in DOMAIN helpers
  BY DEF ActorHolds
<1> QED BY <1>1, <1>2 DEF ActorHolds

LEMMA ActorStep ==
    ASSUME ActorHolds,
           \/ AnswerStatus \/ Login \/ RefuseLogin \/ CancelLogin \/ Logout \/ EndLogout
           \/ ReadCookies \/ StartYtDlp \/ EndYtDlp
           \/ \E i \in DOMAIN helpers : Capture(i) \/ CaptureFails(i) \/ SaveSession(i) \/ CompleteLogin(i)
    PROVE  ActorHolds'
<1>0. DOMAIN helpers = 1..Len(helpers) /\ Len(helpers) \in Nat
  BY DEF ActorHolds
<1>1. CASE AnswerStatus \/ RefuseLogin
  BY <1>1, RefreshedIsAState DEF AnswerStatus, RefuseLogin, ActorHolds
<1>2. CASE Login
  <2>1. helpers' = Append(helpers, "window") /\ loginID' = Len(helpers) + 1
    BY <1>2 DEF Login
  <2>2. helpers' \in Seq(HelperSteps) /\ Len(helpers') = Len(helpers) + 1 /\ helpers'[Len(helpers) + 1] = "window"
    BY <2>1 DEF ActorHolds, HelperSteps
  <2>3. authState' = "signingIn" /\ stored' = FALSE /\ UNCHANGED <<signingOut, ytDlp>>
    BY <1>2 DEF Login
  <2>4. loginID' # 0 /\ loginID' \in 0..Len(helpers')
    BY <1>0, <2>1, <2>2
  <2> QED BY <2>1, <2>2, <2>3, <2>4 DEF ActorHolds, States
<1>3. CASE CancelLogin
  <2>1. CASE authState = "signingIn"
    <3>1. authState' = "signedOut" /\ loginID' = 0 /\ stored' = FALSE /\ helpers' = Cancelled(helpers)
          /\ UNCHANGED <<signingOut, ytDlp>>
      BY <1>3, <2>1 DEF CancelLogin
    <3>2. helpers' \in Seq(HelperSteps) /\ loginID' = 0 /\ 0 \in 0..Len(helpers')
      BY <1>0, <3>1, CancelledHelpers
    <3>3. authState' \in States /\ authState' # "signingIn" /\ stored' \in BOOLEAN
      BY <3>1 DEF States
    <3> QED BY <3>1, <3>2, <3>3 DEF ActorHolds
  <2>2. CASE authState # "signingIn"
    BY <1>3, <2>2 DEF CancelLogin, ActorHolds
  <2> QED BY <2>1, <2>2
<1>4. CASE Logout
  <2>1. authState' = "signedOut" /\ loginID' = 0 /\ stored' = FALSE /\ helpers' = Cancelled(helpers)
        /\ signingOut' = TRUE /\ UNCHANGED ytDlp
    BY <1>4 DEF Logout
  <2>2. helpers' \in Seq(HelperSteps) /\ loginID' = 0 /\ 0 \in 0..Len(helpers')
    BY <1>0, <2>1, CancelledHelpers
  <2>3. authState' \in States /\ authState' # "signingIn" /\ stored' \in BOOLEAN
    BY <2>1 DEF States
  <2> QED BY <2>1, <2>2, <2>3 DEF ActorHolds
<1>5. CASE EndLogout \/ ReadCookies \/ StartYtDlp \/ EndYtDlp
  BY <1>5 DEF EndLogout, ReadCookies, StartYtDlp, EndYtDlp, ActorHolds, States
<1>6. ASSUME NEW i \in DOMAIN helpers, Capture(i) \/ CaptureFails(i) \/ SaveSession(i) PROVE ActorHolds'
  <2>1. stored' \in BOOLEAN /\ UNCHANGED <<authState, loginID, signingOut, ytDlp>>
    BY <1>6 DEF Capture, CaptureFails, SaveSession, ActorHolds
  <2>2. \/ Helper(i, "window", "captured") \/ Helper(i, "window", "failed") \/ Helper(i, "captured", "saved")
    BY <1>6 DEF Capture, CaptureFails, TimesOut, SaveSession
  <2> QED BY <2>1, <2>2, HelperMoves DEF HelperSteps
<1>7. ASSUME NEW i \in DOMAIN helpers, CompleteLogin(i) PROVE ActorHolds'
  <2>1. helpers' \in Seq(HelperSteps) /\ Len(helpers') = Len(helpers)
        /\ \A j \in DOMAIN helpers : helpers'[j] = IF j = i THEN "over" ELSE helpers[j]
    BY <1>7, SeqUpdate DEF CompleteLogin, ActorHolds, HelperSteps
  <2>2. loginID # 0 => loginID \in DOMAIN helpers
    BY DEF ActorHolds
  <2>3. CASE i # loginID
    BY <1>7, <2>1, <2>2, <2>3 DEF CompleteLogin, ActorHolds
  <2>4. CASE i = loginID
    <3>1. loginID' = 0 /\ stored' \in BOOLEAN /\ authState' \in {"signedIn", "signedOut"}
      BY <1>7, <2>4 DEF CompleteLogin, ActorHolds
    <3> QED BY <1>0, <1>7, <2>1, <3>1 DEF CompleteLogin, ActorHolds, States
  <2> QED BY <2>3, <2>4
<1> QED BY <1>1, <1>2, <1>3, <1>4, <1>5, <1>6, <1>7

-----------------------------------------------------------------------------
(* The view.                                                               *)

\* The Mac answers a command: those who wait learn what is so now.
LEMMA ActorAnswerKeeps ==
    ASSUME SettingsHold, NEW state \in States \cup {"failed"}, Answer(state),
           state = "failed" => Head(authQueue) # Status
    PROVE  SettingsHold' /\ UNCHANGED shownStatus
<1> USE DEF SettingsHold
<1> DEFINE command == Head(authQueue)
           after == IF command = Status THEN carriedOut ELSE carriedOut + 1
           Told(w) == [w EXCEPT !.step = "answered", !.state = state, !.after = after]
<1>1. /\ carriedOut' = after
      /\ polls' = IF command = Status
                    THEN {IF p.step = "waiting" THEN Told(p) ELSE p : p \in polls} ELSE polls
      /\ actions' = IF command = Status THEN actions ELSE [actions EXCEPT ![command] = Told(actions[command])]
      /\ UNCHANGED <<shownStatus, pollArmed, pollError, onSettings, working>>
  BY DEF Answer
<1>2. carriedOut \in Nat /\ after \in Nat /\ carriedOut <= after
  BY DEF SettingsTypes
<1>3. \A w \in AuthPoll : state # "failed" =>
         /\ Told(w) \in AuthPoll /\ Told(w).active = w.active /\ Told(w).step = "answered"
         /\ Told(w).state = state /\ Told(w).after = after
  BY <1>2 DEF AuthPoll
<1>4. \A w \in AuthAction :
         /\ Told(w) \in AuthAction /\ Told(w).step = "answered" /\ Told(w).state = state /\ Told(w).after = after
  BY <1>2 DEF AuthAction
<1> HIDE DEF command, after, Told
<1>5. ASSUME NEW p \in polls'
      PROVE  \/ p \in polls
             \/ \E w \in polls : state # "failed" /\ p = Told(w) /\ command = Status
  BY <1>1 DEF command
<1>6. ASSUME NEW p \in polls'
      PROVE  /\ p \in AuthPoll /\ p.after <= after /\ (p.step = "answered" => p.state # "unknown")
             /\ p.active => onSettings /\ (p.step = "answered" => shownStatus.after <= p.after)
             /\ \E w \in polls : p.active = w.active
  <2>1. CASE p \in polls
    BY <1>2, <2>1 DEF SettingsTypes, AnswersAreOfThePast, ListenedIsNewer, AuthPoll
  <2>2. ASSUME NEW w \in polls, state # "failed", p = Told(w)
        PROVE  /\ p \in AuthPoll /\ p.after <= after /\ p.state # "unknown"
               /\ p.active = w.active /\ (p.active => onSettings /\ shownStatus.after <= p.after)
    <3>1. w \in AuthPoll /\ (w.active => onSettings)
      BY DEF SettingsTypes, ListenedIsNewer
    <3>2. shownStatus.after <= after
      BY <1>2, ShownIsPast
    <3> QED BY <1>2, <1>3, <2>2, <3>1, <3>2 DEF States
  <2> QED BY <1>5, <2>1, <2>2
<1>7. /\ actions' \in Seq(AuthAction) /\ DOMAIN actions' = DOMAIN actions
      /\ \A a \in DOMAIN actions : actions'[a] = actions[a] \/ actions'[a] = Told(actions[a])
  <2>1. \A a \in DOMAIN actions : actions[a] \in AuthAction
    BY DEF SettingsTypes
  <2>2. command \in DOMAIN actions => Told(actions[command]) \in AuthAction
    BY <1>4, <2>1
  <2>3. CASE command = Status
    BY <1>1, <2>3 DEF SettingsTypes
  <2>4. CASE command # Status
    <3>1. actions' = [actions EXCEPT ![command] = Told(actions[command])]
      BY <1>1, <2>4
    <3>2. actions \in Seq(AuthAction)
      BY DEF SettingsTypes
    <3> HIDE DEF AuthAction
    <3> QED BY <2>2, <3>1, <3>2, SeqUpdate
  <2> QED BY <2>3, <2>4
<1>8. ASSUME NEW a \in DOMAIN actions'
      PROVE  actions'[a].after <= after /\ (actions'[a].step = "answered" => actions'[a].state # "unknown")
  <2>1. a \in DOMAIN actions /\ actions[a] \in AuthAction /\ actions[a].after <= carriedOut
    BY <1>7 DEF SettingsTypes, AnswersAreOfThePast
  <2>2. actions[a].step = "answered" => actions[a].state # "unknown"
    BY <2>1 DEF SettingsTypes
  <2>3. actions[a].after <= after
    BY <1>2, <2>1 DEF AuthAction
  <2> QED BY <1>2, <1>4, <1>7, <2>1, <2>2, <2>3 DEF States
<1>9. shownStatus \in [state: States, after: 0..after] \cup {Unknown}
  BY <1>2 DEF SettingsTypes
<1>10. SettingsTypes'
  BY <1>1, <1>2, <1>6, <1>7, <1>8, <1>9 DEF SettingsTypes
<1>11. AnswersAreOfThePast'
  BY <1>1, <1>6, <1>8 DEF AnswersAreOfThePast
<1>12. ListenedIsNewer'
  BY <1>1, <1>6 DEF ListenedIsNewer
<1> QED BY <1>1, <1>10, <1>11, <1>12

\* A status is shown: the others are no longer listened to.
LEMMA ShowKeeps ==
    ASSUME SettingsHold, NEW state \in States, NEW after \in 0..carriedOut,
           NEW others, others \subseteq polls, Show(state, after, others), UNCHANGED <<carriedOut, onSettings>>,
           actions' \in Seq(AuthAction),
           \A a \in DOMAIN actions' : (actions'[a].after <= carriedOut /\ actions'[a].step # "answered") \/ (a \in DOMAIN actions /\ actions'[a] = actions[a])
    PROVE  SettingsHold' /\ shownStatus'.after = after
<1> USE DEF SettingsHold
<1>1. shownStatus' = [state |-> state, after |-> after] /\ polls' = (IF onSettings THEN StopListening(others) ELSE others)
      /\ pollArmed' = (onSettings /\ AsksAgain([state |-> state, after |-> after]))
  BY DEF Show
<1>2. ASSUME NEW p \in polls'
      PROVE  /\ p \in AuthPoll /\ ~p.active /\ p.after <= carriedOut
             /\ p.step = "answered" => p.state # "unknown"
  <2>1. PICK w \in polls : p = [w EXCEPT !.active = FALSE] \/ (p = w /\ ~onSettings)
    BY <1>1 DEF StopListening
  <2>2. w \in AuthPoll /\ w.after <= carriedOut /\ (w.step = "answered" => w.state # "unknown")
        /\ (~onSettings => ~w.active)
    BY DEF SettingsTypes, AnswersAreOfThePast, ListenedIsNewer
  <2> QED BY <2>1, <2>2 DEF AuthPoll
<1>3. SettingsTypes'
  BY <1>1, <1>2 DEF SettingsTypes, AsksAgain
<1>4. AnswersAreOfThePast'
  BY <1>1, <1>2 DEF AnswersAreOfThePast
<1>5. ListenedIsNewer'
  BY <1>1, <1>2 DEF ListenedIsNewer
<1> QED BY <1>1, <1>3, <1>4, <1>5

\* A poll is made, forgotten or no longer listened to, a press is made or is over.
LEMMA ViewKeeps ==
    ASSUME SettingsHold, UNCHANGED <<carriedOut, shownStatus>>, onSettings' \in BOOLEAN, pollArmed' \in BOOLEAN,
           \A p \in polls' : \/ p \in polls /\ (p.active => onSettings')
                             \/ /\ p \in AuthPoll /\ p.after <= carriedOut
                                /\ p.active => onSettings' /\ p.step = "waiting"
                                /\ p.step = "answered" => p.state # "unknown",
           pollArmed' => onSettings' /\ \A p \in polls' : ~p.active,
           actions' \in Seq(AuthAction),
           \A a \in DOMAIN actions' : (actions'[a].after <= carriedOut /\ actions'[a].step # "answered") \/ (a \in DOMAIN actions /\ actions'[a] = actions[a])
    PROVE  SettingsHold'
<1> USE DEF SettingsHold
<1>1. SettingsTypes'
  BY DEF SettingsTypes
<1>2. AnswersAreOfThePast'
  BY DEF AnswersAreOfThePast
<1>3. ListenedIsNewer'
  BY DEF ListenedIsNewer
<1> QED BY <1>1, <1>2, <1>3

LEMMA PressMoves ==
    ASSUME SettingsHold, NEW a \in DOMAIN actions, NEW step \in {"waiting", "over"},
           actions' = [actions EXCEPT ![a].step = step]
    PROVE  /\ actions' \in Seq(AuthAction)
           /\ \A x \in DOMAIN actions' : (actions'[x].after <= carriedOut /\ actions'[x].step # "answered") \/ (x \in DOMAIN actions /\ actions'[x] = actions[x])
           /\ actions'[a].step = step
<1> DEFINE e == [actions[a] EXCEPT !.step = step]
<1>1. actions \in Seq(AuthAction) /\ actions[a] \in AuthAction /\ actions[a].after <= carriedOut
  BY DEF SettingsHold, SettingsTypes, AnswersAreOfThePast
<1>2. e \in AuthAction /\ e.step = step /\ e.after = actions[a].after
  BY <1>1 DEF AuthAction
<1>3. actions' = [actions EXCEPT ![a] = e]
  OBVIOUS
<1> HIDE DEF e
<1>4. /\ actions' \in Seq(AuthAction) /\ DOMAIN actions' = DOMAIN actions
      /\ \A j \in DOMAIN actions : actions'[j] = IF j = a THEN e ELSE actions[j]
  BY <1>1, <1>2, <1>3, SeqUpdate
<1> QED BY <1>1, <1>2, <1>4

LEMMA PollSteps ==
    ASSUME SettingsHold, StartPoll \/ \E p \in polls : EndPoll(p) \/ FailPoll(p)
    PROVE  SettingsHold' /\ shownStatus'.after >= shownStatus.after
<1> USE DEF SettingsHold
<1>0. shownStatus.after \in 0..carriedOut /\ carriedOut \in Nat
  BY ShownIsPast DEF SettingsTypes
<1>1. CASE StartPoll
  <2> DEFINE w == [active |-> TRUE, step |-> "waiting", state |-> "unknown", after |-> 0]
  <2>1. w \in AuthPoll /\ w.after = 0 /\ w.step = "waiting"
    BY DEF AuthPoll
  <2>2. onSettings /\ polls' = polls \cup {w} /\ ~pollArmed'
        /\ UNCHANGED <<carriedOut, shownStatus, actions, onSettings>>
    BY <1>1 DEF StartPoll, ListenedIsNewer
  <2> HIDE DEF w
  <2>3. ~pollArmed' /\ pollArmed' \in BOOLEAN
    BY <1>1 DEF StartPoll
  <2>4. w.after <= carriedOut
    BY <1>0, <2>1
  <2>5. \A p \in polls' : p = w \/ (p \in polls /\ (p.active => onSettings))
    BY <2>2 DEF ListenedIsNewer
  <2>6. actions' \in Seq(AuthAction) /\ \A a \in DOMAIN actions' : a \in DOMAIN actions /\ actions'[a] = actions[a]
    BY <2>2 DEF SettingsTypes
  <2>7. SettingsHold'
    BY <2>1, <2>2, <2>3, <2>4, <2>5, <2>6, ViewKeeps DEF SettingsTypes
  <2> QED BY <1>0, <2>2, <2>7
<1>2. ASSUME NEW p \in polls, EndPoll(p) PROVE SettingsHold' /\ shownStatus'.after >= shownStatus.after
  <2>1. p \in AuthPoll /\ p.after \in 0..carriedOut /\ p.state \in States /\ p.step = "answered"
    BY <1>0, <1>2 DEF EndPoll, SettingsTypes, AnswersAreOfThePast, AuthPoll
  <2>2. CASE p.active
    <3>1. Show(p.state, p.after, polls \ {p}) /\ UNCHANGED <<carriedOut, onSettings, actions>>
      BY <1>2, <2>2 DEF EndPoll
    <3>2. SettingsHold' /\ shownStatus'.after = p.after
      BY <2>1, <3>1, ShowKeeps DEF SettingsTypes
    <3>3. shownStatus.after <= p.after
      BY <2>1, <2>2 DEF ListenedIsNewer
    <3> QED BY <1>0, <2>1, <3>2, <3>3
  <2>3. CASE ~p.active
    <3>1. polls' = polls \ {p} /\ UNCHANGED <<carriedOut, shownStatus, pollArmed, actions, onSettings>>
      BY <1>2, <2>3 DEF EndPoll
    <3> QED BY <1>0, <3>1, ViewKeeps DEF SettingsTypes, ListenedIsNewer
  <2> QED BY <2>1, <2>2, <2>3 DEF AuthPoll
<1>3. ASSUME NEW p \in polls, FailPoll(p) PROVE SettingsHold' /\ shownStatus'.after >= shownStatus.after
  <2>1. polls' = polls \ {p} /\ UNCHANGED <<carriedOut, shownStatus, pollArmed, actions, onSettings>>
    BY <1>3 DEF FailPoll
  <2> QED BY <1>0, <2>1, ViewKeeps DEF SettingsTypes, ListenedIsNewer
<1> QED BY <1>1, <1>2, <1>3

LEMMA PressSteps ==
    ASSUME SettingsHold,
           \/ PressAuth \/ LeaveSettings \/ OpenSettings
           \/ \E a \in DOMAIN actions : PostAuth(a) \/ EndAction(a) \/ FailAction(a)
    PROVE  /\ SettingsHold'
           /\ \/ shownStatus'.after >= shownStatus.after
              \/ \E a \in DOMAIN actions : actions[a].step = "answered" /\ actions'[a].step = "over"
<1> USE DEF SettingsHold
<1>0. shownStatus.after \in 0..carriedOut /\ carriedOut \in Nat
  BY ShownIsPast DEF SettingsTypes
<1>1. CASE PressAuth
  <2> DEFINE e == [kind |-> ButtonKind, step |-> "posting", state |-> "unknown", after |-> 0]
  <2>1. e \in AuthAction /\ e.after = 0 /\ e.step = "posting"
    BY DEF AuthAction, ButtonKind
  <2>2. actions' = Append(actions, e) /\ UNCHANGED <<carriedOut, shownStatus, polls, pollArmed, onSettings>>
    BY <1>1 DEF PressAuth
  <2> HIDE DEF e
  <2>3. actions \in Seq(AuthAction)
    BY DEF SettingsTypes
  <2>4. /\ actions' \in Seq(AuthAction)
        /\ \A a \in DOMAIN actions' : actions'[a] = e \/ (a \in DOMAIN actions /\ actions'[a] = actions[a])
    BY <2>1, <2>2, <2>3, AppendProperties
  <2> QED BY <1>0, <2>1, <2>2, <2>4, ViewKeeps DEF SettingsTypes, ListenedIsNewer
<1>2. CASE LeaveSettings
  <2>1. /\ ~onSettings' /\ ~pollArmed' /\ pollArmed' \in BOOLEAN /\ onSettings' \in BOOLEAN
        /\ polls' = StopListening(polls) /\ UNCHANGED <<carriedOut, shownStatus, actions>>
    BY <1>2 DEF LeaveSettings
  <2>2. ASSUME NEW p \in polls'
        PROVE  p \in AuthPoll /\ p.after <= carriedOut /\ ~p.active /\ (p.step = "answered" => p.state # "unknown")
    <3>1. PICK w \in polls : p = [w EXCEPT !.active = FALSE]
      BY <2>1 DEF StopListening
    <3>2. w \in AuthPoll /\ w.after <= carriedOut /\ (w.step = "answered" => w.state # "unknown")
      BY DEF SettingsTypes, AnswersAreOfThePast
    <3> QED BY <3>1, <3>2 DEF AuthPoll
  <2>3. actions \in Seq(AuthAction) /\ \A a \in DOMAIN actions' : a \in DOMAIN actions /\ actions'[a] = actions[a]
    BY <2>1 DEF SettingsTypes
  <2>4. SettingsHold'
    BY <2>1, <2>2, <2>3, ViewKeeps
  <2> QED BY <1>0, <2>1, <2>4
<1>3. CASE OpenSettings
  <2>1. \A p \in polls : ~p.active
    BY <1>3 DEF OpenSettings, ListenedIsNewer
  <2>2. /\ onSettings' = TRUE /\ pollArmed' \in BOOLEAN /\ UNCHANGED <<carriedOut, shownStatus, polls, actions>>
    BY <1>3 DEF OpenSettings, AsksAgain
  <2> QED BY <1>0, <2>1, <2>2, ViewKeeps DEF SettingsTypes
<1>4. ASSUME NEW a \in DOMAIN actions, PostAuth(a) \/ FailAction(a)
      PROVE  SettingsHold' /\ UNCHANGED shownStatus
  <2>1. /\ actions' = [actions EXCEPT ![a].step = "waiting"] \/ actions' = [actions EXCEPT ![a].step = "over"]
        /\ UNCHANGED <<carriedOut, shownStatus, polls, pollArmed, onSettings>>
    BY <1>4 DEF PostAuth, FailAction
  <2>2. /\ actions' \in Seq(AuthAction)
        /\ \A x \in DOMAIN actions' : (actions'[x].after <= carriedOut /\ actions'[x].step # "answered") \/ (x \in DOMAIN actions /\ actions'[x] = actions[x])
    BY <2>1, PressMoves
  <2> QED BY <2>1, <2>2, ViewKeeps DEF SettingsTypes, ListenedIsNewer
<1>5. ASSUME NEW a \in DOMAIN actions, EndAction(a)
      PROVE  SettingsHold' /\ actions[a].step = "answered" /\ actions'[a].step = "over"
  <2>1. /\ actions[a].step = "answered" /\ actions' = [actions EXCEPT ![a].step = "over"]
        /\ UNCHANGED <<carriedOut, onSettings>>
    BY <1>5 DEF EndAction
  <2>2. /\ actions' \in Seq(AuthAction) /\ actions'[a].step = "over"
        /\ \A x \in DOMAIN actions' : (actions'[x].after <= carriedOut /\ actions'[x].step # "answered") \/ (x \in DOMAIN actions /\ actions'[x] = actions[x])
    BY <2>1, PressMoves
  <2>3. CASE IsNewest(a) /\ actions[a].state # "failed"
    <3>1. Show(actions[a].state, actions[a].after, polls)
      BY <1>5, <2>3 DEF EndAction
    <3>2. actions[a] \in AuthAction /\ actions[a].state # "unknown" /\ actions[a].after <= carriedOut
      BY <2>1 DEF SettingsTypes, AnswersAreOfThePast
    <3>3. actions[a].state \in States /\ actions[a].after \in 0..carriedOut
      BY <1>0, <2>3, <3>2 DEF AuthAction
    <3> QED BY <2>1, <2>2, <3>1, <3>3, ShowKeeps
  <2>4. CASE ~(IsNewest(a) /\ actions[a].state # "failed")
    <3>1. UNCHANGED <<shownStatus, polls, pollArmed>>
      BY <1>5, <2>4 DEF EndAction
    <3> QED BY <2>1, <2>2, <3>1, ViewKeeps DEF SettingsTypes, ListenedIsNewer
  <2> QED BY <2>1, <2>2, <2>3, <2>4
<1> QED BY <1>0, <1>1, <1>2, <1>3, <1>4, <1>5

LEMMA ServeSteps ==
    ASSUME ActorHolds, SettingsHold, Serve PROVE SettingsHold' /\ UNCHANGED shownStatus
<1>1. CASE AnswerStatus
  BY <1>1, ActorAnswerKeeps, RefreshedIsAState DEF AnswerStatus, States
<1>2. CASE Login
  BY <1>2, ActorAnswerKeeps DEF Login, States
<1>3. CASE RefuseLogin
  <2>1. Head(authQueue) # Status
    BY <1>3 DEF RefuseLogin, Asked
  <2> QED BY <1>3, <2>1, ActorAnswerKeeps DEF RefuseLogin
<1>4. CASE CancelLogin
  <2>1. authState' \in States
    BY <1>4 DEF CancelLogin, ActorHolds, States
  <2> QED BY <1>4, <2>1, ActorAnswerKeeps DEF CancelLogin, States
<1>5. CASE Logout
  BY <1>5 DEF Logout, settingsVars, SettingsHold, SettingsTypes, AnswersAreOfThePast, ListenedIsNewer
<1>6. CASE EndLogout
  BY <1>6, ActorAnswerKeeps DEF EndLogout, States
<1> QED BY <1>1, <1>2, <1>3, <1>4, <1>5, <1>6 DEF Serve

\* A step keeps the invariant, and shows an older status only as the result of an action.
LEMMA SignInStep ==
    ASSUME SignInInv, [SignInNext]_signInVars
    PROVE  /\ SignInInv'
           /\ \/ shownStatus'.after >= shownStatus.after
              \/ \E a \in DOMAIN actions : actions[a].step = "answered" /\ actions'[a].step = "over"
<1> USE DEF SignInInv
<1>0. shownStatus.after \in Nat
  BY ShownIsPast DEF SettingsHold, SettingsTypes
<1>1. CASE Serve
  BY <1>0, <1>1, ActorStep, ServeSteps DEF Serve
<1>2. CASE \/ UNCHANGED signInVars \/ ReadCookies \/ StartYtDlp \/ EndYtDlp
           \/ \E i \in DOMAIN helpers : Capture(i) \/ LoginTask(i)
  <2>1. UNCHANGED <<carriedOut, settingsVars>>
    BY <1>2 DEF signInVars, ReadCookies, StartYtDlp, EndYtDlp, Capture, LoginTask, CaptureFails, SaveSession,
       CompleteLogin
  <2>2. SettingsHold' /\ UNCHANGED shownStatus
    BY <2>1 DEF settingsVars, SettingsHold, SettingsTypes, AnswersAreOfThePast, ListenedIsNewer
  <2>3. CASE UNCHANGED signInVars
    BY <1>0, <2>2, <2>3 DEF signInVars, agentVars, ActorHolds
  <2> QED BY <1>0, <1>2, <2>2, <2>3, ActorStep DEF LoginTask
<1>3. CASE StartPoll \/ \E p \in polls : EndPoll(p) \/ FailPoll(p)
  <2>1. UNCHANGED agentVars
    BY <1>3 DEF StartPoll, EndPoll, FailPoll
  <2> QED BY <1>3, <2>1, PollSteps DEF agentVars, ActorHolds
<1>4. CASE \/ PressAuth \/ LeaveSettings \/ OpenSettings
           \/ \E a \in DOMAIN actions : PostAuth(a) \/ EndAction(a) \/ FailAction(a)
  <2>1. UNCHANGED agentVars
    BY <1>4 DEF PressAuth, LeaveSettings, OpenSettings, PostAuth, EndAction, FailAction
  <2>2. ActorHolds'
    BY <2>1 DEF agentVars, ActorHolds
  <2> QED BY <1>4, <2>2, PressSteps
<1> QED BY <1>1, <1>2, <1>3, <1>4 DEF SignInNext, PollAuth

\* StatusNeverGoesBack: whatever the order in which the polls and the presses of the
\* Settings view are answered, an older status than the one shown is shown only as the
\* result of a press; and the actor waits for the login it says is under way.
THEOREM StatusIsCurrent == SignInSpec => []SignInTypeOK /\ StatusNeverGoesBack
<1>1. SignInInv /\ [SignInNext]_signInVars => SignInInv'
  BY SignInStep
<1>2. SignInInv /\ [SignInNext]_signInVars =>
        [\/ shownStatus'.after >= shownStatus.after
         \/ \E a \in DOMAIN actions : actions[a].step = "answered" /\ actions'[a].step = "over"]_signInVars
  BY SignInStep
<1>3. SignInInv => SignInTypeOK
  BY DEF SignInInv, ActorHolds, SettingsHold, SettingsTypes, ListenedIsNewer, SignInTypeOK, HelperSteps
<1> QED BY <1>1, <1>2, <1>3, SignInStarts, PTL DEF SignInSpec, StatusNeverGoesBack

-----------------------------------------------------------------------------
(* The Destinations page.                                                  *)

Modes == {"default", "custom"}
LocalWrites == {"choose", "reset"}

\* What an answer says was so on the Mac; the folders are those of the path asked about.
HeardHolds(heard, p) ==
    heard # NoNews =>
        /\ heard.path \in Paths /\ heard.mode \in Modes
        /\ \A q \in heard.folders : q # RootPath /\ Front(q) = p

\* A call is a record of these fields.
IsACall(c) == c = [n |-> c.n, kind |-> c.kind, path |-> c.path, live |-> c.live, heard |-> c.heard]

\* A call.  Those that only read for the page are of the page that is open.
CallHolds(c) ==
    /\ IsACall(c)
    /\ c.kind \in Writes \cup {"list", "status", "folders"}
    /\ c.n \in 0..drivePresses /\ c.live \in BOOLEAN
    /\ c.kind = "create" => c.path \in Paths
    /\ c.kind = "status" => c.live /\ onPage
    /\ c.kind = "list" /\ onPage => c.live
    /\ HeardHolds(c.heard, c.path)

DriveTypes ==
    /\ driveTree \subseteq Paths /\ RootPath \in driveTree /\ drivePath \in driveTree
    /\ localMode \in Modes /\ shownMode \in Modes \cup {"unknown"}
    /\ shownPath \in Paths \cup {NoPath}
    /\ drivePresses \in Nat

\* The box has the folders of its path; while it is loading, its call is under way.
BoxHolds ==
    /\ \A p \in box.folders : p # RootPath /\ Front(p) = box.path
    /\ box.loading => \E c \in driveCalls : c.live /\ c.kind = "folders" /\ c.path = box.path

\* Unless two calls that list the destinations crossed: there is one at most, and it heard
\* what is so; where there is none, the page shows it.
ListsKnow ==
    ~listsCrossed =>
        /\ \A c, d \in driveCalls : c.kind \in Listings /\ d.kind \in Listings => c = d
        /\ \A c \in driveCalls : c.kind \in Listings => c.heard = NoNews \/ c.heard.path = drivePath
        /\ onPage /\ ~missed => shownPath = drivePath \/ \E c \in driveCalls : c.kind \in Listings

\* What the page shows of the local folder, or the call for it will hear, is so, unless a
\* call that changes it is under way: at its end the folder is asked for again.
ModesKnow ==
    onPage /\ ~missed =>
        \/ \E c \in driveCalls : c.kind \in LocalWrites
        \/ /\ shownMode = localMode \/ \E c \in driveCalls : c.kind = "status"
           /\ \A c \in driveCalls : c.kind = "status" => c.heard = NoNews \/ c.heard.mode = localMode

DriveInv ==
    /\ DriveTypes
    /\ \A c \in driveCalls : CallHolds(c)
    /\ BoxHolds /\ ListsKnow /\ ModesKnow

StatusCall == DriveCall("status", NoPath, 0)

LEMMA RootIsAPath == RootPath \in Paths
<1>1. RootPath \in [1..0 -> FolderNames]
  BY DEF RootPath
<1> QED BY <1>1, DriveAssumption DEF Paths, SeqOf

LEMMA ChildIsAPath == \A x \in FolderNames : <<x>> \in Paths
<1>1. \A x \in FolderNames : <<x>> \in [1..1 -> FolderNames]
  OBVIOUS
<1>2. 1 \in 0..DriveDepth
  BY DriveAssumption
<1> QED BY <1>1, <1>2 DEF Paths, SeqOf

\* An update of one field of a call leaves the others.
LEMMA CallUpdate ==
    ASSUME NEW c, IsACall(c), NEW v
    PROVE  /\ [c EXCEPT !.live = v] = [n |-> c.n, kind |-> c.kind, path |-> c.path, live |-> v, heard |-> c.heard]
           /\ [c EXCEPT !.heard = v] = [n |-> c.n, kind |-> c.kind, path |-> c.path, live |-> c.live, heard |-> v]
<1>1. PICK n, kind, path, live, heard : c = [n |-> n, kind |-> kind, path |-> path, live |-> live, heard |-> heard]
  BY DEF IsACall
<1> QED BY <1>1

LEMMA NewCall ==
    ASSUME NEW k, NEW p, NEW n
    PROVE  LET c == DriveCall(k, p, n)
           IN  /\ c.n = n /\ c.kind = k /\ c.path = p /\ c.live = TRUE /\ c.heard = NoNews
               /\ IsACall(c)
  BY DEF DriveCall, IsACall

LEMMA EmptyBox == NoBox.folders = {} /\ NoBox.loading = FALSE
  BY DEF NoBox

LEMMA RestartedCalls ==
    ASSUME NEW C, NEW c
    PROVE  c \in Restarted(C) <=> (c \in C /\ c.kind # "status") \/ c = StatusCall
  BY DEF Restarted, StatusCall

LEMMA StatusIsAsked ==
    /\ StatusCall.kind = "status" /\ StatusCall.heard = NoNews /\ StatusCall.live = TRUE
    /\ StatusCall.n = 0 /\ IsACall(StatusCall)
    /\ DriveTypes /\ onPage => CallHolds(StatusCall)
<1>1. /\ StatusCall.kind = "status" /\ StatusCall.heard = NoNews /\ StatusCall.live = TRUE
      /\ StatusCall.n = 0 /\ IsACall(StatusCall)
  BY DEF StatusCall, DriveCall, IsACall
<1>2. drivePresses \in Nat => 0 \in 0..drivePresses
  OBVIOUS
<1> QED BY <1>1, <1>2 DEF CallHolds, HeardHolds, DriveTypes

LEMMA DriveStarts == DriveInit => DriveInv
<1> SUFFICES ASSUME DriveInit PROVE DriveInv
  OBVIOUS
<1>1. DriveTypes
  BY RootIsAPath, ChildIsAPath DEF DriveInit, DriveTypes, Modes
<1>2. BoxHolds /\ ListsKnow /\ ModesKnow /\ driveCalls = {}
  BY EmptyBox DEF DriveInit, BoxHolds, ListsKnow, ModesKnow
<1> QED BY <1>1, <1>2 DEF DriveInv

-----------------------------------------------------------------------------
(* The reader's steps.                                                     *)

LEMMA OpenKeeps == ASSUME DriveInv, OpenPage PROVE DriveInv'
<1> USE DEF DriveInv
<1>1. /\ ~onPage /\ onPage' = TRUE /\ driveCalls' = Restarted(Listed(driveCalls))
      /\ listsCrossed' = (listsCrossed \/ \E c \in driveCalls : c.kind \in Listings)
      /\ UNCHANGED <<drivePath, driveTree, localMode, shownPath, box, shownMode, drivePresses, missed>>
  BY DEF OpenPage, onTheMac
<1> DEFINE Revived(c) == IF c.kind = "list" THEN [c EXCEPT !.live = TRUE] ELSE c
           new == DriveCall("list", NoPath, 0)
<1>2. new.kind = "list" /\ new.heard = NoNews /\ CallHolds(new)'
  <2>1. new.kind = "list" /\ new.heard = NoNews /\ new.live = TRUE /\ new.n = 0 /\ IsACall(new)
    BY DEF DriveCall, IsACall
  <2>2. 0 \in 0..drivePresses'
    BY <1>1 DEF DriveTypes
  <2> QED BY <2>1, <2>2 DEF CallHolds, HeardHolds
<1>3. \A c \in driveCalls :
         /\ Revived(c).kind = c.kind /\ Revived(c).heard = c.heard /\ Revived(c).path = c.path
         /\ c.live => Revived(c).live
         /\ c.kind # "status" => CallHolds(Revived(c))'
  <2> SUFFICES ASSUME NEW c \in driveCalls
               PROVE  /\ Revived(c).kind = c.kind /\ Revived(c).heard = c.heard /\ Revived(c).path = c.path
                      /\ c.live => Revived(c).live
                      /\ c.kind # "status" => CallHolds(Revived(c))'
    OBVIOUS
  <2>1. CallHolds(c)
    OBVIOUS
  <2>2. CASE c.kind = "list"
    <3>1. Revived(c) = [n |-> c.n, kind |-> c.kind, path |-> c.path, live |-> TRUE, heard |-> c.heard]
      BY <2>1, <2>2, CallUpdate DEF CallHolds
    <3>2. IsACall(Revived(c))
      BY <3>1 DEF IsACall
    <3> QED BY <1>1, <2>1, <2>2, <3>1, <3>2 DEF CallHolds, HeardHolds
  <2>3. CASE c.kind # "list"
    BY <1>1, <2>1, <2>3 DEF CallHolds, HeardHolds
  <2> QED BY <2>2, <2>3
<1> HIDE DEF Revived, new
<1>4. \/ Listed(driveCalls) = {Revived(c) : c \in driveCalls} /\ \E c \in driveCalls : c.kind = "list"
      \/ Listed(driveCalls) = driveCalls \cup {new} /\ \A c \in driveCalls : c.kind # "list"
  BY DEF Listed, Revived, new
<1>5. \A d \in driveCalls' :
         \/ d = StatusCall \/ d = new
         \/ \E c \in driveCalls : d = Revived(c) /\ c.kind # "status"
  BY <1>1, <1>3, <1>4, RestartedCalls DEF Revived
<1>6. \A c \in driveCalls : c.kind # "status" => Revived(c) \in driveCalls'
  <2>1. \A c \in driveCalls : c.kind # "status" => Revived(c) \in Listed(driveCalls) /\ Revived(c).kind # "status"
    <3> SUFFICES ASSUME NEW c \in driveCalls, c.kind # "status"
                 PROVE  Revived(c) \in Listed(driveCalls) /\ Revived(c).kind # "status"
      OBVIOUS
    <3>1. CASE \E x \in driveCalls : x.kind = "list"
      BY <1>3, <1>4, <3>1
    <3>2. CASE \A x \in driveCalls : x.kind # "list"
      BY <1>3, <1>4, <3>2 DEF Revived
    <3> QED BY <3>1, <3>2
  <2> QED BY <1>1, <2>1, RestartedCalls
<1>7. StatusCall \in driveCalls' /\ \A d \in driveCalls' : d.kind = "status" => d = StatusCall
  <2>1. StatusCall \in driveCalls'
    BY <1>1, RestartedCalls
  <2> QED BY <1>2, <1>3, <1>5, <2>1
<1>8. \E d \in driveCalls' : d.kind = "list"
  BY <1>1, <1>2, <1>3, <1>4, RestartedCalls
<1>9. DriveTypes'
  BY <1>1 DEF DriveTypes
<1>10. \A d \in driveCalls' : CallHolds(d)'
  <2>0. 0 \in 0..drivePresses'
    BY <1>1 DEF DriveTypes
  <2>1. ASSUME NEW d, d = StatusCall PROVE CallHolds(d)'
    BY <1>1, <2>0, <2>1, StatusIsAsked DEF CallHolds, HeardHolds
  <2> QED BY <1>2, <1>3, <1>5, <2>1
<1>11. BoxHolds'
  <2>1. \A c \in driveCalls : c.live /\ c.kind = "folders" =>
           Revived(c) \in driveCalls' /\ Revived(c).live /\ Revived(c).kind = "folders" /\ Revived(c).path = c.path
    BY <1>3, <1>6
  <2> QED BY <1>1, <2>1 DEF BoxHolds
<1>12. ListsKnow'
  <2> SUFFICES ASSUME ~listsCrossed'
               PROVE  /\ \A c, d \in driveCalls' : c.kind \in Listings /\ d.kind \in Listings => c = d
                      /\ \A c \in driveCalls' : c.kind \in Listings => c.heard = NoNews
    BY <1>8 DEF ListsKnow, Listings
  <2>1. \A c \in driveCalls : c.kind \notin Listings
    BY <1>1
  <2>2. \A d \in driveCalls' : d.kind \in Listings => d = new
    BY <1>3, <1>5, <2>1, StatusIsAsked DEF Listings
  <2> QED BY <1>2, <2>2
<1>13. ModesKnow'
  BY <1>7, StatusIsAsked DEF ModesKnow
<1> QED BY <1>9, <1>10, <1>11, <1>12, <1>13

LEMMA LeaveKeeps == ASSUME DriveInv, LeavePage PROVE DriveInv'
<1> USE DEF DriveInv
<1> DEFINE Left(c) == [c EXCEPT !.live = FALSE]
<1>1. /\ onPage' = FALSE /\ box' = NoBox /\ shownMode' = "unknown"
      /\ driveCalls' = {Left(c) : c \in {d \in driveCalls : d.kind \notin {"status", "folders"}}}
      /\ UNCHANGED <<drivePath, driveTree, localMode, shownPath, drivePresses, listsCrossed, missed>>
  BY DEF LeavePage, onTheMac
<1>2. \A c \in driveCalls :
         /\ Left(c) = [n |-> c.n, kind |-> c.kind, path |-> c.path, live |-> FALSE, heard |-> c.heard]
         /\ Left(c).kind = c.kind /\ Left(c).heard = c.heard
  <2> SUFFICES ASSUME NEW c \in driveCalls
               PROVE  /\ Left(c) = [n |-> c.n, kind |-> c.kind, path |-> c.path, live |-> FALSE, heard |-> c.heard]
                      /\ Left(c).kind = c.kind /\ Left(c).heard = c.heard
    OBVIOUS
  <2>1. IsACall(c)
    BY DEF CallHolds
  <2> QED BY <2>1, CallUpdate
<1>3. \A d \in driveCalls' : \E c \in driveCalls : d = Left(c) /\ c.kind \notin {"status", "folders"}
  BY <1>1
<1> HIDE DEF Left
<1>4. DriveTypes'
  BY <1>1 DEF DriveTypes
<1>5. \A d \in driveCalls' : CallHolds(d)'
  <2> SUFFICES ASSUME NEW d \in driveCalls' PROVE CallHolds(d)'
    OBVIOUS
  <2>1. PICK c \in driveCalls : d = Left(c) /\ c.kind \notin {"status", "folders"}
    BY <1>3
  <2>2. d = [n |-> c.n, kind |-> c.kind, path |-> c.path, live |-> FALSE, heard |-> c.heard] /\ CallHolds(c)
    BY <1>2, <2>1
  <2>3. IsACall(d)
    BY <2>2 DEF IsACall
  <2> QED BY <1>1, <2>1, <2>2, <2>3 DEF CallHolds, HeardHolds
<1>6. BoxHolds'
  BY <1>1, EmptyBox DEF BoxHolds
<1>7. ListsKnow'
  BY <1>1, <1>2, <1>3 DEF ListsKnow
<1>8. ModesKnow'
  BY <1>1 DEF ModesKnow
<1> QED BY <1>4, <1>5, <1>6, <1>7, <1>8

\* The page is rendered and reads the folder again, while other calls go on and some may
\* have ended: none that keeps what is shown from being taken for what is so.
LEMMA RestartKeeps ==
    ASSUME DriveInv, NEW C, driveCalls' = Restarted(C), onPage,
           \A c \in C : c \in driveCalls \/ (CallHolds(c)' /\ c.kind = "folders"),
           DriveTypes', BoxHolds', UNCHANGED <<onPage, drivePath, drivePresses, listsCrossed>>,
           \/ missed \/ listsCrossed \/ shownPath' = drivePath
           \/ shownPath' = shownPath /\ \A c \in driveCalls \ C : c.kind \notin Listings,
           missed => missed'
    PROVE  DriveInv'
<1> USE DEF DriveInv
<1>1. \A d \in driveCalls' : (d \in C /\ d.kind # "status") \/ d = StatusCall
  BY RestartedCalls
<1>2. StatusCall \in driveCalls' /\ \A c \in C : c.kind # "status" => c \in driveCalls'
  BY RestartedCalls
<1>3. \A d \in driveCalls' : CallHolds(d)'
  <2>1. ASSUME NEW d, d = StatusCall PROVE CallHolds(d)'
    BY <2>1, StatusIsAsked DEF CallHolds, HeardHolds, DriveTypes
  <2>2. \A c \in driveCalls : CallHolds(c)'
    BY DEF CallHolds, HeardHolds
  <2> QED BY <1>1, <2>1, <2>2
<1>4. ListsKnow'
  <2> SUFFICES ASSUME ~listsCrossed
               PROVE  /\ \A c, d \in driveCalls' : c.kind \in Listings /\ d.kind \in Listings => c = d
                      /\ \A c \in driveCalls' : c.kind \in Listings => c.heard = NoNews \/ c.heard.path = drivePath
                      /\ ~missed' => shownPath' = drivePath \/ \E c \in driveCalls' : c.kind \in Listings
    BY DEF ListsKnow
  <2>1. \A d \in driveCalls' : d.kind \in Listings => d \in driveCalls
    BY <1>1, StatusIsAsked DEF Listings
  <2>2. \A c \in C : c.kind \in Listings => c \in driveCalls'
    BY <1>2 DEF Listings
  <2> QED BY <2>1, <2>2 DEF ListsKnow
<1>5. ModesKnow'
  BY <1>1, <1>2, StatusIsAsked DEF ModesKnow
<1> QED BY <1>3, <1>4, <1>5

LEMMA RenderKeeps == ASSUME DriveInv, RenderDashboard PROVE DriveInv'
<1>1. /\ onPage /\ driveCalls' = Restarted(driveCalls)
      /\ UNCHANGED <<drivePath, driveTree, localMode, onPage, shownPath, box, shownMode, drivePresses,
                     listsCrossed, missed>>
  BY DEF RenderDashboard, onTheMac
<1>2. DriveTypes' /\ BoxHolds'
  BY <1>1, RestartedCalls DEF DriveInv, DriveTypes, BoxHolds
<1> QED BY <1>1, <1>2, RestartKeeps

LEMMA CloseBoxKeeps == ASSUME DriveInv, CloseBox PROVE DriveInv'
  BY EmptyBox DEF CloseBox, onTheMac, DriveInv, DriveTypes, BoxHolds, ListsKnow, ModesKnow, CallHolds, HeardHolds

LEMMA PressDriveKeeps ==
    ASSUME DriveInv, NEW k \in Writes \cup {"folders"}, NEW p \in Paths \cup {NoPath}, PressDrive(k, p)
    PROVE  DriveInv'
<1> USE DEF DriveInv
<1> DEFINE new == DriveCall(k, p, drivePresses + 1)
<1>1. /\ onPage /\ MayAsk(k, p) /\ drivePresses' = drivePresses + 1 /\ driveCalls' = driveCalls \cup {new}
      /\ box' = IF k = "folders" THEN BoxLoading(p) ELSE box
      /\ listsCrossed' = (listsCrossed \/ (k \in Listings /\ \E c \in driveCalls : c.kind \in Listings))
      /\ UNCHANGED <<drivePath, driveTree, localMode, onPage, shownPath, shownMode, missed>>
  BY DEF PressDrive, onTheMac
<1>2. /\ new.kind = k /\ new.path = p /\ new.n = drivePresses' /\ new.live = TRUE /\ new.heard = NoNews
      /\ IsACall(new)
  BY <1>1 DEF DriveCall, IsACall
<1> HIDE DEF new
<1>3. drivePresses \in Nat /\ drivePresses' \in Nat /\ drivePresses' \in 0..drivePresses'
  BY <1>1 DEF DriveTypes
<1>4. DriveTypes'
  BY <1>1, <1>3 DEF DriveTypes
<1>5. k # "status" /\ k # "list" /\ (k = "create" => p \in Paths)
  BY <1>1 DEF Writes, MayAsk
<1>6. \A c \in driveCalls' : CallHolds(c)'
  <2>1. ASSUME NEW d, d = new PROVE CallHolds(d)'
    BY <1>1, <1>2, <1>3, <1>5, <2>1 DEF CallHolds, HeardHolds
  <2>2. \A c \in driveCalls : CallHolds(c)'
    <3>1. \A n \in 0..drivePresses : n \in 0..drivePresses'
      BY <1>1, <1>3
    <3> QED BY <1>1, <3>1 DEF CallHolds, HeardHolds
  <2> QED BY <1>1, <2>1, <2>2
<1>7. BoxHolds'
  <2>1. CASE k = "folders"
    <3>1. box' = [path |-> p, folders |-> {}, loading |-> TRUE]
      BY <1>1, <2>1 DEF BoxLoading
    <3> QED BY <1>1, <1>2, <2>1, <3>1 DEF BoxHolds
  <2>2. CASE k # "folders"
    BY <1>1, <2>2 DEF BoxHolds
  <2> QED BY <2>1, <2>2
<1>8. ListsKnow'
  BY <1>1, <1>2 DEF ListsKnow
<1>9. ModesKnow'
  BY <1>1, <1>2, <1>5 DEF ModesKnow
<1> QED BY <1>4, <1>6, <1>7, <1>8, <1>9

-----------------------------------------------------------------------------
(* The calls.                                                              *)

\* The Mac carries out a call, and it hears what is so.
LEMMA ServeDriveKeeps == ASSUME DriveInv, NEW c \in driveCalls, ServeDrive(c) PROVE DriveInv'
<1> USE DEF DriveInv
<1> DEFINE news == [path |-> drivePath', mode |-> localMode', folders |-> Subfolders(c.path)]
           d == [c EXCEPT !.heard = news]
<1>1. /\ c.heard = NoNews /\ Performed(c.kind, c.path)
      /\ driveCalls' = (driveCalls \ {c}) \cup {d}
      /\ UNCHANGED <<onPage, shownPath, box, shownMode, drivePresses, listsCrossed, missed>>
  BY DEF ServeDrive, inTheView
<1>2. /\ d = [n |-> c.n, kind |-> c.kind, path |-> c.path, live |-> c.live, heard |-> news]
      /\ IsACall(d)
  BY CallUpdate DEF CallHolds, IsACall
<1>3. news.path = drivePath' /\ news.mode = localMode'
      /\ \A q \in news.folders : q # RootPath /\ Front(q) = c.path
  BY DEF Subfolders
<1> HIDE DEF news, d
<1>4. d.n = c.n /\ d.kind = c.kind /\ d.path = c.path /\ d.live = c.live /\ d.heard = news
  BY <1>2
<1>5. CallHolds(c)
  OBVIOUS
<1>6. DriveTypes'
  <2>1. c.kind = "create" => c.path \in Paths
    BY <1>5 DEF CallHolds
  <2>2. driveTree' \subseteq Paths /\ driveTree \subseteq driveTree'
    BY <1>1, <2>1 DEF Performed, DriveTypes
  <2>3. drivePath' \in driveTree'
    BY <1>1, <2>2 DEF Performed, DriveTypes
  <2>4. localMode' \in Modes
    BY <1>1 DEF Performed, DriveTypes, Modes
  <2> QED BY <1>1, <2>2, <2>3, <2>4 DEF DriveTypes
<1>7. \A x \in driveCalls' : CallHolds(x)'
  <2>1. ASSUME NEW x, x = d PROVE CallHolds(x)'
    <3>1. HeardHolds(x.heard, x.path)'
      <4>1. drivePath' \in Paths /\ localMode' \in Modes
        BY <1>6 DEF DriveTypes
      <4> QED BY <1>3, <1>4, <2>1, <4>1 DEF HeardHolds
    <3> QED BY <1>1, <1>2, <1>4, <1>5, <2>1, <3>1 DEF CallHolds
  <2>2. \A x \in driveCalls : CallHolds(x)'
    BY <1>1 DEF CallHolds, HeardHolds
  <2> QED BY <1>1, <2>1, <2>2
<1>8. BoxHolds'
  BY <1>1, <1>4 DEF BoxHolds
<1>9. ListsKnow'
  <2> SUFFICES ASSUME ~listsCrossed
               PROVE  /\ \A x, y \in driveCalls' : x.kind \in Listings /\ y.kind \in Listings => x = y
                      /\ \A x \in driveCalls' : x.kind \in Listings => x.heard = NoNews \/ x.heard.path = drivePath'
                      /\ onPage /\ ~missed => shownPath = drivePath' \/ \E x \in driveCalls' : x.kind \in Listings
    BY <1>1 DEF ListsKnow
  <2>1. CASE c.kind \in Listings
    <3>1. \A x \in driveCalls' : x.kind \in Listings => x = d
      BY <1>1, <2>1 DEF ListsKnow
    <3> QED BY <1>1, <1>3, <1>4, <2>1, <3>1
  <2>2. CASE c.kind \notin Listings
    <3>1. drivePath' = drivePath
      BY <1>1, <2>2 DEF Performed, Listings
    <3> QED BY <1>1, <1>4, <2>2, <3>1 DEF ListsKnow
  <2> QED BY <2>1, <2>2
<1>10. ModesKnow'
  <2> SUFFICES ASSUME onPage, ~missed, \A x \in driveCalls' : x.kind \notin LocalWrites
               PROVE  /\ shownMode = localMode' \/ \E x \in driveCalls' : x.kind = "status"
                      /\ \A x \in driveCalls' : x.kind = "status" => x.heard = NoNews \/ x.heard.mode = localMode'
    BY <1>1 DEF ModesKnow
  <2>1. \A x \in driveCalls : x.kind \notin LocalWrites
    BY <1>1, <1>4
  <2>2. localMode' = localMode
    BY <1>1, <2>1 DEF Performed, LocalWrites
  <2> QED BY <1>1, <1>3, <1>4, <2>1, <2>2 DEF ModesKnow
<1> QED BY <1>6, <1>7, <1>8, <1>9, <1>10

\* Calls are over and the page is not rendered for it: none that changes what is so.
LEMMA OthersKeep ==
    ASSUME DriveInv, NEW c \in driveCalls, driveCalls' = Others(c),
           UNCHANGED <<onTheMac, onPage, drivePresses, listsCrossed>>, shownPath' \in Paths \cup {NoPath},
           shownMode' \in Modes \cup {"unknown"}, missed => missed', BoxHolds',
           ~onPage \/ missed' \/ listsCrossed \/ (c.kind \notin Listings /\ UNCHANGED shownPath),
           \/ ~onPage \/ missed'
           \/ c.kind \notin LocalWrites /\ c.kind # "status" /\ UNCHANGED shownMode
           \/ c.kind = "status" /\ shownMode' = c.heard.mode /\ c.heard # NoNews
    PROVE  DriveInv'
<1> USE DEF DriveInv
<1>1. driveCalls' = driveCalls \ {c} /\ UNCHANGED <<drivePath, driveTree, localMode>>
  BY DEF Others, onTheMac
<1>2. DriveTypes'
  BY <1>1 DEF DriveTypes
<1>3. \A x \in driveCalls' : CallHolds(x)'
  BY <1>1 DEF CallHolds, HeardHolds
<1>4. ListsKnow'
  BY <1>1 DEF ListsKnow
<1>5. ModesKnow'
  BY <1>1 DEF ModesKnow, LocalWrites
<1> QED BY <1>2, <1>3, <1>4, <1>5

\* The dashboard is rendered, and the page with it when it is open.
LEMMA RenderedKeeps ==
    ASSUME DriveInv, NEW C, Rendered(C), UNCHANGED <<onTheMac, onPage, drivePresses, listsCrossed, missed>>,
           \A c \in C : c \in driveCalls \/ (CallHolds(c)' /\ c.kind = "folders"),
           shownPath' \in Paths \cup {NoPath}, shownMode' \in Modes \cup {"unknown"}, BoxHolds',
           \/ missed \/ listsCrossed \/ shownPath' = drivePath
           \/ shownPath' = shownPath /\ \A c \in driveCalls \ C : c.kind \notin Listings
    PROVE  DriveInv'
<1> USE DEF DriveInv
<1>0. UNCHANGED <<drivePath, driveTree, localMode>>
  BY DEF onTheMac
<1>1. DriveTypes'
  BY <1>0 DEF DriveTypes
<1>2. CASE onPage
  BY <1>0, <1>1, <1>2, RestartKeeps DEF Rendered
<1>3. CASE ~onPage
  <2>1. driveCalls' = C
    BY <1>3 DEF Rendered
  <2>2. \A c \in driveCalls' : CallHolds(c)'
    BY <1>0, <2>1 DEF CallHolds, HeardHolds
  <2>3. ListsKnow'
    <3>1. \A c \in C : c.kind \in Listings => c \in driveCalls
      BY DEF Listings
    <3> QED BY <1>0, <1>3, <2>1, <3>1 DEF ListsKnow
  <2>4. ModesKnow'
    BY <1>3 DEF ModesKnow
  <2> QED BY <1>1, <2>2, <2>3, <2>4
<1> QED BY <1>2, <1>3

\* A call that is over, whatever else happens with it, but one that fills the box.
LEMMA BoxStays ==
    ASSUME DriveInv, NEW c, c.kind # "folders",
           \A x \in driveCalls \ {c} : x.kind # "status" => x \in driveCalls', box' \in {box, NoBox}
    PROVE  BoxHolds'
  BY EmptyBox DEF DriveInv, BoxHolds

LEMMA ListingKeeps ==
    ASSUME DriveInv, NEW c \in driveCalls, c.heard # NoNews, EndListing(c),
           UNCHANGED <<onTheMac, onPage, drivePresses, listsCrossed, missed>>
    PROVE  DriveInv'
<1>1. CallHolds(c) /\ c.kind \in Listings /\ c.kind # "folders" /\ c.kind # "status" /\ c.kind \notin LocalWrites
  BY DEF EndListing, DriveInv, Listings, LocalWrites
<1>2. /\ box' \in {box, NoBox} /\ UNCHANGED shownMode /\ shownMode \in Modes \cup {"unknown"}
      /\ shownPath \in Paths \cup {NoPath}
  BY DEF EndListing, DriveInv, DriveTypes
<1>3. CASE c.kind = "list" /\ ~c.live
  <2>1. driveCalls' = Others(c) /\ UNCHANGED shownPath /\ ~onPage
    BY <1>1, <1>3 DEF EndListing, CallHolds
  <2>2. BoxHolds'
    BY <1>1, <1>2, <2>1, BoxStays DEF Others
  <2> QED BY <1>2, <2>1, <2>2, OthersKeep
<1>4. CASE ~(c.kind = "list" /\ ~c.live)
  <2>1. shownPath' = c.heard.path /\ Rendered(Others(c))
    BY <1>4 DEF EndListing
  <2>2. BoxHolds'
    BY <1>1, <1>2, <2>1, BoxStays, RestartedCalls DEF Others, Rendered
  <2>3. shownPath' \in Paths \cup {NoPath}
    BY <1>1, <2>1 DEF CallHolds, HeardHolds
  <2>4. listsCrossed \/ shownPath' = drivePath
    BY <1>1, <2>1 DEF DriveInv, ListsKnow
  <2>5. \A x \in Others(c) : x \in driveCalls
    BY DEF Others
  <2> QED BY <1>2, <2>1, <2>2, <2>3, <2>4, <2>5, RenderedKeeps
<1> QED BY <1>3, <1>4

LEMMA FoldersKeep ==
    ASSUME DriveInv, NEW c \in driveCalls, c.heard # NoNews, EndFolders(c),
           UNCHANGED <<onTheMac, onPage, drivePresses, listsCrossed, missed>>
    PROVE  DriveInv'
<1>1. box' = [path |-> c.path, folders |-> c.heard.folders, loading |-> FALSE]
      /\ c.kind = "folders" /\ driveCalls' = Others(c) /\ UNCHANGED <<shownPath, shownMode>>
  BY DEF EndFolders, BoxFilled
<1>2. CallHolds(c) /\ shownMode \in Modes \cup {"unknown"} /\ shownPath \in Paths \cup {NoPath}
  BY DEF DriveInv, DriveTypes
<1>3. BoxHolds'
  BY <1>1, <1>2 DEF CallHolds, HeardHolds, BoxHolds
<1> QED BY <1>1, <1>2, <1>3, OthersKeep DEF Listings, LocalWrites

LEMMA CreateKeeps ==
    ASSUME DriveInv, NEW c \in driveCalls, c.heard # NoNews, EndCreate(c),
           UNCHANGED <<onTheMac, onPage, drivePresses, listsCrossed, missed>>
    PROVE  DriveInv'
<1> DEFINE p == Front(c.path)
           new == DriveCall("folders", p, c.n)
           C == Others(c) \cup (IF c.live THEN {new} ELSE {})
<1>1. /\ c.kind = "create" /\ Rendered(C) /\ box' = (IF c.live THEN BoxLoading(p) ELSE box)
      /\ UNCHANGED <<shownPath, shownMode>>
  BY DEF EndCreate
<1>2. CallHolds(c) /\ shownMode \in Modes \cup {"unknown"} /\ shownPath \in Paths \cup {NoPath}
  BY DEF DriveInv, DriveTypes
<1>3. /\ new.kind = "folders" /\ new.path = p /\ new.n = c.n /\ new.live = TRUE /\ new.heard = NoNews
      /\ IsACall(new)
  BY DEF DriveCall, IsACall
<1> HIDE DEF new, p
<1>4. ASSUME NEW x \in C PROVE x \in driveCalls \/ (CallHolds(x)' /\ x.kind = "folders")
  <2>1. ASSUME x = new PROVE CallHolds(x)' /\ x.kind = "folders"
    BY <1>2, <1>3, <2>1 DEF CallHolds, HeardHolds
  <2> QED BY <1>4, <2>1 DEF Others
<1>5. \A x \in C : x.kind # "status" => x \in driveCalls'
  BY <1>1, RestartedCalls DEF Rendered
<1>6. BoxHolds'
  <2>1. CASE c.live
    <3>1. box' = [path |-> p, folders |-> {}, loading |-> TRUE] /\ new \in driveCalls'
      BY <1>1, <1>3, <1>5, <2>1 DEF BoxLoading
    <3> QED BY <1>3, <3>1 DEF BoxHolds
  <2>2. CASE ~c.live
    BY <1>1, <1>5, <2>2, BoxStays DEF Others
  <2> QED BY <2>1, <2>2
<1>7. \A x \in driveCalls \ C : x.kind \notin Listings
  BY <1>1 DEF Others, Listings
<1> HIDE DEF C
<1> QED BY <1>1, <1>2, <1>4, <1>6, <1>7, RenderedKeeps

LEMMA LocalKeeps ==
    ASSUME DriveInv, NEW c \in driveCalls, c.heard # NoNews, EndLocal(c),
           UNCHANGED <<onTheMac, onPage, drivePresses, listsCrossed, missed>>
    PROVE  DriveInv'
<1>1. /\ c.kind \in {"status", "choose", "reset"} /\ UNCHANGED <<shownPath, box>>
      /\ shownMode' = IF c.live THEN c.heard.mode ELSE shownMode
      /\ IF c.kind = "status" THEN driveCalls' = Others(c) ELSE Rendered(Others(c))
  BY DEF EndLocal
<1>2. CallHolds(c) /\ shownPath' \in Paths \cup {NoPath} /\ c.kind \notin Listings
  BY <1>1 DEF DriveInv, DriveTypes, Listings
<1>3. shownMode' \in Modes \cup {"unknown"}
  BY <1>1, <1>2 DEF DriveInv, DriveTypes, CallHolds, HeardHolds
<1>4. BoxHolds'
  BY <1>1, BoxStays, RestartedCalls DEF Others, Rendered
<1>5. CASE c.kind = "status"
  BY <1>1, <1>2, <1>3, <1>4, <1>5, OthersKeep DEF CallHolds
<1>6. CASE c.kind # "status"
  <2>1. \A x \in driveCalls \ Others(c) : x.kind \notin Listings
    BY <1>2 DEF Others
  <2>2. \A x \in Others(c) : x \in driveCalls
    BY DEF Others
  <2> QED BY <1>1, <1>2, <1>3, <1>4, <1>6, <2>1, <2>2, RenderedKeeps
<1> QED BY <1>5, <1>6

LEMMA FailDriveKeeps == ASSUME DriveInv, NEW c \in driveCalls, FailDrive(c) PROVE DriveInv'
<1>1. /\ driveCalls' = Others(c) /\ box' = (IF c.kind = "folders" THEN NoBox ELSE box) /\ missed' = TRUE
      /\ UNCHANGED <<onTheMac, onPage, shownPath, shownMode, drivePresses, listsCrossed>>
  BY DEF FailDrive, BoxFailed
<1>2. BoxHolds'
  BY <1>1, EmptyBox DEF Others, DriveInv, BoxHolds
<1>3. shownMode' \in Modes \cup {"unknown"} /\ shownPath' \in Paths \cup {NoPath}
  BY <1>1 DEF DriveInv, DriveTypes
<1> QED BY <1>1, <1>2, <1>3, OthersKeep

LEMMA DriveStep == DriveInv /\ [DriveNext]_driveVars => DriveInv'
<1> SUFFICES ASSUME DriveInv, [DriveNext]_driveVars PROVE DriveInv'
  OBVIOUS
<1>1. CASE UNCHANGED driveVars
  BY <1>1 DEF driveVars, DriveInv, DriveTypes, BoxHolds, ListsKnow, ModesKnow, CallHolds, HeardHolds
<1>2. ASSUME NEW c \in driveCalls, EndDrive(c) PROVE DriveInv'
  BY <1>2, ListingKeeps, FoldersKeep, CreateKeeps, LocalKeeps DEF EndDrive
<1> QED BY <1>1, <1>2, OpenKeeps, LeaveKeeps, RenderKeeps, CloseBoxKeeps, ServeDriveKeeps, FailDriveKeeps,
           PressDriveKeeps DEF DriveNext

\* DestinationsAreTrue: the folders of the box are those of the path above them, and once
\* nothing is under way the page shows the folders the Mac uses, unless a call failed or two
\* of those that list the destinations crossed.
THEOREM DestinationsAreShown == DriveSpec => [](DestinationsAreTrue /\ DriveTypeOK)
<1>1. DriveInv => DestinationsAreTrue
  BY DEF DriveInv, BoxHolds, ListsKnow, ModesKnow, DestinationsAreTrue, FoldersAreOfThePath, QuietPageIsTrue
<1>2. DriveInv => DriveTypeOK
  BY DEF DriveInv, DriveTypes, BoxHolds, CallHolds, DriveTypeOK, Modes
<1> QED BY <1>1, <1>2, DriveStarts, DriveStep, PTL DEF DriveSpec

-----------------------------------------------------------------------------
(* The feed of Lustre Watch.                                               *)

WatchLoad ==
    [key: Keys \cup {Nowhere}, step: {"asking", "pinging", "capturing", "keeping", "over"},
     read: Keys \cup {Nowhere}]

\* A load asks for a page, until it is over, and what was read for it is that page.
LoadIsOfItsKey(l) == /\ l.step # "over" => l.key \in Keys
                     /\ l.read \in {l.key, Nowhere}

\* While the controls are closed a load runs, or an extraction.
BusyIsLoading == feedBusy => resolves.running > 0 \/ \E n \in DOMAIN loads : loads[n].step # "over"

WatchInv ==
    /\ watchSite \in WatchSites /\ feedPage \in Keys \cup {Nowhere}
    /\ feedCache \in [Keys -> Keys \cup {Nowhere}] /\ \A k \in Keys : feedCache[k] \in {k, Nowhere}
    /\ loads \in Seq(WatchLoad) /\ Len(loads) <= MaxLoads
    /\ \A n \in DOMAIN loads : LoadIsOfItsKey(loads[n])
    /\ tabs \in [1..MaxLoads -> {"none", "open", "done"}]
    /\ \A n \in 1..MaxLoads : tabs[n] # "none" => n \in DOMAIN loads
    /\ resolves \in [begun: 0..MaxResolves, running: Nat]
    /\ BusyIsLoading

\* Nothing that is shown is at no site.
LEMMA NowhereIsNoKey == Nowhere \notin Keys
BY WatchAssumption DEF Nowhere, Keys

LEMMA WatchStarts == WatchInit => WatchInv
<1> SUFFICES ASSUME WatchInit PROVE WatchInv
  OBVIOUS
<1>1. loads = <<>> /\ loads \in Seq(WatchLoad) /\ Len(loads) = 0 /\ DOMAIN loads = {}
  BY DEF WatchInit
<1>2. tabs \in [1..MaxLoads -> {"none", "open", "done"}] /\ \A n \in 1..MaxLoads : tabs[n] = "none"
  BY DEF WatchInit
<1>3. feedCache \in [Keys -> Keys \cup {Nowhere}] /\ \A k \in Keys : feedCache[k] \in {k, Nowhere}
  BY DEF WatchInit
<1>4. resolves \in [begun: 0..MaxResolves, running: Nat]
  BY WatchAssumption DEF WatchInit
<1> QED BY <1>1, <1>2, <1>3, <1>4, WatchAssumption DEF WatchInit, WatchInv, BusyIsLoading

\* A load that begins, of a page there is, closes the controls.
LEMMA BeginLoading ==
    ASSUME WatchInv, NEW s \in WatchSites, NEW q \in WatchQueries, NEW p \in 1..LastPage, LoadFeed(s, q, p),
           watchSite' \in WatchSites
    PROVE  WatchInv'
<1> DEFINE l == Loading(s, q, p)
<1>1. l \in WatchLoad /\ l.step = "asking" /\ l.key \in Keys /\ l.read = Nowhere
  BY DEF Loading, WatchLoad, Keys
<1>2. loads' = Append(loads, l) /\ loads \in Seq(WatchLoad) /\ Len(loads) \in Nat /\ Len(loads) < MaxLoads
  BY LenProperties DEF LoadFeed, WatchInv
<1> HIDE DEF l
<1>3. /\ loads' \in Seq(WatchLoad) /\ Len(loads') = Len(loads) + 1 /\ loads'[Len(loads) + 1] = l
      /\ \A n \in 1..Len(loads) : loads'[n] = loads[n]
  <2> HIDE DEF WatchLoad
  <2> QED BY <1>1, <1>2, AppendProperties
<1>4. DOMAIN loads' = 1..(Len(loads) + 1) /\ DOMAIN loads = 1..Len(loads)
  BY <1>2, <1>3, LenProperties
<1>5. Len(loads') <= MaxLoads /\ DOMAIN loads' = DOMAIN loads \cup {Len(loads) + 1}
  BY <1>2, <1>3, <1>4, WatchAssumption
<1>6. \A n \in DOMAIN loads' : LoadIsOfItsKey(loads'[n])
  BY <1>1, <1>3, <1>4, <1>5 DEF WatchInv, LoadIsOfItsKey
<1>7. \E n \in DOMAIN loads' : loads'[n].step # "over"
  BY <1>1, <1>3, <1>5
<1>8. \A n \in 1..MaxLoads : tabs'[n] # "none" => n \in DOMAIN loads'
  BY <1>5 DEF LoadFeed, WatchInv
<1> QED BY <1>3, <1>5, <1>6, <1>7, <1>8 DEF WatchInv, BusyIsLoading, LoadFeed

\* A load that goes on to its next step, with the controls as they were.
LEMMA LoadMoves ==
    ASSUME WatchInv, NEW n \in DOMAIN loads, NEW to \in {"pinging", "capturing"}, loads[n].step # "over",
           loads' = [loads EXCEPT ![n].step = to]
    PROVE  /\ loads' \in Seq(WatchLoad) /\ Len(loads') <= MaxLoads /\ DOMAIN loads' = DOMAIN loads
           /\ \A m \in DOMAIN loads' : LoadIsOfItsKey(loads'[m])
           /\ \A m \in DOMAIN loads : loads[m].step # "over" => loads'[m].step # "over"
<1>1. loads \in [1..Len(loads) -> WatchLoad] /\ Len(loads) \in Nat /\ DOMAIN loads = 1..Len(loads)
  BY LenProperties DEF WatchInv
<1> DEFINE d == [loads[n] EXCEPT !.step = to]
<1>2. loads[n] \in WatchLoad
  BY <1>1
<1>3. d \in WatchLoad /\ d.step = to /\ LoadIsOfItsKey(d)
  BY <1>2 DEF WatchLoad, WatchInv, LoadIsOfItsKey
<1>4. loads' = [loads EXCEPT ![n] = d]
  OBVIOUS
<1> HIDE DEF d
<1>5. loads' \in [1..Len(loads) -> WatchLoad]
  <2> HIDE DEF WatchLoad
  <2> QED BY <1>1, <1>3, <1>4
<1>6. loads' \in Seq(WatchLoad) /\ Len(loads') = Len(loads) /\ DOMAIN loads' = DOMAIN loads
  <2> HIDE DEF WatchLoad
  <2> QED BY <1>1, <1>5, SeqDef, LenProperties
<1>7. \A m \in DOMAIN loads : loads'[m] = IF m = n THEN d ELSE loads[m]
  BY <1>1, <1>4
<1> QED BY <1>3, <1>6, <1>7 DEF WatchInv

\* A load that ends, however, leaves the controls open.
LEMMA LoadEnds ==
    ASSUME WatchInv, NEW n \in DOMAIN loads, NEW from, NEW success, Ends(n, from, success),
           watchSite' = watchSite, tabs' = tabs, resolves' = resolves, feedPage' \in Keys \cup {Nowhere},
           feedCache' \in [Keys -> Keys \cup {Nowhere}], \A k \in Keys : feedCache'[k] \in {k, Nowhere}
    PROVE  WatchInv'
<1>1. loads \in [1..Len(loads) -> WatchLoad] /\ Len(loads) \in Nat /\ DOMAIN loads = 1..Len(loads)
  BY LenProperties DEF WatchInv
<1> DEFINE d == [key |-> Nowhere, step |-> "over", read |-> Nowhere]
<1>2. d \in WatchLoad /\ LoadIsOfItsKey(d)
  BY DEF WatchLoad, LoadIsOfItsKey
<1>3. loads' = [loads EXCEPT ![n] = d] /\ feedBusy' = FALSE
  BY DEF Ends
<1> HIDE DEF d
<1>4. loads' \in [1..Len(loads) -> WatchLoad]
  <2> HIDE DEF WatchLoad
  <2> QED BY <1>1, <1>2, <1>3
<1>5. loads' \in Seq(WatchLoad) /\ Len(loads') = Len(loads) /\ DOMAIN loads' = DOMAIN loads
  <2> HIDE DEF WatchLoad
  <2> QED BY <1>1, <1>4, SeqDef, LenProperties
<1>6. \A m \in DOMAIN loads : loads'[m] = IF m = n THEN d ELSE loads[m]
  BY <1>1, <1>3
<1> QED BY <1>2, <1>3, <1>5, <1>6 DEF WatchInv, BusyIsLoading

LEMMA FeedAnswersKeeps == ASSUME WatchInv, NEW n \in DOMAIN loads, FeedAnswers(n) PROVE WatchInv'
<1>1. Ends(n, "asking", TRUE) /\ loads[n].step = "asking" /\ loads[n].key \in Keys
  BY DEF FeedAnswers, Ends, WatchInv, LoadIsOfItsKey
<1> DEFINE key == loads[n].key
           content == IF feedCache[key] # Nowhere THEN feedCache[key] ELSE key
<1>2. content = key
  BY <1>1 DEF WatchInv
<1>3. /\ feedPage' = key /\ feedCache' = [feedCache EXCEPT ![key] = key] /\ watchSite' = watchSite /\ tabs' = tabs
      /\ resolves' = resolves
  BY <1>2 DEF FeedAnswers
<1>4. feedCache' \in [Keys -> Keys \cup {Nowhere}] /\ \A k \in Keys : feedCache'[k] \in {k, Nowhere}
  <2> HIDE DEF key
  <2> QED BY <1>1, <1>3 DEF WatchInv, key
<1> QED BY <1>1, <1>3, <1>4, LoadEnds

\* What is kept is what was read for the load, which is the page it asked for.
LEMMA KeepCaptureKeeps == ASSUME WatchInv, NEW n \in DOMAIN loads, KeepCapture(n) PROVE WatchInv'
<1>1. /\ Ends(n, "keeping", TRUE) /\ loads[n].step = "keeping" /\ loads[n].key \in Keys
      /\ loads[n].read # Nowhere /\ loads[n].read = loads[n].key
  BY DEF KeepCapture, Ends, WatchInv, LoadIsOfItsKey
<1>2. PICK key \in Keys : key = loads[n].key
  BY <1>1
<1>3. /\ feedPage' = key /\ feedCache' = [feedCache EXCEPT ![key] = key] /\ watchSite' = watchSite /\ tabs' = tabs
      /\ resolves' = resolves
  BY <1>1, <1>2 DEF KeepCapture
<1>4. feedCache' \in [Keys -> Keys \cup {Nowhere}] /\ \A k \in Keys : feedCache'[k] \in {k, Nowhere}
  BY <1>2, <1>3 DEF WatchInv
<1> QED BY <1>1, <1>3, <1>4, LoadEnds

LEMMA LoadFailsKeeps ==
    ASSUME WatchInv, NEW n \in DOMAIN loads, FeedFails(n) \/ DropCapture(n) \/ ExtensionTimesOut(n) PROVE WatchInv'
<1>1. PICK from : Ends(n, from, FALSE)
  BY DEF FeedFails, DropCapture, ExtensionTimesOut
<1>2. UNCHANGED <<watchSite, feedPage, resolves, feedCache, tabs>>
  BY DEF FeedFails, DropCapture, ExtensionTimesOut
<1> QED BY <1>1, <1>2, LoadEnds DEF WatchInv

LEMMA FeedIsGuardedKeeps == ASSUME WatchInv, NEW n \in DOMAIN loads, FeedIsGuarded(n) PROVE WatchInv'
<1>1. loads[n].step # "over" /\ loads' = [loads EXCEPT ![n].step = "pinging"]
  BY DEF FeedIsGuarded, Step
<1>2. UNCHANGED <<watchSite, feedPage, feedBusy, resolves, feedCache, tabs>>
  BY DEF FeedIsGuarded
<1> QED BY <1>1, <1>2, LoadMoves DEF WatchInv, BusyIsLoading

LEMMA ExtensionReadyKeeps == ASSUME WatchInv, NEW n \in DOMAIN loads, ExtensionReady(n) PROVE WatchInv'
<1>1. loads[n].step # "over" /\ loads' = [loads EXCEPT ![n].step = "capturing"]
  BY DEF ExtensionReady, Step
<1>2. PICK tab \in {"open", "none"} : tabs' = [tabs EXCEPT ![n] = tab]
  BY DEF ExtensionReady
<1>3. UNCHANGED <<watchSite, feedPage, feedBusy, resolves, feedCache>>
  BY DEF ExtensionReady
<1>4. DOMAIN loads' = DOMAIN loads
  BY <1>1, LoadMoves
<1>5. tabs' \in [1..MaxLoads -> {"none", "open", "done"}] /\ \A m \in 1..MaxLoads : tabs'[m] # "none" => m \in DOMAIN loads'
  BY <1>2, <1>4 DEF WatchInv
<1> QED BY <1>1, <1>3, <1>5, LoadMoves DEF WatchInv, BusyIsLoading

\* The answer is heard by the load that asked, which is not over.
LEMMA TabStepKeeps == ASSUME WatchInv, NEW n \in DOMAIN loads, TabStep(n) PROVE WatchInv'
<1>1. PICK content \in {loads[n].key, Nowhere} : CaptureFeed(n, content)
  BY DEF TabStep
<1>2. loads \in [1..Len(loads) -> WatchLoad] /\ Len(loads) \in Nat /\ DOMAIN loads = 1..Len(loads)
  BY LenProperties DEF WatchInv
<1>3. PICK d \in WatchLoad :
         /\ LoadIsOfItsKey(d) /\ (loads[n].step # "over" => d.step # "over")
         /\ loads' = [m \in DOMAIN loads |-> IF m = n THEN d ELSE loads[m]]
  <2> DEFINE d == IF loads[n].step = "capturing" THEN [loads[n] EXCEPT !.step = "keeping", !.read = content]
                                                 ELSE loads[n]
  <2>1. loads[n] \in WatchLoad /\ LoadIsOfItsKey(loads[n])
    BY <1>2 DEF WatchInv
  <2>2. d \in WatchLoad /\ LoadIsOfItsKey(d) /\ (loads[n].step # "over" => d.step # "over")
    BY <2>1, <1>1 DEF WatchLoad, LoadIsOfItsKey
  <2>3. loads' = [m \in DOMAIN loads |-> IF m = n THEN d ELSE loads[m]]
    BY <1>1 DEF CaptureFeed, Takes
  <2> HIDE DEF d
  <2> QED BY <2>2, <2>3
<1>4. loads' \in [1..Len(loads) -> WatchLoad]
  <2> HIDE DEF WatchLoad
  <2> QED BY <1>2, <1>3
<1>5. loads' \in Seq(WatchLoad) /\ Len(loads') = Len(loads) /\ DOMAIN loads' = DOMAIN loads
  <2> HIDE DEF WatchLoad
  <2> QED BY <1>2, <1>4, SeqDef, LenProperties
<1>6. tabs' = [tabs EXCEPT ![n] = "done"] /\ UNCHANGED <<watchSite, feedPage, feedBusy, resolves, feedCache>>
  BY <1>1 DEF CaptureFeed, Closes
<1>7. tabs' \in [1..MaxLoads -> {"none", "open", "done"}] /\ \A m \in 1..MaxLoads : tabs'[m] # "none" => m \in DOMAIN loads'
  BY <1>5, <1>6 DEF WatchInv
<1>8. \A m \in DOMAIN loads' : LoadIsOfItsKey(loads'[m])
  BY <1>3, <1>5 DEF WatchInv
<1>9. \A m \in DOMAIN loads : loads[m].step # "over" => loads'[m].step # "over"
  BY <1>3
<1> QED BY <1>5, <1>6, <1>7, <1>8, <1>9 DEF WatchInv, BusyIsLoading

LEMMA WatchStep == WatchInv /\ [WatchNext]_watchVars => WatchInv'
<1> SUFFICES ASSUME WatchInv, [WatchNext]_watchVars PROVE WatchInv'
  OBVIOUS
<1>1. CASE OpenFeed
  <2>1. LoadFeed(watchSite, NoText, 1) /\ watchSite' = watchSite /\ 1 \in 1..LastPage /\ NoText \in WatchQueries
    BY <1>1, WatchAssumption DEF OpenFeed
  <2> QED BY <2>1, BeginLoading DEF WatchInv
<1>2. CASE \E q \in WatchQueries : SearchFeed(q)
  <2>1. PICK q \in WatchQueries : LoadFeed(watchSite, q, 1) /\ watchSite' = watchSite
    BY <1>2 DEF SearchFeed
  <2> QED BY <2>1, WatchAssumption, BeginLoading DEF WatchInv
<1>3. CASE \E q \in WatchQueries, s \in WatchSites : ChooseSite(s, q)
  <2>1. PICK q \in WatchQueries, s \in WatchSites : LoadFeed(s, q, 1) /\ watchSite' = s
    BY <1>3 DEF ChooseSite
  <2> QED BY <2>1, WatchAssumption, BeginLoading DEF WatchInv
<1>4. CASE \E q \in WatchQueries, p \in 1..LastPage : TurnPage(q, p)
  <2>1. PICK q \in WatchQueries, p \in 1..LastPage : LoadFeed(watchSite, q, p) /\ watchSite' = watchSite
    BY <1>4 DEF TurnPage
  <2> QED BY <2>1, BeginLoading DEF WatchInv
<1>5. CASE \E n \in DOMAIN loads : LoadStep(n)
  BY <1>5, FeedAnswersKeeps, LoadFailsKeeps, FeedIsGuardedKeeps, ExtensionReadyKeeps, KeepCaptureKeeps DEF LoadStep
<1>6. CASE \E n \in DOMAIN loads : TabStep(n)
  BY <1>6, TabStepKeeps
<1>7. CASE \E k \in Keys : ExpirePage(k)
  <2>1. PICK k \in Keys : feedCache' = [feedCache EXCEPT ![k] = Nowhere]
    BY <1>7 DEF ExpirePage
  <2>2. feedCache' \in [Keys -> Keys \cup {Nowhere}] /\ \A j \in Keys : feedCache'[j] \in {j, Nowhere}
    BY <2>1 DEF WatchInv
  <2>3. UNCHANGED <<watchSite, feedPage, feedBusy, resolves, loads, tabs>>
    BY <1>7 DEF ExpirePage
  <2> QED BY <2>2, <2>3 DEF WatchInv, BusyIsLoading
<1>8. CASE UNCHANGED watchVars
  BY <1>8 DEF watchVars, WatchInv, BusyIsLoading
<1>9. CASE ResolveBegins \/ ResolveEnds
  <2>1. /\ resolves' \in [begun: 0..MaxResolves, running: Nat]
        /\ feedBusy' => resolves'.running > 0
    BY <1>9, WatchAssumption DEF ResolveBegins, ResolveEnds, WatchInv
  <2>2. UNCHANGED <<watchSite, feedPage, loads, feedCache, tabs>>
    BY <1>9 DEF ResolveBegins, ResolveEnds
  <2> QED BY <2>1, <2>2 DEF WatchInv, BusyIsLoading
<1> QED BY <1>1, <1>2, <1>3, <1>4, <1>5, <1>6, <1>7, <1>8, <1>9 DEF WatchNext

\* What the Cloud keeps under a site, a query and a page is the page of that site and query,
\* however many captures run at once, and closed controls have a load that runs, or an
\* extraction.
THEOREM WatchTypeCorrect == WatchSpec => []WatchTypeOK
<1>1. WatchInv => WatchTypeOK
  BY DEF WatchInv, WatchTypeOK, BusyIsLoading
<1> QED BY <1>1, WatchStarts, WatchStep, PTL DEF WatchSpec

-----------------------------------------------------------------------------
(* The views together.                                                     *)

\* Each view takes its own steps only, or stands still while another moves.
LEMMA BrowserMovesAlone ==
    ASSUME [BrowserNext]_browserVars
    PROVE  /\ [FeedNext]_feedVars /\ [ViewNext]_viewVars /\ [HomeNext]_homeVars /\ [SignInNext]_signInVars
           /\ [DashboardNext]_dashboardVars /\ [ResolutionNext]_resolutionVars /\ [WatchNext]_watchVars
           /\ [LibraryNext]_libraryVars /\ [VoidNext]_voidVars /\ [DriveNext]_driveVars
<1>1. CASE Moves("feed") /\ FeedNext
  BY <1>1 DEF Moves
<1>2. CASE Moves("queueing") /\ ViewNext
  BY <1>2 DEF Moves
<1>3. CASE Moves("home") /\ HomeNext
  BY <1>3 DEF Moves
<1>4. CASE Moves("signIn") /\ SignInNext
  BY <1>4 DEF Moves
<1>5. CASE Moves("dashboard") /\ DashboardNext
  BY <1>5 DEF Moves
<1>6. CASE Moves("resolution") /\ ResolutionNext
  BY <1>6 DEF Moves
<1>7. CASE Moves("watch") /\ WatchNext
  BY <1>7 DEF Moves
<1>8. CASE Moves("library") /\ LibraryNext
  BY <1>8 DEF Moves
<1>9. CASE Moves("void") /\ VoidNext
  BY <1>9 DEF Moves
<1>10. CASE Moves("drive") /\ DriveNext
  BY <1>10 DEF Moves
<1>11. CASE UNCHANGED browserVars
  BY <1>11 DEF browserVars
<1> QED BY <1>1, <1>2, <1>3, <1>4, <1>5, <1>6, <1>7, <1>8, <1>9, <1>10, <1>11 DEF BrowserNext

\* In a session of the browser every view is as it is alone.
LEMMA BrowserIsItsViews ==
    BrowserSpec =>
        /\ FeedSpec /\ ViewSpec /\ HomeSpec /\ SignInSpec /\ DashboardSpec /\ ResolutionSpec /\ WatchSpec
        /\ LibrarySpec /\ VoidSpec /\ DriveSpec
<1>1. BrowserInit =>
          /\ FeedInit /\ ViewInit /\ HomeInit /\ SignInInit /\ DashboardInit /\ ResolutionInit /\ WatchInit
          /\ LibraryInit /\ VoidInit /\ DriveInit
  BY DEF BrowserInit
<1>2. [BrowserNext]_browserVars =>
          /\ [FeedNext]_feedVars /\ [ViewNext]_viewVars /\ [HomeNext]_homeVars /\ [SignInNext]_signInVars
          /\ [DashboardNext]_dashboardVars /\ [ResolutionNext]_resolutionVars /\ [WatchNext]_watchVars
          /\ [LibraryNext]_libraryVars /\ [VoidNext]_voidVars /\ [DriveNext]_driveVars
  BY BrowserMovesAlone
<1> QED BY <1>1, <1>2, PTL DEF BrowserSpec, FeedSpec, ViewSpec, HomeSpec, SignInSpec, DashboardSpec,
                               ResolutionSpec, WatchSpec, LibrarySpec, VoidSpec, DriveSpec

\* The views keep their types, and with them their locks, whatever the others do: a spinner
\* has its run, a disabled button its order, closed controls of a feed a load that runs.
THEOREM BrowserTypesHold == BrowserSpec => []BrowserTypeOK
<1>1. FeedTypeOK /\ ViewTypeOK /\ HomeTypeOK /\ SignInTypeOK /\ DashboardTypeOK /\ ResolutionTypeOK
      /\ WatchTypeOK /\ LibraryTypeOK /\ VoidTypeOK /\ DriveTypeOK => BrowserTypeOK
  BY DEF BrowserTypeOK
<1> QED BY <1>1, BrowserIsItsViews, FeedTypeCorrect, QueueingTypeCorrect, ExtractionsAreWhole, StatusIsCurrent,
           DashboardTypeCorrect, ScenesAreKept, WatchTypeCorrect, LibraryTypeCorrect, UntangledScenesAreTrue,
           DestinationsAreShown, PTL

\* What the views show is true of what they are about, and they never go back on it: jobs,
\* extractions, streams, scenes and destinations are those that were asked for, and neither
\* a feed, a status nor a row is replaced by an older one, nor is a pick carried out twice.
THEOREM BrowserShowsTheTruth ==
    BrowserSpec =>
        /\ [](QueuedAsAsked /\ ExtractionResumes /\ StreamedIsOfTheScene /\ UntangledIsTrue /\ DestinationsAreTrue)
        /\ FeedIsCurrent /\ StatusNeverGoesBack /\ RefreshesKeepOrder /\ PickedIsDoneOnce
BY BrowserIsItsViews, QueueingIsAsAsked, ExtractionsAreWhole, ScenesAreKept, UntangledScenesAreTrue,
   DestinationsAreShown, FeedStaysCurrent, StatusIsCurrent, RefreshesAreOrdered, PicksAreDoneOnce, PTL
=============================================================================
