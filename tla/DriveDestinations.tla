------------------------- MODULE DriveDestinations --------------------------
(***************************************************************************)
(* The Destinations page: the Google Drive folder that the Mac uploads to, *)
(* the box in which another is looked for, and the folder of local         *)
(* downloads.  Every button and every effect posts a command and polls for *)
(* its answer on its own, so that answers come in any order; those of a    *)
(* page that was left find their view gone, but the dashboard around it    *)
(* still takes what is meant for it.                                       *)
(***************************************************************************)
EXTENDS Naturals, Sequences, SequencesExt, FiniteSets

CONSTANTS
    FolderNames,        \* a path is a sequence of them
    DriveDepth,         \* of the folders that exist
    MaxDrivePresses,    \* buttons pressed
    MaxVisits,          \* times the page is opened
    MaxRenders          \* renders of the dashboard for reasons of its own

ASSUME DriveAssumption == IsFiniteSet(FolderNames) /\ DriveDepth \in Nat \ {0}

VARIABLES
    drivePath,      \* on the Mac: the folder uploads go to
    driveTree,      \* the folders there are
    localMode,
    onPage,
    shownPath,      \* the folder of the profile the dashboard knows
    box,            \* driveBrowser
    shownMode,      \* localFolder
    driveCalls,     \* [n, kind, path, live, heard]; live: its page is still there
    drivePresses, visits, renders,
    listsCrossed,   \* two calls that list the destinations were under way at once
    missed          \* a call failed

driveVars == <<drivePath, driveTree, localMode, onPage, shownPath, box, shownMode,
               driveCalls, drivePresses, visits, renders, listsCrossed, missed>>
onTheMac == <<drivePath, driveTree, localMode>>
inTheView == <<onPage, shownPath, box, shownMode, drivePresses, visits, renders, listsCrossed>>

RootPath == <<>>
Paths == SeqOf(FolderNames, DriveDepth)
NoPath == <<"none">>
Subfolders(p) == {q \in driveTree : q # RootPath /\ Front(q) = p}
NoBox == [path |-> NoPath, folders |-> {}, loading |-> FALSE]
NoNews == [path |-> NoPath, mode |-> "unknown", folders |-> {}]

Listings == {"list", "connect", "select"}     \* their answers are the destinations
Writes == {"connect", "select", "create", "choose", "reset"}

DriveInit ==
    /\ driveTree = {RootPath} \cup {<<x>> : x \in FolderNames}
    /\ drivePath \in driveTree
    /\ localMode \in {"default", "custom"}
    /\ onPage = FALSE /\ shownPath = NoPath /\ box = NoBox /\ shownMode = "unknown"
    /\ driveCalls = {}
    /\ drivePresses = 0 /\ visits = 0 /\ renders = 0
    /\ listsCrossed = FALSE /\ missed = FALSE

-----------------------------------------------------------------------------
(* The Mac.  What a page posts at the same time may be stored in any order,*)
(* and so the order in which the rows are carried out is left open.        *)

Performed(kind, p) ==
    /\ kind \in {"folders", "select"} => p \in driveTree
    /\ drivePath' = CASE kind = "connect" -> RootPath [] kind = "select" -> p [] OTHER -> drivePath
    /\ driveTree' = IF kind = "create" THEN driveTree \cup {p} ELSE driveTree
    /\ localMode' = CASE kind = "choose" -> "custom" [] kind = "reset" -> "default" [] OTHER -> localMode

ServeDrive(c) ==
    /\ c.heard = NoNews
    /\ Performed(c.kind, c.path)
    /\ driveCalls' = (driveCalls \ {c}) \cup
           {[c EXCEPT !.heard = [path |-> drivePath', mode |-> localMode', folders |-> Subfolders(c.path)]]}
    /\ UNCHANGED <<inTheView, missed>>

-----------------------------------------------------------------------------
(* Calls.                                                                  *)

DriveCall(k, p, n) == [n |-> n, kind |-> k, path |-> p, live |-> TRUE, heard |-> NoNews]

\* Mutant: an answer is taken although the effect that asked for it was cleaned up.
RestartedBeside(C) == C \cup {DriveCall("status", NoPath, 0)}

\* loadLocalDownloadFolder is another function at every render of the dashboard, so that
\* the effect runs again: nobody hears the call of the one before.
Restarted(C) == {c \in C : c.kind # "status"} \cup {DriveCall("status", NoPath, 0)}

\* Mutant: a box that could not be filled stays as it is.
BoxFailedOpen(c) == box

\* The box is closed, whichever it is by then.
BoxFailed(c) == NoBox

\* Mutant: the folders are put into the box that is open.
BoxFilledInPlace(c) == [box EXCEPT !.folders = c.heard.folders, !.loading = FALSE]

\* The folders come with the path they were asked for.
BoxFilled(c) == [path |-> c.path, folders |-> c.heard.folders, loading |-> FALSE]

BoxLoading(p) == [path |-> p, folders |-> {}, loading |-> TRUE]

\* setDestinations and notify render the dashboard, and with it the page.
Rendered(C) == driveCalls' = IF onPage THEN Restarted(C) ELSE C

Others(c) == driveCalls \ {c}

\* The dashboard takes a list only while the page is shown.
EndListing(c) ==
    /\ c.kind \in Listings
    /\ IF c.kind = "list" /\ ~c.live
       THEN driveCalls' = Others(c) /\ UNCHANGED shownPath
       ELSE shownPath' = c.heard.path /\ Rendered(Others(c))
    /\ box' = IF c.kind = "select" /\ c.live THEN NoBox ELSE box
    /\ UNCHANGED shownMode

EndFolders(c) ==
    /\ c.kind = "folders"
    /\ box' = BoxFilled(c)
    /\ driveCalls' = Others(c)
    /\ UNCHANGED <<shownPath, shownMode>>

\* The parent of what was created is opened, wherever the reader has gone since.
EndCreate(c) ==
    /\ c.kind = "create"
    /\ Rendered(Others(c) \cup (IF c.live THEN {DriveCall("folders", Front(c.path), c.n)} ELSE {}))
    /\ box' = IF c.live THEN BoxLoading(Front(c.path)) ELSE box
    /\ UNCHANGED <<shownPath, shownMode>>

EndLocal(c) ==
    /\ c.kind \in {"status", "choose", "reset"}
    /\ shownMode' = IF c.live THEN c.heard.mode ELSE shownMode
    /\ IF c.kind = "status" THEN driveCalls' = Others(c) ELSE Rendered(Others(c))
    /\ UNCHANGED <<shownPath, box>>

EndDrive(c) ==
    /\ c.heard # NoNews
    /\ EndListing(c) \/ EndFolders(c) \/ EndCreate(c) \/ EndLocal(c)
    /\ UNCHANGED <<onTheMac, onPage, drivePresses, visits, renders, listsCrossed, missed>>

\* The command is refused (the picker is cancelled, rclone fails), it expires, the post or
\* a poll fails, or there were too many polls: by then it may have been carried out.
FailDrive(c) ==
    /\ driveCalls' = Others(c)
    /\ box' = IF c.kind = "folders" THEN BoxFailed(c) ELSE box
    /\ missed' = TRUE
    /\ UNCHANGED <<onTheMac, onPage, shownPath, shownMode, drivePresses, visits, renders, listsCrossed>>

-----------------------------------------------------------------------------
(* The reader.                                                             *)

\* The list that is under way is joined.
Listed(C) ==
    IF \E c \in C : c.kind = "list"
    THEN {IF c.kind = "list" THEN [c EXCEPT !.live = TRUE] ELSE c : c \in C}
    ELSE C \cup {DriveCall("list", NoPath, 0)}

OpenPage ==
    /\ ~onPage /\ visits < MaxVisits
    /\ onPage' = TRUE /\ visits' = visits + 1
    /\ driveCalls' = Restarted(Listed(driveCalls))
    /\ listsCrossed' = (listsCrossed \/ \E c \in driveCalls : c.kind \in Listings)
    /\ UNCHANGED <<onTheMac, shownPath, box, shownMode, drivePresses, renders, missed>>

\* Nobody hears the calls that only read for the page.
LeavePage ==
    /\ onPage /\ onPage' = FALSE
    /\ box' = NoBox /\ shownMode' = "unknown"
    /\ driveCalls' = {[c EXCEPT !.live = FALSE] : c \in {d \in driveCalls : d.kind \notin {"status", "folders"}}}
    /\ UNCHANGED <<onTheMac, shownPath, drivePresses, visits, renders, listsCrossed, missed>>

RenderDashboard ==
    /\ onPage /\ renders < MaxRenders
    /\ renders' = renders + 1
    /\ driveCalls' = Restarted(driveCalls)
    /\ UNCHANGED <<onTheMac, onPage, shownPath, box, shownMode, drivePresses, visits, listsCrossed, missed>>

Asking(K) == \E c \in driveCalls : c.live /\ c.kind \in K

\* What the buttons post.  Those of the page are behind the box while it is open.
MayAsk(k, p) ==
    \/ k = "connect" /\ box = NoBox /\ ~Asking({"connect"}) /\ p = NoPath
    \/ /\ k \in {"choose", "reset"} /\ box = NoBox /\ ~Asking({"choose", "reset"}) /\ p = NoPath
       /\ k = "reset" => shownMode = "custom"
    \/ k = "folders" /\ box = NoBox /\ p = shownPath /\ p # NoPath
    \/ k = "folders" /\ box # NoBox /\ (p \in box.folders \/ (box.path # RootPath /\ p = Front(box.path)))
    \/ k = "create" /\ box # NoBox /\ p \in Paths \ {RootPath} /\ Front(p) = box.path
    \/ k = "select" /\ box # NoBox /\ ~box.loading /\ p = box.path

PressDrive(k, p) ==
    /\ onPage /\ drivePresses < MaxDrivePresses /\ MayAsk(k, p)
    /\ drivePresses' = drivePresses + 1
    /\ driveCalls' = driveCalls \cup {DriveCall(k, p, drivePresses + 1)}
    /\ box' = IF k = "folders" THEN BoxLoading(p) ELSE box
    /\ listsCrossed' = (listsCrossed \/ (k \in Listings /\ \E c \in driveCalls : c.kind \in Listings))
    /\ UNCHANGED <<onTheMac, onPage, shownPath, shownMode, visits, renders, missed>>

CloseBox ==
    /\ box # NoBox /\ box' = NoBox
    /\ UNCHANGED <<onTheMac, driveCalls, onPage, shownPath, shownMode, drivePresses, visits,
                   renders, listsCrossed, missed>>

DriveNext ==
    \/ OpenPage \/ LeavePage \/ RenderDashboard \/ CloseBox
    \/ \E c \in driveCalls : ServeDrive(c) \/ EndDrive(c) \/ FailDrive(c)
    \/ \E k \in Writes \cup {"folders"}, p \in Paths \cup {NoPath} : PressDrive(k, p)

DriveSpec == DriveInit /\ [][DriveNext]_driveVars

\* The browser's own steps: calls end, answered or given up.
DriveFairness == WF_driveVars(\E c \in driveCalls : EndDrive(c) \/ FailDrive(c))

-----------------------------------------------------------------------------
(* Properties.                                                             *)

\* The values are of their types; a box that is loading has its call.
DriveTypeOK ==
    /\ driveTree \subseteq Paths /\ drivePath \in driveTree
    /\ localMode \in {"default", "custom"} /\ shownMode \in {"unknown", "default", "custom"}
    /\ shownPath \in Paths \cup {NoPath}
    /\ box.loading => \E c \in driveCalls : c.live /\ c.kind = "folders" /\ c.path = box.path
    /\ \A c \in driveCalls : c.kind \in Writes \cup {"list", "status", "folders"} /\ c.n \in 0..drivePresses

\* The folders shown are those of the path above them, whichever answers came late: the
\* next press, "Choose this folder" included, is about what the reader sees.
FoldersAreOfThePath == box # NoBox => \A p \in box.folders : p # RootPath /\ Front(p) = box.path

\* Once nothing is under way the page shows the folders the Mac uses, unless a call failed
\* or two of those that list the destinations crossed (the later answer need not be the
\* later list).  The folder of local downloads is right whatever crossed: an answer that
\* changes it renders the dashboard, which asks again and hears no older answer.
QuietPageIsTrue ==
    (onPage /\ driveCalls = {} /\ ~missed) =>
        /\ ~listsCrossed => shownPath = drivePath
        /\ shownMode = localMode

\* The Destinations page shows what is so, now of the folders of the box and in the end of
\* those in use.
DestinationsAreTrue == FoldersAreOfThePath /\ QuietPageIsTrue

\* A box that is opened is filled or closed, also when the Mac never answers.
BoxLoads == []<>(~box.loading)
=============================================================================
