------------------------------- MODULE Updates -------------------------------
(* Checking for, downloading, offering and installing updates (auto-updater.ts),   *)
(* with a newer release that replaces a downloaded one.  External: electron-updater *)
(* with its one cache directory, and Squirrel.Mac, which stages what it is given  *)
(* and keeps the older build until then.                                         *)
EXTENDS Integers, FiniteSets

CONSTANTS
  Platforms,      \* those to check, among "darwin", "win32" and "linux"
  Tracks,         \* update selections: train and channel
  MaxVersion,     \* bound: releases are 1 .. MaxVersion; the app that runs is 0
  MaxChecks,      \* bound: checks that read the feed
  MaxSelections,  \* bound: changes of the selection
  Nothing

ASSUME UpdatesAssumption ==
  /\ Platforms \subseteq {"darwin", "win32", "linux"}
  /\ MaxVersion \in Nat /\ MaxChecks \in Nat /\ MaxSelections \in Nat
  /\ Nothing \notin Tracks /\ Nothing \notin 0 .. MaxVersion
  /\ Nothing \notin [track : Tracks, version : 1 .. MaxVersion]

VARIABLES
  platform,
  selection,     \* the track chosen in the settings
  held,          \* heldDownloadedUpdate
  superseding,   \* supersedingDownload
  shown,         \* updateStatus
  check,         \* the check in flight, with its activeDownload
  stage,         \* pendingSquirrelStage: the download that awaits Squirrel.Mac
  armed,         \* autoInstallOnAppQuit
  channelOf,     \* pendingDownloadChannelsByVersion
  installing,    \* the build a Restart names while the app is flushed
  ran,           \* what the Restart named, and what it has run
  native,        \* electron-updater's cache, and Squirrel.Mac
  excused,       \* see OfferedIsInstalled
  checks,
  selections

counted == <<checks, selections>>
offering == <<held, superseding, shown, armed>>
updatesVars == <<platform, selection, held, superseding, shown, check, stage, armed,
                 channelOf, installing, ran, native, excused, checks, selections>>

Versions == 1 .. MaxVersion
HeldDownloads == [track : Tracks, version : Versions]

(* activeDownload lives from "asking" to the end of the check.  early: it was       *)
(* canceled before it had a token; aborted: its token was canceled as it began.    *)
NoCheck == [at |-> "none", track |-> Nothing, replaces |-> 0, version |-> 0,
            canceled |-> FALSE, early |-> FALSE, aborted |-> FALSE]

Status(is, version) == [is |-> is, version |-> version]

UpdatesInit ==
  /\ platform \in Platforms
  /\ selection \in Tracks
  /\ held = Nothing /\ superseding = Nothing
  /\ shown = Status("idle", 0)
  /\ check = NoCheck
  /\ stage = Nothing
  /\ armed = (platform # "linux")
  /\ channelOf = [v \in Versions |-> Nothing]
  /\ installing = 0
  /\ ran = Nothing
  /\ native = [disk |-> 0, file |-> 0, fetching |-> 0, staged |-> 0]
  /\ excused = FALSE
  /\ checks = 0 /\ selections = 0

-----------------------------------------------------------------------------
(* downloadedUpdateMatchesChannel *)
Matches(download, track) == download # Nothing /\ download.track = track

(* bug: a replacement under way is not looked at *)
ArmedRegardless(download, replaced, track) ==
  platform # "linux" /\ (download = Nothing \/ Matches(download, track))

(* syncAutoInstallOnAppQuit *)
Armed(download, replaced, track) ==
  IF replaced # Nothing
  THEN platform = "darwin"
  ELSE platform # "linux" /\ (download = Nothing \/ Matches(download, track))

(* reconcileDownloadedUpdateEligibility: the status it leaves. *)
Reconciled(download, replaced, track, status) ==
  IF replaced # Nothing THEN status
  ELSE IF Matches(download, track) THEN Status("downloaded", download.version)
  ELSE IF status.is = "downloaded" THEN Status("no-update", 0)
  ELSE status

(* setUpdateStatusUnlessDownloaded, with preserveDownloadedStatus *)
UnlessDownloaded(status, next) ==
  IF Matches(held, selection) /\ status.is = "downloaded" THEN status ELSE next

(* abandonSupersede: the status it leaves. *)
Abandoned(status) ==
  IF superseding = Nothing THEN status ELSE Reconciled(held, Nothing, selection, status)

(* What is downloaded, what it replaces, and a status: both are reconciled. *)
Offering(download, replaced, status, track) ==
  /\ held' = download
  /\ superseding' = replaced
  /\ armed' = Armed(download, replaced, track)
  /\ shown' = Reconciled(download, replaced, track, status)

(* setUpdateStatus alone. *)
Shows(status) == shown' = status /\ UNCHANGED <<held, superseding, armed>>

(* bug: the failure is not shown *)
AbandonsOnly(status) ==
  /\ superseding' = Nothing
  /\ armed' = IF superseding = Nothing THEN armed ELSE Armed(held, Nothing, selection)
  /\ shown' = Abandoned(shown)
  /\ UNCHANGED held

(* abandonSupersede, then a status unless a downloaded one stands. *)
AbandonsAndShows(status) ==
  /\ superseding' = Nothing
  /\ armed' = IF superseding = Nothing THEN armed ELSE Armed(held, Nothing, selection)
  /\ shown' = UnlessDownloaded(Abandoned(shown), status)
  /\ UNCHANGED held

CheckEnds == check' = NoCheck

-----------------------------------------------------------------------------
(* The user and the renderer.  Nothing happens once an installer has been run.     *)

(* handleUpdateSelectionChange *)
SelectionChanges(track) ==
  /\ ran = Nothing
  /\ track # selection /\ selections < MaxSelections
  /\ selection' = track
  /\ selections' = selections + 1
  /\ Offering(held, superseding, shown, track)
  /\ UNCHANGED <<platform, check, stage, channelOf, installing, ran, native, excused, checks>>

(* readAppUpdateStatus, and a check that the hourly budget skips. *)
StatusIsRead ==
  /\ ran = Nothing
  /\ Offering(held, superseding, shown, selection)
  /\ UNCHANGED <<platform, selection, check, stage, channelOf, installing, ran, native,
                 excused, counted>>

(* checkForAppUpdatesNow joins or waits for the check in flight; runUpdateCheck. *)
StartsCheck ==
  /\ ran = Nothing
  /\ check.at = "none" /\ checks < MaxChecks
  /\ checks' = checks + 1
  /\ Offering(held, superseding, shown, selection)
  /\ check' = [NoCheck EXCEPT !.at = "reading", !.track = selection,
                 !.replaces = IF Matches(held, selection) THEN held.version ELSE 0]
  /\ UNCHANGED <<platform, selection, stage, channelOf, installing, ran, native, excused,
                 selections>>

(* cancelAppUpdateDownload that answers true. *)
Cancels ==
  /\ ran = Nothing
  /\ check.at \in {"asking", "downloading", "landed"}
  /\ ~ check.canceled /\ stage = Nothing
  /\ check' = [check EXCEPT !.canceled = TRUE, !.early = (check.at = "asking")]
  /\ UNCHANGED <<platform, selection, offering, stage, channelOf, installing, ran, native,
                 excused, counted>>

(* What quitAndInstall would run: on macOS Squirrel.Mac's staged build, or the one   *)
(* that it stages first, which is waited for.                                     *)
Installable ==
  IF platform = "darwin"
  THEN IF native.staged # 0 THEN native.staged ELSE native.fetching
  ELSE IF native.file = native.disk THEN native.file ELSE 0

(* installDownloadedAppUpdate: the build is the one held; the app is flushed first. *)
ClicksRestart ==
  /\ ran = Nothing /\ installing = 0
  /\ Matches(held, selection)
  /\ platform # "linux"
  /\ installing' = held.version
  /\ UNCHANGED <<platform, selection, offering, check, stage, channelOf, ran, native,
                 excused, counted>>

(* The flush has ended: quitAndInstall. *)
Installs ==
  /\ ran = Nothing /\ installing # 0
  /\ ran' = [named |-> installing, run |-> Installable]
  /\ UNCHANGED <<platform, selection, offering, check, stage, channelOf, installing, native,
                 excused, counted>>

(* On Linux the package is installed before the flush, or refused. *)
InstallsPackage ==
  /\ ran = Nothing
  /\ Matches(held, selection)
  /\ platform = "linux"
  /\ ran' = [named |-> held.version, run |-> Installable]
  /\ UNCHANGED <<platform, selection, offering, check, stage, channelOf, installing, native,
                 excused, counted>>

-----------------------------------------------------------------------------
(* runReleaseCheck *)

(* beginSupersede, if a download of this track is held; "checking-for-update". *)
BeginsSupersede ==
  LET replaced == IF check.replaces # 0 THEN held ELSE superseding IN
  /\ superseding' = replaced
  /\ armed' = IF check.replaces # 0 THEN Armed(held, replaced, selection) ELSE armed
  /\ shown' = UnlessDownloaded(shown, Status("checking", 0))
  /\ UNCHANGED held

(* The feed's release for the track, 0 for one that is no newer than the app. *)
ReadsRelease(version) ==
  /\ ran = Nothing
  /\ check.at = "reading"
  /\ IF version > check.replaces
     THEN /\ check' = [check EXCEPT !.at = "asking", !.version = version]
          /\ BeginsSupersede
     ELSE /\ CheckEnds
          /\ IF check.replaces # 0
             THEN UNCHANGED offering
             ELSE Shows(UnlessDownloaded(shown, Status("no-update", 0)))
  /\ UNCHANGED <<platform, selection, stage, channelOf, installing, ran, native, excused,
                 counted>>

(* The release list cannot be read; only Linux shows it. *)
ReleaseFails ==
  /\ ran = Nothing
  /\ check.at = "reading"
  /\ CheckEnds
  /\ Shows(IF platform = "linux" /\ ~ (check.replaces # 0 /\ Matches(held, check.track))
           THEN UnlessDownloaded(shown, Status("error", 0)) ELSE shown)
  /\ UNCHANGED <<platform, selection, stage, channelOf, installing, ran, native, excused,
                 counted>>

-----------------------------------------------------------------------------
(* runAvailableUpdateDownload *)

(* "update-not-available", or "error" and the rejection. *)
FindsNone ==
  /\ ran = Nothing
  /\ check.at = "asking"
  /\ CheckEnds
  /\ \E is \in {"no-update", "error"} :
       /\ superseding' = Nothing
       /\ armed' = IF superseding = Nothing THEN armed ELSE Armed(held, Nothing, selection)
       /\ shown' = Abandoned(UnlessDownloaded(shown, Status(is, 0)))
  /\ UNCHANGED <<platform, selection, held, stage, channelOf, installing, ran, native,
                 excused, counted>>

(* bug: a cancel that came before there was a token is forgotten *)
ForgetsPendingCancel == FALSE

(* applyPendingCancel, once the token is there. *)
AppliesPendingCancel == check.canceled

(* bug: only a download of the same track is dropped *)
DropsHeldOfTrack == held # Nothing /\ platform # "darwin" /\ superseding # Nothing

(* bug: macOS drops it, too *)
DropsHeldAnywhere == held # Nothing

(* Whether the cache that was emptied held the installer of the offer. *)
DropsHeld == held # Nothing /\ platform # "darwin"

(* "update-available", and checkForUpdates returns at once with the download under    *)
(* way; electron-updater empties its cache, unless this release is in it, and still *)
(* names the installer that was there.                                            *)
StartsDownload ==
  /\ ran = Nothing
  /\ check.at = "asking"
  /\ check' = [check EXCEPT !.at = "downloading", !.aborted = AppliesPendingCancel]
  /\ channelOf' = [channelOf EXCEPT ![check.version] = check.track]
  /\ shown' = Status("available", check.version)
  /\ IF DropsHeld
     THEN /\ superseding' = IF superseding = Nothing THEN held ELSE superseding
          /\ held' = Nothing
          /\ armed' = Armed(Nothing, superseding', selection)
     ELSE UNCHANGED <<superseding, held, armed>>
  /\ native' = [native EXCEPT !.disk = IF @ = check.version THEN @ ELSE 0]
  /\ UNCHANGED <<platform, selection, stage, installing, ran, excused, counted>>

(* "download-progress" *)
Progresses ==
  /\ ran = Nothing
  /\ check.at = "downloading"
  /\ Shows(Status("downloading", check.version))
  /\ UNCHANGED <<platform, selection, check, stage, channelOf, installing, ran, native,
                 excused, counted>>

(* "update-cancelled" or "error", and the rejection; electron-updater clears its cache. *)
DownloadFails ==
  /\ ran = Nothing
  /\ check.at = "downloading"
  /\ CheckEnds
  /\ channelOf' = IF check.canceled THEN [channelOf EXCEPT ![check.version] = Nothing]
                                    ELSE channelOf
  /\ native' = [native EXCEPT !.disk = 0, !.file = 0]
  /\ AbandonsAndShows(Status(IF check.canceled THEN "canceled" ELSE "error", check.version))
  /\ UNCHANGED <<platform, selection, stage, installing, ran, excused, counted>>

(* "update-downloaded"; then, if install-on-quit is on, MacUpdater asks Squirrel.Mac  *)
(* to fetch the build, which fetches one at a time.  A valid installer in the cache  *)
(* lands without a look at the token.                                             *)
DownloadLands ==
  /\ ran = Nothing
  /\ check.at = "downloading"
  /\ ~ check.aborted \/ native.disk = check.version
  /\ native.fetching = 0
  /\ check' = [check EXCEPT !.at = "landed"]
  /\ channelOf' = [channelOf EXCEPT ![check.version] = Nothing]
  /\ LET track == IF channelOf[check.version] = Nothing THEN selection
                                                    ELSE channelOf[check.version]
         next  == [track |-> track, version |-> check.version]
     IN IF superseding # Nothing /\ platform = "darwin"
        THEN /\ stage' = next
             /\ UNCHANGED offering
             /\ UNCHANGED excused
        ELSE /\ Offering(next, Nothing, shown, selection)
             /\ excused' = (excused \/ (platform = "darwin" /\ (held # Nothing \/ ~ armed')))
             /\ UNCHANGED stage
  /\ native' = [native EXCEPT !.disk = check.version, !.file = check.version,
                  !.fetching = IF platform = "darwin" /\ armed' THEN check.version ELSE @]
  /\ UNCHANGED <<platform, selection, installing, ran, counted>>

(* The download's promise is settled, and so is the stage it waits for. *)
EndsCheck ==
  /\ ran = Nothing
  /\ check.at = "landed" /\ stage = Nothing
  /\ CheckEnds
  /\ superseding' = Nothing
  /\ armed' = IF superseding = Nothing THEN armed ELSE Armed(held, Nothing, selection)
  /\ shown' = Abandoned(shown)
  /\ UNCHANGED <<platform, selection, held, stage, channelOf, installing, ran, native,
                 excused, counted>>

-----------------------------------------------------------------------------
(* awaitSquirrelStage and Squirrel.Mac *)

(* The native "update-downloaded". *)
SquirrelStages ==
  /\ ran = Nothing
  /\ native.fetching # 0
  /\ native' = [native EXCEPT !.staged = native.fetching, !.fetching = 0]
  /\ stage' = Nothing
  /\ IF stage # Nothing
     THEN Offering(stage, Nothing, shown, selection) /\ excused' = FALSE
     ELSE UNCHANGED offering /\ UNCHANGED excused
  /\ UNCHANGED <<platform, selection, check, channelOf, installing, ran, counted>>

(* The native "error", which electron-updater passes on first. *)
SquirrelFails ==
  /\ ran = Nothing
  /\ native.fetching # 0
  /\ native' = [native EXCEPT !.fetching = 0]
  /\ stage' = Nothing
  /\ LET status == UnlessDownloaded(shown, Status("error", 0)) IN
       IF stage # Nothing THEN Offering(held, Nothing, status, selection) ELSE Shows(status)
  /\ excused' = (excused \/ stage = Nothing)
  /\ UNCHANGED <<platform, selection, check, channelOf, installing, ran, counted>>

(* SQUIRREL_STAGE_TIMEOUT_MS; Squirrel.Mac goes on. *)
StageTimesOut ==
  /\ ran = Nothing
  /\ stage # Nothing
  /\ stage' = Nothing
  /\ Offering(held, Nothing, shown, selection)
  /\ excused' = TRUE
  /\ UNCHANGED <<platform, selection, check, channelOf, installing, ran, native, counted>>

UpdatesNext ==
  \/ \E track \in Tracks : SelectionChanges(track)
  \/ StatusIsRead \/ StartsCheck \/ Cancels
  \/ ClicksRestart \/ Installs \/ InstallsPackage
  \/ \E version \in 0 .. MaxVersion : ReadsRelease(version)
  \/ ReleaseFails \/ FindsNone
  \/ StartsDownload \/ Progresses \/ DownloadFails \/ DownloadLands \/ EndsCheck
  \/ SquirrelStages \/ SquirrelFails \/ StageTimesOut

UpdatesSpec == UpdatesInit /\ [][UpdatesNext]_updatesVars

-----------------------------------------------------------------------------
(* Properties *)

(* Whatever was replaced, failed, canceled or deselected: a Restart offer names a   *)
(* build that is there to be installed (Windows, Linux), and on macOS the one that *)
(* Squirrel.Mac has staged, unless a stage timed out while Squirrel.Mac went on, or *)
(* the build held was of another track (awaitSquirrelStage is not used then).  And  *)
(* quitting on Windows never runs an installer that is gone, or one of a track that *)
(* is not selected, also while a download replaces it and after it failed.         *)
OfferedIsInstalled ==
  /\ shown.is = "downloaded" /\ ~ excused => shown.version = Installable
  /\ platform = "win32" /\ armed /\ native.file # 0 =>
       /\ native.disk = native.file
       /\ held = [track |-> selection, version |-> native.file]

(* "keeps Settings from promising a download that is no longer running": without a   *)
(* check in flight the status is none of a check.  (It is when the track was        *)
(* changed during the download: what landed is of the track left, and the check of *)
(* the new track is skipped by the hourly budget.)                                *)
StatusSettles ==
  check.at = "none" /\ shown.is \in {"checking", "available", "downloading"} =>
    held # Nothing /\ held.track # selection

(* A download ends as it should: the status shows none that runs no longer.  "A      *)
(* cancel that arrived while the token did not yet exist: honour it now": it never  *)
(* lands, unless its installer was in the cache, and one that stops ends as canceled *)
(* or behind the offer that stands, not as a failure.  And when a replacement "fails, *)
(* is canceled or never stages, the older offer is put back" on macOS, and dropped  *)
(* elsewhere.                                                                     *)
DownloadsSettle ==
  /\ []StatusSettles
  /\ [][/\ check.early /\ check.at # "landed" /\ native.disk # check.version =>
             check'.at # "landed"
        /\ check.canceled /\ check.at = "downloading" /\ check'.at = "none" =>
             shown'.is \in {"canceled", "downloaded"}
        /\ superseding # Nothing /\ superseding' = Nothing /\ check'.at = "none" =>
             IF platform = "darwin" THEN held' # Nothing
                                    ELSE held' \in {Nothing, superseding}]_updatesVars

(* "Restart runs only an installer that is on disk, and only the one the button      *)
(* named."  (The build is not looked at again after the flush, during which a check *)
(* may start a download that replaces it.)                                        *)
RestartRunsWhatItNames == ran # Nothing => ran.run = ran.named
=============================================================================
