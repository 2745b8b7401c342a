-------------------------------- MODULE Quit --------------------------------
(***************************************************************************)
(* Quitting the application: the drain that holds a quit back while        *)
(* diagnostics and agents flush (bounded-shutdown.ts), the retry from a    *)
(* fresh macrotask with its exit fail-safe (quit-retry.ts), the shutdown   *)
(* of the operating system (system-shutdown.ts), and the update that takes *)
(* the quit over (installDownloadedAppUpdate, auto-updater.ts), wired as   *)
(* index.ts wires them, over Electron's own quit machine (external).       *)
(*                                                                         *)
(* JavaScript runs to completion: a macrotask (a timer, an immediate, a    *)
(* native event) starts only when no microtask is left.  A quit that       *)
(* starts natively keeps its frame open while the microtasks run that its  *)
(* before-quit listeners queued, and assigns "quitting" only then.  Time   *)
(* advances in ticks of half a second, and only when nothing else is due:  *)
(* windows, immediates and microtasks take no time on that scale.          *)
(***************************************************************************)
EXTENDS Naturals

CONSTANTS
  Platforms,      \* of "darwin", "linux", "win32": those considered
  DeadlineTicks,  \* QUIT_FLUSH_DEADLINE_MS, 10 s
  FlushTicks,     \* SYSTEM_SHUTDOWN_FLUSH_MS, 2 s
  ExitTicks,      \* SYSTEM_SHUTDOWN_EXIT_MS, 3 s
  ResumeTicks     \* the fail-safe behind a resumed quit, 500 ms

ASSUME TicksAssumption ==
  /\ Platforms \subseteq {"darwin", "linux", "win32"}
  /\ {DeadlineTicks, FlushTicks, ExitTicks, ResumeTicks} \subseteq Nat \ {0}
  /\ FlushTicks < ExitTicks /\ ExitTicks < DeadlineTicks

VARIABLES
  platform,    \* process.platform
  work,        \* what hasPendingWork() would answer
  drain,       \* the drain: its flush, its budget and what it is to do then
  micro,       \* microtasks queued: "stop", "resume", "install"
  immediates,  \* tasks queued with setImmediate: "resume", "updaterQuit"
  frame,       \* Browser::Quit run natively: "none", or its before-quit was
               \* "held" (prevented) or "allowed" and it has not returned
  quitting,    \* Electron's is_quitting_
  windows,     \* "open", "closing" because of a quit, or "closed"
  failSafe,    \* the resumed quit's fail-safe: {} or {ticks left}
  osExit,      \* the exit armed by the OS shutdown, likewise
  update,      \* the install of an update
  dropped,     \* an install failed, and with it the quits it had taken over
  asked,       \* somebody asked to quit, and the quit was not dropped since
  waited,      \* ticks since then
  ended        \* "no", by a proper "quit", or by "exit"

clocks == <<failSafe, osExit, asked, waited, dropped>>
vars == <<platform, work, drain, micro, immediates, frame, quitting, windows,
          failSafe, osExit, update, dropped, asked, waited, ended>>

TypeOK ==
  /\ platform \in Platforms
  /\ work \in BOOLEAN
  /\ drain \in [flush : {"idle", "running", "complete"},
                elapsed : 0..DeadlineTicks, budget : 1..DeadlineTicks,
                resuming : BOOLEAN, updaterOwns : BOOLEAN]
  /\ drain.elapsed <= drain.budget
  /\ micro \subseteq {"stop", "resume", "install"}
  /\ immediates \subseteq {"resume", "updaterQuit"}
  /\ frame \in {"none", "held", "allowed"}
  /\ quitting \in BOOLEAN
  /\ windows \in {"open", "closing", "closed"}
  /\ failSafe \in {{}} \cup {{n} : n \in 0..ResumeTicks}
  /\ osExit \in {{}} \cup {{n} : n \in 0..ExitTicks}
  /\ update \in {"none", "flushing", "quitting"}
  /\ dropped \in BOOLEAN
  /\ asked \in BOOLEAN
  /\ waited \in 0..(DeadlineTicks + 1)
  /\ ended \in {"no", "quit", "exit"}

Init ==
  /\ platform \in Platforms
  /\ work \in BOOLEAN
  /\ drain = [flush |-> "idle", elapsed |-> 0, budget |-> DeadlineTicks,
              resuming |-> FALSE, updaterOwns |-> FALSE]
  /\ micro = {} /\ immediates = {}
  /\ frame = "none" /\ quitting = FALSE /\ windows = "open"
  /\ failSafe = {} /\ osExit = {}
  /\ update = "none" /\ dropped = FALSE /\ asked = FALSE /\ waited = 0 /\ ended = "no"

-----------------------------------------------------------------------------
(* The drain. *)

Complete(d) == d.flush = "complete"

\* flush: started at most once; stop is called in a microtask.
Started(d) == IF d.flush = "idle" THEN [d EXCEPT !.flush = "running"] ELSE d
StopQueued(d) == IF d.flush = "idle" THEN {"stop"} ELSE {}

\* beforeQuit: without work to wait for, and unless a quit is deferred already
\* or the updater's, the quit goes through.
(* bug: a quit the updater owns goes through *)
BypassIgnoringUpdater(d) == ~d.resuming /\ ~work
Bypass(d) == ~d.resuming /\ ~d.updaterOwns /\ ~work

Prevented(d) == ~Complete(d) /\ ~Bypass(d)

\* ... otherwise the flush is to resume it: resumingQuit.
AfterBeforeQuit(d) ==
  IF Complete(d) THEN d
  ELSE [Started(d) EXCEPT !.resuming = @ \/ ~Bypass(d)]

\* hurry: at most FlushTicks from now, never longer than it would have had.
(* bug: the flush keeps its time *)
HurriedNot(d) == d
(* bug: the time starts anew, even if less was left *)
HurriedAnew(d) ==
  IF Complete(d) THEN d ELSE [d EXCEPT !.budget = d.elapsed + FlushTicks]
Hurried(d) ==
  IF Complete(d) \/ d.elapsed + FlushTicks >= d.budget THEN d
  ELSE [d EXCEPT !.budget = d.elapsed + FlushTicks]

\* finish: the promise resolves, and queues what waits on it.
Finish(others) ==
  /\ drain' = [drain EXCEPT !.flush = "complete"]
  /\ micro' = others \cup {r \in {"resume"} : drain.resuming}
                     \cup {r \in {"install"} : update = "flushing"}

-----------------------------------------------------------------------------
(* Electron's quit machine. *)

Idle == ended = "no" /\ micro = {} /\ frame = "none"  \* a macrotask may start

\* A quit that no listener prevented: close the windows, or with none left
\* emit will-quit, which nobody prevents, and quit.
Proceed(openWindows) ==
  /\ windows' = IF openWindows = "open" THEN "closing" ELSE openWindows
  /\ ended' = IF openWindows = "closed" THEN "quit" ELSE ended

\* app.quit() called from JavaScript, with the drain in state d, "queued"
\* left of the microtasks and the windows as given.
AppQuit(d, queued, openWindows) ==
  IF quitting
  THEN /\ drain' = d /\ micro' = queued
       /\ windows' = openWindows
       /\ UNCHANGED <<quitting, ended>>
  ELSE /\ drain' = AfterBeforeQuit(d)
       /\ micro' = queued \cup StopQueued(d)
       /\ quitting' = ~Prevented(d)
       /\ IF Prevented(d) THEN windows' = openWindows /\ UNCHANGED ended
                          ELSE Proceed(openWindows)

\* Browser::Quit from a native task: its listeners run, and the microtasks
\* they queue run before it goes on.
EnterFrame ==
  IF quitting THEN UNCHANGED <<drain, micro, frame>>
  ELSE /\ drain' = AfterBeforeQuit(drain)
       /\ micro' = StopQueued(drain)
       /\ frame' = IF Prevented(drain) THEN "held" ELSE "allowed"

\* ... and then assigns is_quitting_, whatever happened in between.
FrameReturns ==
  /\ ended = "no" /\ frame # "none" /\ micro = {}
  /\ frame' = "none"
  /\ quitting' = (frame = "allowed")
  /\ IF frame = "allowed" THEN Proceed(windows) ELSE UNCHANGED <<windows, ended>>
  /\ UNCHANGED <<platform, work, drain, micro, immediates, update, clocks>>

\* The windows are gone: closed by the quit, or by the user.  Not quitting,
\* Electron emits window-all-closed, on which the application quits, except
\* on macOS.
WindowsClosed ==
  /\ Idle /\ windows # "closed"
  /\ CASE quitting -> /\ Proceed("closed")
                      /\ UNCHANGED <<drain, micro, quitting, asked>>
       [] ~quitting /\ platform = "darwin" ->
            /\ windows' = "closed"
            /\ UNCHANGED <<drain, micro, quitting, ended, asked>>
       [] OTHER -> AppQuit(drain, {}, "closed") /\ asked' = TRUE
  /\ UNCHANGED <<platform, work, immediates, frame, failSafe, osExit, update,
                 dropped, waited>>

-----------------------------------------------------------------------------
(* Who asks to quit. *)

\* The menu, the Dock or SIGTERM.
NativeQuit ==
  /\ Idle
  /\ EnterFrame
  /\ asked' = TRUE
  /\ UNCHANGED <<platform, work, immediates, quitting, windows, failSafe,
                 osExit, update, dropped, waited, ended>>

\* app.quit() in a handler.
JsQuit ==
  /\ Idle
  /\ AppQuit(drain, {}, windows)
  /\ asked' = TRUE
  /\ UNCHANGED <<platform, work, immediates, frame, failSafe, osExit, update,
                 dropped, waited>>

\* The operating system shuts down: heard once, on Linux and macOS.  The
\* flush is hurried before the quit, and an exit is armed behind it.
SystemShutdown ==
  /\ Idle /\ platform # "win32" /\ osExit = {}
  /\ AppQuit(Hurried(drain), {}, windows)
  /\ osExit' = {ExitTicks}
  /\ asked' = TRUE
  /\ UNCHANGED <<platform, work, immediates, frame, failSafe, update, dropped,
                 waited>>

\* The user clicks Restart: the updater owns the quit from now on.  On Linux
\* the package is installed already, and the updater's own quit is queued.
InstallUpdate ==
  /\ Idle /\ windows = "open" /\ update = "none"
  /\ drain' = [Started(drain) EXCEPT !.updaterOwns = TRUE]
  /\ micro' = StopQueued(drain) \cup {r \in {"install"} : Complete(drain)}
  /\ immediates' = immediates \cup {i \in {"updaterQuit"} : platform = "linux"}
  /\ update' = "flushing"
  /\ asked' = TRUE
  /\ UNCHANGED <<platform, work, frame, quitting, windows, failSafe, osExit,
                 dropped, waited, ended>>

\* A recording or an agent's session begins or ends.
WorkChanges ==
  /\ Idle
  /\ work' = ~work
  /\ UNCHANGED <<platform, drain, micro, immediates, frame, quitting, windows,
                 update, clocks, ended>>

-----------------------------------------------------------------------------
(* What they queued. *)

\* stop is called, and may settle, or fail, without leaving the microtasks.
StopCalled ==
  /\ ended = "no" /\ "stop" \in micro
  /\ \/ Finish(micro \ {"stop"})
     \/ micro' = micro \ {"stop"} /\ UNCHANGED drain
  /\ UNCHANGED <<platform, work, immediates, frame, quitting, windows, update,
                 clocks, ended>>

\* ... or later; it need not settle at all.
StopSettles ==
  /\ Idle /\ drain.flush = "running"
  /\ Finish({})
  /\ UNCHANGED <<platform, work, immediates, frame, quitting, windows, update,
                 clocks, ended>>

\* The flush's deadline; only a flush that runs has one.
(* bug: a flush without a deadline *)
NeverDue == FALSE
DeadlineDue == drain.flush = "running" /\ drain.elapsed = drain.budget

DeadlineFires ==
  /\ Idle /\ DeadlineDue
  /\ Finish({})
  /\ UNCHANGED <<platform, work, immediates, frame, quitting, windows, update,
                 clocks, ended>>

(* bug: resumeQuit from the promise chain itself, as the first version had it *)
ResumeAtOnce ==
  /\ ended = "no" /\ "resume" \in micro
  /\ IF drain.updaterOwns
     THEN /\ micro' = micro \ {"resume"}
          /\ UNCHANGED <<drain, quitting, windows, ended, failSafe>>
     ELSE /\ AppQuit(drain, micro \ {"resume"}, windows)
          /\ failSafe' = {ResumeTicks}
  /\ UNCHANGED <<platform, work, immediates, frame, update, osExit, dropped,
                 asked, waited>>

\* The deferred quit is due: from a fresh macrotask, unless it is the
\* updater's.
ThenResume ==
  /\ ended = "no" /\ "resume" \in micro
  /\ micro' = micro \ {"resume"}
  /\ immediates' = immediates \cup {i \in {"resume"} : ~drain.updaterOwns}
  /\ UNCHANGED <<platform, work, drain, frame, quitting, windows, update,
                 clocks, ended>>

\* ... which may have taken it over during the hop.
(* bug: updaterOwnsQuit is not read again *)
ResumesAnyway == TRUE
StillResumes == ~drain.updaterOwns

\* app.quit(), with an exit behind it.
ResumeQuit ==
  /\ Idle /\ "resume" \in immediates
  /\ immediates' = immediates \ {"resume"}
  /\ IF StillResumes
     THEN AppQuit(drain, {}, windows) /\ failSafe' = {ResumeTicks}
     ELSE UNCHANGED <<drain, micro, quitting, windows, ended, failSafe>>
  /\ UNCHANGED <<platform, work, frame, update, osExit, dropped, asked,
                 waited>>

\* The flush before an install is over.  On Linux the application quits; on
\* Windows and macOS the updater does, from a task of its own, unless it
\* fails, which drops the quit.
ThenInstall ==
  /\ ended = "no" /\ "install" \in micro
  /\ \/ /\ platform = "linux"
        /\ AppQuit(drain, micro \ {"install"}, windows)
        /\ update' = "quitting"
        /\ UNCHANGED <<immediates, asked, waited, dropped>>
     \/ /\ platform # "linux"
        /\ micro' = micro \ {"install"}
        /\ immediates' = immediates \cup {"updaterQuit"}
        /\ update' = "quitting"
        /\ UNCHANGED <<drain, quitting, windows, ended, asked, waited,
                       dropped>>
     \/ /\ platform # "linux"
        /\ micro' = micro \ {"install"}
        /\ update' = "none" /\ dropped' = TRUE /\ asked' = FALSE /\ waited' = 0
        /\ UNCHANGED <<immediates, drain, quitting, windows, ended>>
  /\ UNCHANGED <<platform, work, frame, failSafe, osExit>>

\* The updater's own quit, native on macOS.
UpdaterQuit ==
  /\ Idle /\ "updaterQuit" \in immediates
  /\ immediates' = immediates \ {"updaterQuit"}
  /\ IF platform = "darwin"
     THEN EnterFrame /\ UNCHANGED <<quitting, windows, ended>>
     ELSE AppQuit(drain, {}, windows) /\ UNCHANGED frame
  /\ UNCHANGED <<platform, work, update, clocks>>

\* A fail-safe that Electron's quit event did not disarm.
Expired == 0 \in failSafe \cup osExit

ForcedExit ==
  /\ Idle /\ Expired
  /\ ended' = "exit"
  /\ UNCHANGED <<platform, work, drain, micro, immediates, frame, quitting,
                 windows, update, clocks>>

Less(timer) == {n - 1 : n \in timer}

\* Half a second passes, once nothing is due.
Tick ==
  /\ Idle /\ immediates = {} /\ windows # "closing"
  /\ ~DeadlineDue /\ ~Expired
  /\ drain.flush = "running" \/ failSafe # {} \/ osExit # {}
  /\ drain' = IF drain.flush = "running" /\ drain.elapsed < DeadlineTicks
              THEN [drain EXCEPT !.elapsed = @ + 1] ELSE drain
  /\ failSafe' = Less(failSafe)
  /\ osExit' = Less(osExit)
  /\ waited' = IF asked /\ waited <= DeadlineTicks THEN waited + 1 ELSE waited
  /\ UNCHANGED <<platform, work, micro, immediates, frame, quitting, windows,
                 update, dropped, asked, ended>>

-----------------------------------------------------------------------------
Asks == NativeQuit \/ JsQuit \/ SystemShutdown \/ InstallUpdate

\* The rest of the running task, and its microtasks.
InTask == FrameReturns \/ StopCalled \/ ThenResume \/ ThenInstall

\* The tasks that are due.
DueTask ==
  \/ DeadlineFires \/ ResumeQuit \/ UpdaterQuit \/ ForcedExit \/ Tick
  \/ windows = "closing" /\ WindowsClosed

Next == Asks \/ InTask \/ DueTask \/ WindowsClosed \/ StopSettles \/ WorkChanges

\* A task runs to its end, and the event loop comes round to every task that
\* is due, however many events keep arriving in between; that is strong
\* fairness, since each event's own task disables the others for its while.
\* That stop settles is nobody's promise.
Spec == Init /\ [][Next]_vars /\ WF_vars(InTask) /\ SF_vars(DueTask)

-----------------------------------------------------------------------------
(* Properties *)

\* A quit that began to close the windows is one Electron knows of: it ends
\* in will-quit and quit, never in window-all-closed with nobody quitting.
\* A resumption nested in the pass it resumes loses exactly this.
NoOrphan == windows = "closing" /\ frame = "none" => quitting

\* No quit is ended by app.exit, which skips the cleanup of will-quit: not by
\* the fail-safe of a resumed quit, nor by the one of an OS shutdown,
\* however late in another quit or update the shutdown comes.  (An update
\* that fails drops the quits it had taken over, and a shutdown's exit, armed
\* behind one of those, then finds nothing quitting.)
NeverForced == ended = "exit" => dropped

\* A quit closes no window before the flush is over, if there is work to
\* flush or the updater owns the quit: the recorders' targets are the windows.
FlushedFirst ==
  [][~quitting /\ quitting' /\ (work \/ drain.updaterOwns) => Complete(drain)]_vars

\* The drain does not quit ahead of an updater that took over, not even during
\* the hop to the macrotask.
YieldsToUpdater ==
  [][drain.updaterOwns /\ failSafe = {} => failSafe' = {}]_vars

\* Every request to quit ends the application, however long the flush hangs,
\* unless an update that owned the quit fails; the next one then ends it.  It
\* waits for the drain's deadline at most, counted from the first request,
\* whatever is asked meanwhile.
QuitEnds ==
  /\ [](asked => waited <= DeadlineTicks)
  /\ asked ~> ended # "no" \/ ~asked
=============================================================================
